---------------------------- MODULE PeerManager ----------------------------
(***************************************************************************)
(* The set of peers of the consensus network                               *)
(* (consensus-net/src/peer_manager.rs), shared behind a mutex: every       *)
(* method is one step.  Wall-clock silence is one bit per peer: whether    *)
(* the peer has been silent for longer than peer_timeout_secs.  Left out:  *)
(* addresses, stakes, latency, scores and message counters, which no       *)
(* decision reads.                                                         *)
(***************************************************************************)
EXTENDS Integers, FiniteSets

CONSTANTS Keys, MaxPeers

ASSUME PeerAssumption == IsFiniteSet(Keys) /\ MaxPeers \in Nat

VARIABLES peers,    \* per key: PeerConnection, or Unknown
          active    \* active_validators

peerVars == <<peers, active>>

Unknown == [known |-> FALSE, connected |-> FALSE, silent |-> FALSE]
Known == {k \in Keys : peers[k].known}

ConnectedPeers == {k \in Known : peers[k].connected}
ConnectedValidators == ConnectedPeers \cap active

\* pick_peer: active validators first, any connected peer otherwise.  Which one
\* depends on the nanoseconds of the clock, and is left open.
Candidates ==
  IF ConnectedValidators # {} THEN ConnectedValidators ELSE ConnectedPeers

PeerInit ==
  /\ peers = [k \in Keys |-> Unknown]
  /\ active = {}

\* add_peer returns MaxPeersReached.
Refused(k) == ~peers[k].known /\ Cardinality(Known) >= MaxPeers

\* A peer that is known or refused changes nothing here: of a known one only
\* address and stake are updated.
AddPeer(k, validator) ==
  /\ ~peers[k].known /\ ~Refused(k)
  /\ peers' = [peers EXCEPT ![k] = [Unknown EXCEPT !.known = TRUE]]
  /\ active' = IF validator THEN active \cup {k} ELSE active

RemovePeer(k) ==
  /\ peers[k].known
  /\ peers' = [peers EXCEPT ![k] = Unknown]
  /\ active' = active \ {k}

\* mark_connected also refreshes last_seen.
MarkConnected(k) ==
  /\ peers[k].known
  /\ peers' = [peers EXCEPT ![k].connected = TRUE, ![k].silent = FALSE]
  /\ UNCHANGED active

MarkDisconnected(k) ==
  /\ peers[k].known
  /\ peers' = [peers EXCEPT ![k].connected = FALSE]
  /\ UNCHANGED active

RecordReceived(k) ==
  /\ peers[k].known
  /\ peers' = [peers EXCEPT ![k].silent = FALSE]
  /\ UNCHANGED active

\* Time passes without a word from the peer.
FallSilent(k) ==
  /\ peers[k].known
  /\ peers' = [peers EXCEPT ![k].silent = TRUE]
  /\ UNCHANGED active

UpdateActiveValidators(validators) ==
  /\ active' = validators
  /\ UNCHANGED peers

\* evict_stale_peers disconnects, and keeps the entry.
EvictStalePeers ==
  /\ peers' = [k \in Keys |->
       IF peers[k].known /\ peers[k].silent THEN [peers[k] EXCEPT !.connected = FALSE]
                                            ELSE peers[k]]
  /\ UNCHANGED active

PeerNext ==
  \/ \E k \in Keys : (\E v \in BOOLEAN : AddPeer(k, v)) \/ RemovePeer(k) \/ MarkConnected(k)
       \/ MarkDisconnected(k) \/ RecordReceived(k) \/ FallSilent(k)
  \/ \E s \in SUBSET Keys : UpdateActiveValidators(s)
  \/ EvictStalePeers

-----------------------------------------------------------------------------
(* Properties.                                                             *)

\* The shape of the table of peers, which never exceeds max_peers (add_peer).
PeerTypeOK ==
  /\ peers \in [Keys -> [known: BOOLEAN, connected: BOOLEAN, silent: BOOLEAN]]
  /\ active \subseteq Keys
  /\ Cardinality(Known) <= MaxPeers

\* Does not hold. peer_manager.rs says of active_validators: "A subset of
\* `peers.keys()`."
ActiveAreKnown == active \subseteq Known

\* Does not hold. peer_manager.rs says of add_peer: "Returns `Err` if we are
\* already at the connection limit."
RefusedOnlyAtLimit ==
  \A k \in Keys : Refused(k) => Cardinality(ConnectedPeers) >= MaxPeers
=============================================================================
