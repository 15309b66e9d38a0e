---------------------------- MODULE BftInvariants ----------------------------
(***************************************************************************)
(* The inductive invariant behind the safety properties of BftConsensus.   *)
(* It speaks of a set S of messages (those sent so far), of each node's    *)
(* engine relative to S, and of the set K of the honest nodes that keep    *)
(* their state: all of them in BftConsensus, those that do not restart in  *)
(* BftRestart.                                                             *)
(***************************************************************************)
EXTENDS BftConsensus

VoteTypes == {"Prevote", "Precommit"}

\* Less than a third of the stake is faulty.
FewFaulty == 3 * StakeOf(Faulty) < TotalStake

\* What the fault bound is needed for: two quorums share a node of K.
QuorumsMeet(K) == \A Q1, Q2 \in Quorums : Q1 \cap Q2 \cap K # {}

-----------------------------------------------------------------------------
\* A node of K casts one vote of each kind per round.
UniqueVotes(K, S) ==
  \A type \in VoteTypes, h \in Heights, r \in Rounds, v \in K :
    \A x, y \in Hashes :
      Vote(type, h, r, x, v) \in S /\ Vote(type, h, r, y, v) \in S => x = y

\* An honest node precommits a block only after a polka for it.
JustifiedPrecommits(S) ==
  \A h \in Heights, r \in Rounds, b \in Blocks, v \in Honest :
    Vote("Precommit", h, r, b, v) \in S => Polka(S, h, r, b)

\* Why a node that precommitted b1 in round r1 may prevote b in a later round r:
\* the proposal claims a polka, or there was one in between, or there is one in
\* round r itself to which no node of K that precommitted b1 contributed.
Excuse(K, S, h, r1, b1, r, b) ==
  \/ \E p \in Nodes, vr \in Rounds : vr >= r1 /\ Proposal(h, r, b, p, vr) \in S
  \/ \E q \in Rounds : q >= r1 /\ q < r /\ Polka(S, h, q, b)
  \/ \E P \in Quorums :
       /\ P \subseteq VotersIn(S, "Prevote", h, r, b)
       /\ \A u \in P \cap K : Vote("Precommit", h, r1, b1, u) \notin S

LockRule(K, S) ==
  \A h \in Heights, r1, r \in Rounds, b1, b \in Blocks, v \in K :
    /\ r1 < r
    /\ b1 # b
    /\ Vote("Precommit", h, r1, b1, v) \in S
    /\ Vote("Prevote", h, r, b, v) \in S
    => Excuse(K, S, h, r1, b1, r, b)

SafeVotes(K, S) ==
  /\ UniqueVotes(K, S)
  /\ JustifiedPrecommits(S)
  /\ QuorumsMeet(K) => LockRule(K, S)

-----------------------------------------------------------------------------
\* The votes an engine counts were sent in its current round.
Backed(e, S) ==
  \A v \in Nodes :
    /\ e.prevotes[v] # NoVote =>
         Vote("Prevote", e.height, e.round, e.prevotes[v], v) \in S
    /\ e.precommits[v] # NoVote =>
         Vote("Precommit", e.height, e.round, e.precommits[v], v) \in S

\* A node's votes belong to rounds it has left, or to its current round and
\* then the sent flag is up.
Behind(e, h, r, sent) ==
  \/ h < e.height
  \/ h = e.height /\ r < e.round
  \/ h = e.height /\ r = e.round /\ sent

VotesBehind(e, n, S) ==
  \A h \in Heights, r \in Rounds, x \in Hashes :
    /\ Vote("Prevote", h, r, x, n) \in S => Behind(e, h, r, e.sentPrevote)
    /\ Vote("Precommit", h, r, x, n) \in S => Behind(e, h, r, e.sentPrecommit)

\* The lock is a polka of this height, not of a later round.
LockIsPolka(e, S) ==
  /\ e.lockedValue = Nil <=> e.lockedRound = NoRound
  /\ e.lockedRound <= e.round
  /\ e.lockedValue # Nil => Polka(S, e.height, e.lockedRound, e.lockedValue)

\* The lock is at least as recent as the node's precommits of this height.
LockCovers(e, n, S) ==
  \A r \in Rounds, b \in Blocks :
    Vote("Precommit", e.height, r, b, n) \in S =>
      \/ r < e.lockedRound
      \/ r = e.lockedRound /\ b = e.lockedValue

SafeEngine(K, e, n, S) ==
  /\ Backed(e, S)
  /\ LockIsPolka(e, S)
  /\ n \in K => VotesBehind(e, n, S)
  /\ n \in K /\ QuorumsMeet(K) => LockCovers(e, n, S)

\* The certificate of a committed block was sent.
Certified(c, S) ==
  /\ c.signers \in Quorums
  /\ c.signers \subseteq VotersIn(S, "Precommit", c.height, c.round, c.block)

\* The collector holds votes that were sent, and its evidence is a pair of
\* different votes with one key.
SafeCollector(c, S) ==
  /\ c.votes \subseteq S
  /\ \A d \in c.evidence :
       d.first \in S /\ d.second \in S /\ SameKey(d.first, d.second) /\ d.first # d.second

-----------------------------------------------------------------------------
\* The inductive invariant: the votes sent so far are safe, and every node's
\* engine, timer, committed blocks and evidence agree with them.
SafetyInv(K) ==
  /\ TypeOK
  /\ SafeVotes(K, Sent)
  /\ \A m \in msgs : m.type \in VoteTypes => m.voter \in Honest
  /\ \A n \in Honest :
       /\ SafeEngine(K, eng[n], n, Sent)
       /\ SafeCollector(collector[n], Sent)
       /\ \A c \in committed[n] : Certified(c, Sent)
=============================================================================
