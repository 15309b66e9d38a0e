----------------------------- MODULE BftRestart -----------------------------
(***************************************************************************)
(* BftConsensus with validators that restart within a height.              *)
(*                                                                         *)
(* A consensus service that starts builds a new engine and runs            *)
(* start_height (core/src/validator.rs, ConsensusService::new): lock, sent *)
(* flags, counted votes and the evidence collector are not kept.  What the *)
(* node sent before stays in the network.  A node restarts only while it   *)
(* has committed nothing, so that it starts at the height it left.         *)
(***************************************************************************)
EXTENDS BftConsensus

CONSTANT Restarting     \* the nodes that may restart

ASSUME RestartingAssumption == Restarting \subseteq Honest

Restart(n) ==
  /\ committed[n] = {}
  /\ eng' = [eng EXCEPT ![n] = StartNewHeight(StartHeight)]
  /\ collector' = [collector EXCEPT ![n] = PruneFor(NewCollector, StartHeight)]
  /\ timer' = [timer EXCEPT ![n] = "Propose"]
  /\ \E p \in Proposals(eng'[n], n, NewBlocks) : msgs' = msgs \cup p
  /\ UNCHANGED committed

RestartNext == Next \/ \E n \in Restarting : Restart(n)

RestartSpec == Init /\ [][RestartNext]_vars

-----------------------------------------------------------------------------
(***************************************************************************)
(* Properties.                                                             *)
(***************************************************************************)
\* What does not rest on memory survives a restart: a committed block carries
\* a quorum of precommits that were sent, and every precommit for a block, and
\* every lock, has a quorum of prevotes behind it.
CertificatesSurvive == CommitCertified /\ PolkaJustified

\* Does not hold. docs/consensus-bft.md: "Validators lock on values they
\* precommit for, preventing them from voting for a different value in the same
\* height." A node that precommitted a block does not precommit another one in
\* the same round, where no later polka can have released it.
LockBindsVotes ==
  \A m1, m2 \in msgs :
    /\ m1.type = "Precommit" /\ m2.type = "Precommit"
    /\ SameKey(m1, m2)
    /\ m1.hash # Nil /\ m2.hash # Nil
    => m1.hash = m2.hash
=============================================================================
