---------------------------- MODULE ValidatorSet ----------------------------
(***************************************************************************)
(* The stake-weighted validator set of consensus-bft                       *)
(* (validator_set.rs) and the proposer selection on it (proposer.rs).      *)
(* A validator's pubkey is a natural number: the code only compares        *)
(* pubkeys for equality and, to break ties, for order.                     *)
(***************************************************************************)
EXTENDS Integers, FiniteSets, Sums

CONSTANTS
  Nodes,    \* pubkeys of the nodes that run the protocol
  Stake,    \* the stake of each node, in lamports; zero for an observer
  Faulty    \* the nodes that may send anything under their own identity

ASSUME NodesAssumption ==
  /\ IsFiniteSet(Nodes)
  /\ Nodes \subseteq Nat
  /\ Stake \in [Nodes -> Nat]
  /\ Faulty \subseteq Nodes

Honest == Nodes \ Faulty

\* ValidatorSet::new keeps the entries with a positive stake.
Validators == {v \in Nodes : Stake[v] > 0}

-----------------------------------------------------------------------------
\* Sum of the stakes of a set of nodes (stake_of is 0 outside the set).
StakeOf(S) == SumOver(Stake, S)

\* Consensus runs on a set that is not empty.
ASSUME StakePositive == StakeOf(Nodes) > 0

TotalStake == StakeOf(Nodes)

\* BftConfig::default().finality_threshold, in thousandths.
FinalityThreshold == 667

\* quorum_stake: ceil(total * threshold), at least 1.
QuorumStake ==
  LET q == (TotalStake * FinalityThreshold + 999) \div 1000
  IN  IF q < 1 THEN 1 ELSE q

Quorums == {Q \in SUBSET Nodes : StakeOf(Q) >= QuorumStake}

-----------------------------------------------------------------------------
\* Canonical order: stake descending, then pubkey ascending.
Precedes(u, v) ==
  \/ Stake[u] > Stake[v]
  \/ Stake[u] = Stake[v] /\ u < v

\* Stake accumulated by the walk once it has reached v.
Accumulated(v) == StakeOf({u \in Validators : u = v \/ Precedes(u, v)})

\* The first validator, in canonical order, whose accumulated stake exceeds
\* the target.
ProposerAt ==
  [target \in 0 .. (TotalStake - 1) |->
     CHOOSE v \in Validators :
       /\ Accumulated(v) > target
       /\ \A u \in Validators : Precedes(u, v) => Accumulated(u) <= target]

\* proposer_for_round
ProposerForRound(height, round) == ProposerAt[(height + round) % TotalStake]
=============================================================================
