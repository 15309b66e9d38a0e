--------------------------- MODULE MCBftConsensus ---------------------------
(***************************************************************************)
(* Instances of BftConsensus for TLC.                                      *)
(***************************************************************************)
EXTENDS BftInvariants, TLC

\* Two validators, total stake 4, quorum 3: node 1 is a quorum by itself.
MCStake31 == 1 :> 3 @@ 2 :> 1

\* A validator with a quorum of the stake, an observer without stake, and a
\* validator with a quarter of it.
MCStake301 == 1 :> 3 @@ 2 :> 0 @@ 3 :> 1

\* Three validators, total stake 4, quorum 3: node 1 with either other node.
MCStake211 == 1 :> 2 @@ 2 :> 1 @@ 3 :> 1

\* valid_round claims of the faulty proposers: none, any of rounds 0 and 1.
MCNoClaims == {NoRound}
MCClaims == Rounds \cup {NoRound}

\* No handler reads the evidence collector, so states that differ only in it
\* have the same future as far as every other property goes.
WithoutCollector == <<eng, timer, committed, msgs>>
=============================================================================
