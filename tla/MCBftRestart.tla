---------------------------- MODULE MCBftRestart ----------------------------
(***************************************************************************)
(* Instances of BftRestart for TLC.                                        *)
(***************************************************************************)
EXTENDS BftRestart, TLC

\* A validator with a quorum of the stake, and one with a quarter of it.
MCStake31 == 1 :> 3 @@ 3 :> 1

\* The faulty proposer claims no polka.
MCClaims == {NoRound}

\* No handler reads the evidence collector.
WithoutCollector == <<eng, timer, committed, msgs>>
=============================================================================
