--------------------------- MODULE MCBftDelivery ---------------------------
(***************************************************************************)
(* Instances of BftDelivery for TLC.                                       *)
(***************************************************************************)
EXTENDS BftDelivery, TLC

\* Three validators, total stake 4, quorum 3: node 1 with either other node.
MCStake211 == 1 :> 2 @@ 2 :> 1 @@ 3 :> 1
=============================================================================
