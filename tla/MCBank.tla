------------------------------- MODULE MCBank -------------------------------
(***************************************************************************)
(* Instances of what TRv1 adds to a bank: slashing, the base fee, and the  *)
(* split of the fees.  The three share no state, so a behaviour of a bank  *)
(* is an interleaving of one of each, and it is enough to explore them one *)
(* at a time: part says which one moves, the others stay as they started.  *)
(***************************************************************************)
EXTENDS Slashing, FeeMarket, FeeDistribution

VARIABLE part

Init ==
  /\ part \in {"slashing", "base fee", "fee split"}
  /\ SlashingInit /\ FeeMarketInit /\ FeeSplitInit
  /\ part # "fee split" => leader = 0 /\ leaderIsSystem

SlashingStep ==
  part = "slashing" /\ SlashingNext /\ UNCHANGED <<part, feeMarketVars, feeSplitVars>>
BaseFeeStep ==
  part = "base fee" /\ FeeMarketNext /\ UNCHANGED <<part, slashingVars, feeSplitVars>>
FeeSplitStep ==
  part = "fee split" /\ FeeSplitNext /\ UNCHANGED <<part, slashingVars, feeMarketVars>>

Next == SlashingStep \/ BaseFeeStep \/ FeeSplitStep

Spec == Init /\ [][Next]_<<part, slashingVars, feeMarketVars, feeSplitVars>>

\* The types of the three parts and the limits of the base fee.
BankTypeOK == SlashingTypeOK /\ FeeMarketTypeOK /\ FeeInRange /\ FeeSplitTypeOK

-----------------------------------------------------------------------------
\* Two equal stakes, so that the tie is broken by key, and one larger.
MCStake == [v \in Validators |-> IF v = 2 THEN 5 ELSE 3]

\* Either everybody's vote lands, or everybody's but the first validator's.
MCVoteSets == {Validators, Validators \ {1}}

\* One signature's fee with and without a priority fee, and a large one.
MCTxFees == {[transaction |-> 1, priority |-> 0],
             [transaction |-> 2, priority |-> 6],
             [transaction |-> 5, priority |-> 15]}
=============================================================================
