----------------------------- MODULE MCPrograms -----------------------------
(***************************************************************************)
(* Instances of the four on-chain programs.  No account belongs to two of  *)
(* them, so it is enough to explore them one at a time: part says which    *)
(* one receives instructions, the others stay as they started.             *)
(***************************************************************************)
EXTENDS PassiveStake, Treasury, DeveloperRewards, Governance, TLC

VARIABLE part

Init ==
  /\ part \in {"passive stake", "treasury", "developer rewards", "governance"}
  /\ PassiveInit /\ TreasuryInit /\ DevRewardsInit /\ GovInit

PassiveStep ==
  /\ part = "passive stake" /\ PassiveNext
  /\ UNCHANGED <<part, treasuryVars, devRewardsVars, govVars>>
TreasuryStep ==
  /\ part = "treasury" /\ TreasuryNext
  /\ UNCHANGED <<part, passiveVars, devRewardsVars, govVars>>
DevRewardsStep ==
  /\ part = "developer rewards" /\ DevRewardsNext
  /\ UNCHANGED <<part, passiveVars, treasuryVars, govVars>>
GovStep ==
  /\ part = "governance" /\ GovNext
  /\ UNCHANGED <<part, passiveVars, treasuryVars, devRewardsVars>>

Next == PassiveStep \/ TreasuryStep \/ DevRewardsStep \/ GovStep

Spec == Init /\ [][Next]_<<part, passiveVars, treasuryVars, devRewardsVars, govVars>>

\* The types of the programs' accounts.
ProgramsTypeOK == PassiveTypeOK /\ DevRewardsTypeOK /\ GovTypeOK

-----------------------------------------------------------------------------
(* Passive stake: a system wallet that pays rent and a wallet owned by the *)
(* program, which alone can fund a position.                               *)
MCTiers == {"none", "timed", "permanent"}
MCLockDays == [t \in MCTiers |-> IF t = "timed" THEN 2 ELSE 0]
MCRewardBps == [t \in MCTiers |-> IF t = "permanent" THEN 2 ELSE 1]
MCPenaltyBps == [t \in MCTiers \ {"permanent"} |-> IF t = "timed" THEN 1 ELSE 0]
MCWalletOwner == [w \in Wallets |-> IF w = "vault" THEN PassiveProgram ELSE SystemProgram]

(* Developer rewards: a valid list of shares, one with a repeated          *)
(* recipient, and one that does not add up.                                *)
MCUpgradeAuthority == [p \in Programs |-> IF p = "p1" THEN "alice" ELSE "bob"]
MCSplitChoices ==
  {<<[recipient |-> "alice", share |-> 4], [recipient |-> "bob", share |-> 6]>>,
   <<[recipient |-> "bob", share |-> 5], [recipient |-> "bob", share |-> 5]>>,
   <<[recipient |-> "alice", share |-> 9]>>}

(* Governance: a stake that decides alone, one that rounds down to 1, and  *)
(* one without power.                                                      *)
CONSTANTS p1, p2, r1, r2
Symmetry == Permutations({p1, p2}) \cup Permutations({r1, r2})

MCAmount == [s \in Stakes |-> IF s = "big" THEN 2 ELSE 3]
MCWeight == [s \in Stakes |-> CASE s = "big" -> 15 [] s = "small" -> 5 [] OTHER -> 0]

Setting(pass, veto, timelock) ==
  [threshold |-> 1, period |-> 1, quorum |-> 6, pass |-> pass, veto |-> veto,
   timelock |-> timelock, emergency |-> "multisig"]

MCSettings == {Setting(5, 4, 1), Setting(0, 4, 1)}

-----------------------------------------------------------------------------
(* The property of governance that sums over the stakes of the instance.   *)

Eligible == MapThenSumSet(Power, {s \in Stakes : HasPower(s)})

\* Does not hold.  state.rs says of Passed: "Voting ended and the proposal met
\* quorum + pass threshold", and of quorum_bps: "Minimum participation (basis
\* points of total eligible voting power)."
QuorumIsMet ==
  [][\A p \in Proposals :
       proposals[p].status = "Active" /\ proposals'[p].status = "Timelocked"
         => Share(Total(proposals[p]), Eligible) >= config.settings.quorum]_govVars
=============================================================================
