-------------------------- MODULE DeveloperRewards --------------------------
(***************************************************************************)
(* The developer-rewards program                                           *)
(* (programs/developer-rewards/src/processor.rs): registration of a        *)
(* program's revenue config, its recipient and splits, the credit of fees  *)
(* against the per-epoch cap, and the claim.  Every call is a step: one    *)
(* that returns an error changes nothing but the result.                   *)
(***************************************************************************)
EXTENDS Saturating, Sequences

CONSTANTS Programs, Developers,
          UpgradeAuthority,     \* UpgradeAuthority[p], in its programdata account
          FeeAmounts, ComputeUnits,
          MinComputeUnits, CooldownSlots, MaxShareBps, TotalBps,
          BaseSize, SplitSize,  \* bytes of a config, and of each split in it
          PdaSize,              \* bytes the config account is created with
          SplitChoices,         \* share lists a caller may ask for
          SlotsPerEpoch, FeePool, MaxSlot

ASSUME DevRewardsAssumption ==
  /\ MinComputeUnits \in Nat /\ CooldownSlots \in Nat /\ FeePool \in Nat
  /\ MaxShareBps \in Nat /\ TotalBps \in Nat /\ MaxShareBps < TotalBps
  /\ BaseSize \in Nat \ {0} /\ SplitSize \in Nat \ {0} /\ PdaSize \in Nat
  /\ SlotsPerEpoch \in Nat \ {0} /\ U64Max \in Nat /\ MaxSlot \in Nat
  /\ FeeAmounts \subseteq 0..U64Max /\ ComputeUnits \subseteq Nat
  /\ UpgradeAuthority \in [Programs -> Developers]
  /\ SplitChoices \subseteq Seq([recipient : Developers, share : Nat])

VARIABLES revenue,     \* revenue[p]: ProgramRevenueConfig and the size of its account
          tracker,     \* EpochFeeTracker
          pool, paid,  \* lamports in the fee pool, and paid to each key
          slot,
          result       \* of the last call

devRewardsVars == <<revenue, tracker, pool, paid, slot, result>>

Epoch == slot \div SlotsPerEpoch

NoRevenue == [version |-> 0, recipient |-> "none", authority |-> "none", splits |-> <<>>,
              total |-> 0, epochFees |-> 0, lastEpoch |-> 0, eligible |-> 0,
              unclaimed |-> 0, size |-> PdaSize]

Registered(p) == revenue[p].version = 1

\* borsh::to_vec(&config).len().
SizeWith(n) == BaseSize + n * SplitSize

\* process_add_revenue_split's validation of the list.
ShareSum(splits) ==
  LET sum[i \in 0..Len(splits)] == IF i = 0 THEN 0 ELSE sum[i - 1] + splits[i].share
  IN sum[Len(splits)]

ValidSplits(splits) ==
  /\ Len(splits) <= 10
  /\ \A i \in 1..Len(splits) : splits[i].share > 0
  /\ \A i, j \in 1..Len(splits) : i # j => splits[i].recipient # splits[j].recipient
  /\ ShareSum(splits) = TotalBps

\* serialize_config: a config with n splits fits the account, which then has
\* exactly the size of what was written.
Fits(p, n) == SizeWith(n) <= revenue[p].size

DevRewardsInit ==
  /\ revenue = [p \in Programs |-> NoRevenue]
  /\ tracker = [epoch |-> 0, total |-> 0]
  /\ pool = FeePool
  /\ paid = [k \in Developers |-> 0]
  /\ slot = 0
  /\ result = "none"

\* The config process_register writes.
NewConfig(who, recipient) ==
  [version |-> 1, recipient |-> recipient, authority |-> who, splits |-> <<>>,
   total |-> 0, epochFees |-> 0, lastEpoch |-> 0,
   eligible |-> SatAdd(slot, CooldownSlots), unclaimed |-> 0, size |-> SizeWith(0)]

Register(p, who, recipient) ==
  LET ok == ~Registered(p) /\ UpgradeAuthority[p] = who /\ Fits(p, 0)
  IN /\ result' = IF ok THEN "ok" ELSE "error"
     /\ revenue' = IF ok THEN [revenue EXCEPT ![p] = NewConfig(who, recipient)] ELSE revenue
     /\ UNCHANGED <<tracker, pool, paid, slot>>

UpdateRecipient(p, who, recipient) ==
  LET ok == /\ Registered(p) /\ revenue[p].authority = who
            /\ Fits(p, Len(revenue[p].splits))
  IN /\ result' = IF ok THEN "ok" ELSE "error"
     /\ revenue' = IF ok THEN [revenue EXCEPT ![p].recipient = recipient] ELSE revenue
     /\ UNCHANGED <<tracker, pool, paid, slot>>

\* What AddRevenueSplit requires of a list, of its caller, and of the account.
SplitAsked(p, who, splits) ==
  ValidSplits(splits) /\ Registered(p) /\ revenue[p].authority = who

AddRevenueSplit(p, who, splits) ==
  LET ok == SplitAsked(p, who, splits) /\ Fits(p, Len(splits))
  IN /\ result' = IF ok THEN "ok" ELSE "error"
     /\ revenue' = IF ok
                  THEN [revenue EXCEPT ![p].splits = splits, ![p].size = SizeWith(Len(splits))]
                  ELSE revenue
     /\ UNCHANGED <<tracker, pool, paid, slot>>

\* ClaimDeveloperFees; the recipient account is the one the caller passes.
Claim(p, recipient) ==
  LET n == revenue[p].unclaimed
      ok == Registered(p) /\ n > 0 /\ Fits(p, Len(revenue[p].splits)) /\ pool >= n
  IN /\ result' = IF ok THEN "ok" ELSE "error"
     /\ revenue' = IF ok THEN [revenue EXCEPT ![p].unclaimed = 0] ELSE revenue
     /\ pool' = IF ok THEN pool - n ELSE pool
     /\ paid' = IF ok THEN [paid EXCEPT ![recipient] = @ + n] ELSE paid
     /\ UNCHANGED <<tracker, slot>>

\* Mutant: a cap that is the epoch's total itself.
MaxAllowedLoose(total) == total

\* The most a program may have earned in an epoch that has paid total so far.
MaxAllowed(total) == (total * MaxShareBps) \div TotalBps

\* CreditDeveloperFees: epoch roll-over of both records, then the cap.
Credit(p, amount, cu) ==
  LET earned == IF revenue[p].lastEpoch # Epoch THEN 0 ELSE revenue[p].epochFees
      total == IF tracker.epoch # Epoch THEN 0 ELSE tracker.total
      program == SatAdd(earned, amount)
      all == SatAdd(total, amount)
      ok == /\ cu >= MinComputeUnits /\ Registered(p) /\ slot >= revenue[p].eligible
            /\ program <= MaxAllowed(all) /\ Fits(p, Len(revenue[p].splits))
  IN /\ result' = IF ok THEN "ok" ELSE "error"
     /\ revenue' = IF ok
          THEN [revenue EXCEPT ![p].epochFees = program, ![p].lastEpoch = Epoch,
                              ![p].total = SatAdd(@, amount),
                              ![p].unclaimed = SatAdd(@, amount)]
          ELSE revenue
     /\ tracker' = IF ok THEN [epoch |-> Epoch, total |-> all] ELSE tracker
     /\ UNCHANGED <<pool, paid, slot>>

NextSlot ==
  /\ slot < MaxSlot /\ slot' = slot + 1
  /\ UNCHANGED <<revenue, tracker, pool, paid, result>>

DevRewardsNext ==
  \/ \E p \in Programs, who, recipient \in Developers : Register(p, who, recipient)
  \/ \E p \in Programs, who, recipient \in Developers : UpdateRecipient(p, who, recipient)
  \/ \E p \in Programs, who \in Developers, splits \in SplitChoices : AddRevenueSplit(p, who, splits)
  \/ \E p \in Programs, recipient \in Developers : Claim(p, recipient)
  \/ \E p \in Programs, amount \in FeeAmounts, cu \in ComputeUnits : Credit(p, amount, cu)
  \/ NextSlot

DevRewardsSpec == DevRewardsInit /\ [][DevRewardsNext]_devRewardsVars

-----------------------------------------------------------------------------
ConfigType ==
  [version : {0, 1}, recipient : Developers \cup {"none"}, authority : Developers \cup {"none"},
   splits : SplitChoices \cup {<<>>}, total : 0..U64Max, epochFees : 0..U64Max,
   lastEpoch : Nat, eligible : 0..U64Max, unclaimed : 0..U64Max, size : Nat]

\* The shape of the accounts: the fee counters of a program and of the epoch
\* fit a u64 although credits add to them without a limit (saturating_add).
DevRewardsTypeOK ==
  /\ revenue \in [Programs -> ConfigType]
  /\ tracker \in [epoch : Nat, total : 0..U64Max]
  /\ pool \in Nat /\ paid \in [Developers -> Nat] /\ slot \in Nat
  /\ result \in {"none", "ok", "error"}

\* No program is ever credited and nothing is ever paid: the first credit of an
\* epoch is all of that epoch's fees, so it is above the cap of process_credit,
\* and without a first credit there is no later one.
NothingEverCredited ==
  /\ \A p \in Programs : revenue[p].unclaimed = 0 /\ revenue[p].total = 0
  /\ tracker.total = 0 /\ pool = FeePool
  /\ \A k \in Developers : paid[k] = 0

\* No list of recipients is ever stored: the registration cuts the account down to
\* a config without splits, and from then on serialize_config refuses a longer one
\* (instruction.rs: "Set up multi-recipient revenue splits for a program").
NoSplitIsStored == \A p \in Programs : revenue[p].splits = <<>>
=============================================================================
