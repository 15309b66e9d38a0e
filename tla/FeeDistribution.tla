-------------------------- MODULE FeeDistribution --------------------------
(***************************************************************************)
(* What happens to collected transaction fees when a bank is frozen: the   *)
(* epoch-dependent four-way split of runtime/src/bank/fee_distribution.rs  *)
(* and trv1_constants.rs, the deposit to the leader that may fail, and the *)
(* burning of the rest, with the bank's capitalization as the counterpart. *)
(*                                                                         *)
(* Lamports are counted by holder: the account of the current leader, the  *)
(* incinerator, and all other accounts together.                           *)
(***************************************************************************)
EXTENDS Saturating

CONSTANTS TransitionEpochs, \* FEE_TRANSITION_EPOCHS; scaled down for TLC
          RentMinimum,      \* rent-exempt minimum of an account without data
          Supply,           \* all lamports at genesis
          TxFees,           \* fees a transaction may pay
          Amounts,          \* lamports sent to the incinerator at once
          MaxEpoch          \* bound on the epochs explored

ASSUME FeeAssumption ==
  /\ TransitionEpochs \in Nat \ {0} /\ RentMinimum \in Nat
  /\ Supply \in Nat /\ U64Max \in Nat /\ Supply <= U64Max
  /\ TxFees \subseteq [transaction : Nat \ {0}, priority : Nat]
  /\ Amounts \subseteq Nat /\ MaxEpoch \in Nat

VARIABLES others,         \* lamports of all accounts but the two below
          leader,         \* lamports of the account of the bank's leader
          leaderIsSystem, \* that account is owned by the system program
          incinerator,    \* lamports of the incinerator account
          capitalization, \* Bank::capitalization
          fees,           \* Bank::collector_fee_details
          epoch, frozen

feeSplitVars == <<others, leader, leaderIsSystem, incinerator, capitalization, fees,
          epoch, frozen>>

NoFees == [transaction |-> 0, priority |-> 0]
TotalFee(f) == SatAdd(f.transaction, f.priority)

\* fee_distribution_for_epoch: shares as numerators over Whole.
Whole == 100 * TransitionEpochs

Progress(e) == IF e > TransitionEpochs THEN TransitionEpochs ELSE e
Weight(launch, mature, e) ==
  launch * TransitionEpochs + Progress(e) * (mature - launch)

BurnWeight(e) == Weight(10, 25, e)
ValidatorWeight(e) == Weight(0, 25, e)
TreasuryWeight(e) == Weight(45, 25, e)
DevWeight(e) == Weight(45, 25, e)

\* (total as f64 * pct) as u64.  The product is rounded down; where it is a
\* whole number the floating-point product may fall just short of it.
Portions(total, weight) ==
  LET floor == (total * weight) \div Whole
  IN {floor} \cup
     {q \in {floor - 1} : q >= 0 /\ (total * weight) % Whole = 0}

\* calculate_reward_and_burn_fee_details: what is left by rounding is burned.
Splits(f, e) ==
  IF f.transaction = 0
  THEN {[deposit |-> 0, burn |-> 0, treasury |-> 0, dev |-> 0]}
  ELSE {[deposit |-> d,
         burn |-> SatAdd(b, SatSub(TotalFee(f), b + d + t + v)),
         treasury |-> t, dev |-> v] :
          b \in Portions(TotalFee(f), BurnWeight(e)),
          d \in Portions(TotalFee(f), ValidatorWeight(e)),
          t \in Portions(TotalFee(f), TreasuryWeight(e)),
          v \in Portions(TotalFee(f), DevWeight(e))}

\* deposit_fees: owner, overflow, and no rent-paying account after a credit.
DepositAllowed(amount) ==
  /\ leaderIsSystem
  /\ leader + amount <= U64Max
  /\ leader + amount = 0 \/ leader + amount >= RentMinimum

\* Mutant: a bug that drops an undeliverable deposit without burning it.
BurnedDepositForgets(amount) == 0

\* deposit_or_burn_fee: the amount that could not be delivered.
BurnedDeposit(amount) ==
  IF amount = 0 \/ DepositAllowed(amount) THEN 0 ELSE amount

\* distribute_transaction_fee_details: treasury and developer shares have no
\* destination yet and are burned.
TotalBurn(split) ==
  SatAdd(SatAdd(BurnedDeposit(split.deposit), split.burn),
         SatAdd(split.treasury, split.dev))

FeeSplitInit ==
  /\ leader \in 0..Supply /\ others = Supply - leader
  /\ leaderIsSystem \in BOOLEAN
  /\ incinerator = 0 /\ capitalization = Supply
  /\ fees = NoFees /\ epoch = 0 /\ frozen = FALSE

\* A transaction is processed: its payer's fee leaves the accounts and waits
\* in collector_fee_details.
CollectFee(f) ==
  /\ ~frozen
  /\ fees' = [transaction |-> SatAdd(fees.transaction, f.transaction),
              priority |-> SatAdd(fees.priority, f.priority)]
  /\ \/ /\ others >= f.transaction + f.priority
        /\ others' = others - (f.transaction + f.priority)
        /\ UNCHANGED leader
     \/ /\ leaderIsSystem /\ leader >= f.transaction + f.priority
        /\ leader' = leader - (f.transaction + f.priority)
        /\ leader' = 0 \/ leader' >= RentMinimum \/ leader < RentMinimum
        /\ UNCHANGED others
  /\ UNCHANGED <<leaderIsSystem, incinerator, capitalization, epoch, frozen>>

\* A transaction moves lamports to the incinerator.
SendToIncinerator(v) ==
  /\ ~frozen /\ others >= v
  /\ others' = others - v /\ incinerator' = incinerator + v
  /\ UNCHANGED <<leader, leaderIsSystem, capitalization, fees, epoch, frozen>>

\* Bank::freeze: distribute the fees, then run_incinerator.
Freeze ==
  /\ ~frozen /\ frozen' = TRUE
  /\ \E split \in Splits(fees, epoch) :
       LET burned == IF TotalFee(fees) = 0 THEN 0 ELSE TotalBurn(split)
           paid == IF TotalFee(fees) = 0 \/ ~DepositAllowed(split.deposit)
                   THEN 0 ELSE split.deposit
       IN /\ leader' = leader + paid
          /\ capitalization' = capitalization - burned - incinerator
  /\ incinerator' = 0
  /\ UNCHANGED <<others, leaderIsSystem, fees, epoch>>

\* Bank::new_from_parent: the parent is frozen, the child starts with no fees
\* and may have another leader, and may lie in a later epoch.
FeesFromParent(balance, isSystem, e) ==
  /\ frozen /\ e >= epoch
  /\ balance <= others + leader
  /\ leader' = balance /\ others' = others + leader - balance
  /\ leaderIsSystem' = isSystem
  /\ fees' = NoFees /\ epoch' = e /\ frozen' = FALSE
  /\ UNCHANGED <<incinerator, capitalization>>

FeeSplitNext ==
  \/ \E f \in TxFees : CollectFee(f)
  \/ \E v \in Amounts : SendToIncinerator(v)
  \/ Freeze
  \/ \E balance \in 0..Supply, isSystem \in BOOLEAN, e \in 0..MaxEpoch :
       FeesFromParent(balance, isSystem, e)

FeeSplitSpec == FeeSplitInit /\ [][FeeSplitNext]_feeSplitVars

-----------------------------------------------------------------------------
\* Balances and capitalization are never negative: no fee exceeds what its payer
\* holds, and no burn exceeds the capitalization.
FeeSplitTypeOK ==
  /\ others \in Nat /\ leader \in Nat /\ incinerator \in Nat
  /\ capitalization \in Nat /\ epoch \in Nat
  /\ leaderIsSystem \in BOOLEAN /\ frozen \in BOOLEAN
  /\ fees \in [transaction : Nat, priority : Nat]

\* Fees a bank has collected and not yet distributed.
Pending == IF frozen THEN 0 ELSE fees.transaction + fees.priority

\* Capitalization is exactly the lamports in accounts plus the fees in flight:
\* rounding, refused deposits and undeliverable shares neither create nor
\* lose a lamport (distribute_transaction_fee_details).
CapitalizationIsExact ==
  others + leader + incinerator + Pending = capitalization

\* Freezing pays the leader nothing in epoch 0 and never more than a quarter
\* of the collected fees, and burns the rest (trv1_constants.rs).
LeaderShareBounded ==
  [][frozen' /\ ~frozen =>
       LET paid == leader' - leader
           total == fees.transaction + fees.priority
       IN /\ paid >= 0 /\ 4 * paid <= total
          /\ epoch = 0 => paid = 0
          /\ capitalization' = capitalization - (total - paid) - incinerator]_feeSplitVars
=============================================================================
