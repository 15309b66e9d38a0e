----------------------------- MODULE BankProofs -----------------------------
(***************************************************************************)
(* What TRv1 adds to a bank, for every configuration: the base fee, the    *)
(* jailing and the choice of validators, and the split of the fees.        *)
(***************************************************************************)
EXTENDS FeeDistribution, FeeMarket, Slashing, CommonProofs

\* How a leaf is tried: Zenon for a second, which is cheap, then the SMT solver
\* and Zenon in turn, and the SMT solver once more with more time.
USE ZenonT(1), SMT, Zenon, Z3T(20)

-----------------------------------------------------------------------------
(***************************************************************************)
(* The four-way split conserves lamports for every length of the           *)
(* transition, every fee and every rent minimum.                           *)
(***************************************************************************)

\* The four weights are natural numbers and add up to the whole.
LEMMA WeightsAddUp ==
  ASSUME NEW e \in Nat
  PROVE  /\ BurnWeight(e) \in Nat /\ ValidatorWeight(e) \in Nat
         /\ TreasuryWeight(e) \in Nat /\ DevWeight(e) \in Nat
         /\ Whole \in Nat \ {0}
         /\ BurnWeight(e) + ValidatorWeight(e) + TreasuryWeight(e) + DevWeight(e)
              = Whole
         /\ 4 * ValidatorWeight(e) <= Whole
         /\ e = 0 => ValidatorWeight(e) = 0
<1> DEFINE p == Progress(e)
<1>1. p \in Nat /\ p <= TransitionEpochs /\ (e = 0 => p = 0)
  BY SMT, FeeAssumption DEF Progress
<1> HIDE DEF p
<1>2. /\ BurnWeight(e) = 10 * TransitionEpochs + p * 15
      /\ ValidatorWeight(e) = 0 * TransitionEpochs + p * 25
      /\ TreasuryWeight(e) = 45 * TransitionEpochs + p * (0 - 20)
      /\ DevWeight(e) = 45 * TransitionEpochs + p * (0 - 20)
  BY SMT, <1>1, FeeAssumption
     DEF BurnWeight, ValidatorWeight, TreasuryWeight, DevWeight, Weight, p
<1> QED BY <1>1, <1>2, FeeAssumption DEF Whole

\* A rounded portion never exceeds the exact one.
LEMMA PortionBound ==
  ASSUME NEW total \in Nat, NEW w \in Nat, NEW q \in Portions(total, w),
         Whole \in Nat \ {0}
  PROVE  q \in Nat /\ Whole * q <= total * w
<1> DEFINE a == total * w
           floor == a \div Whole
<1>1. a \in Nat
  BY SMT
<1>2. floor \in Nat /\ Whole * floor <= a
  BY SMT, <1>1
<1>3. q = floor \/ (q = floor - 1 /\ q >= 0)
  BY DEF Portions
<1>4. q \in Nat /\ q <= floor
  BY SMT, <1>2, <1>3
<1> HIDE DEF floor
<1>5. Whole * q <= Whole * floor
  BY SMT, <1>2, <1>4
<1> HIDE DEF a
<1>6. Whole * q <= a
  BY SMT, <1>1, <1>2, <1>4, <1>5
<1> QED BY <1>4, <1>6 DEF a

\* The four portions together never exceed the fees.
LEMMA PortionsFit ==
  ASSUME NEW total \in Nat, NEW e \in Nat,
         NEW b \in Portions(total, BurnWeight(e)),
         NEW d \in Portions(total, ValidatorWeight(e)),
         NEW t \in Portions(total, TreasuryWeight(e)),
         NEW v \in Portions(total, DevWeight(e))
  PROVE  /\ b \in Nat /\ d \in Nat /\ t \in Nat /\ v \in Nat
         /\ b + d + t + v <= total
         /\ 4 * d <= total
         /\ e = 0 => d = 0
<1> DEFINE wb == BurnWeight(e)
           wd == ValidatorWeight(e)
           wt == TreasuryWeight(e)
           wv == DevWeight(e)
<1>1. /\ wb \in Nat /\ wd \in Nat /\ wt \in Nat /\ wv \in Nat /\ Whole \in Nat \ {0}
      /\ wb + wd + wt + wv = Whole /\ 4 * wd <= Whole /\ (e = 0 => wd = 0)
  BY WeightsAddUp
<1>2. b \in Nat /\ Whole * b <= total * wb
  BY <1>1, PortionBound
<1>3. d \in Nat /\ Whole * d <= total * wd
  BY <1>1, PortionBound
<1>4. t \in Nat /\ Whole * t <= total * wt
  BY <1>1, PortionBound
<1>5. v \in Nat /\ Whole * v <= total * wv
  BY <1>1, PortionBound
<1> HIDE DEF wb, wd, wt, wv
<1>6. total * wb + total * wd + total * wt + total * wv = total * Whole
  <2>1. total * (wb + wd + wt + wv) = total * Whole
    BY <1>1
  <2>2. total * (wb + wd + wt + wv)
          = total * wb + total * wd + total * wt + total * wv
    BY SMT, <1>1
  <2> QED BY <2>1, <2>2
<1>7. Whole * (b + d + t + v) <= Whole * total
  <2>1. Whole * (b + d + t + v) = Whole * b + Whole * d + Whole * t + Whole * v
    BY SMT, <1>1, <1>2, <1>3, <1>4, <1>5
  <2> QED BY <2>1, <1>1, <1>2, <1>3, <1>4, <1>5, <1>6
<1>8. b + d + t + v <= total
  BY SMT, <1>1, <1>2, <1>3, <1>4, <1>5, <1>7
<1>9. 4 * d <= total
  <2>1. total * (4 * wd) <= total * Whole
    BY SMT, <1>1
  <2>2. Whole * (4 * d) <= Whole * total
    BY SMT, <2>1, <1>1, <1>3
  <2> QED BY <2>2, <1>1, <1>3
<1>10. e = 0 => d = 0
  <2> SUFFICES ASSUME e = 0 PROVE d = 0
    OBVIOUS
  <2>1. Whole * d <= 0
    BY SMT, <1>1, <1>3
  <2> QED BY <2>1, <1>1, <1>3
<1> QED BY <1>2, <1>3, <1>4, <1>5, <1>8, <1>9, <1>10

-----------------------------------------------------------------------------
\* What a split hands out adds up to the fees exactly.
LEMMA SplitConserves ==
  ASSUME NEW f \in [transaction : Nat, priority : Nat], NEW e \in Nat,
         f.transaction + f.priority <= U64Max,
         f.transaction = 0 => f.priority = 0,
         NEW s \in Splits(f, e)
  PROVE  /\ s.deposit \in Nat /\ s.burn \in Nat /\ s.treasury \in Nat /\ s.dev \in Nat
         /\ s.deposit + s.burn + s.treasury + s.dev = f.transaction + f.priority
         /\ 4 * s.deposit <= f.transaction + f.priority
         /\ e = 0 => s.deposit = 0
<1> DEFINE total == f.transaction + f.priority
<1>1. /\ f.transaction \in Nat /\ f.priority \in Nat /\ total \in Nat
      /\ TotalFee(f) = total
  BY SMT, FeeAssumption DEF TotalFee, SatAdd
<1>2. CASE f.transaction = 0
  BY SMT, <1>1, <1>2 DEF Splits
<1>3. CASE f.transaction # 0
  <2>1. PICK b \in Portions(total, BurnWeight(e)),
             d \in Portions(total, ValidatorWeight(e)),
             t \in Portions(total, TreasuryWeight(e)),
             v \in Portions(total, DevWeight(e)) :
          s = [deposit |-> d, burn |-> SatAdd(b, SatSub(total, b + d + t + v)),
               treasury |-> t, dev |-> v]
    BY SMT, <1>1, <1>3 DEF Splits
  <2>2. /\ b \in Nat /\ d \in Nat /\ t \in Nat /\ v \in Nat
        /\ b + d + t + v <= total /\ 4 * d <= total /\ (e = 0 => d = 0)
    BY SMT, <1>1, PortionsFit
  <2>3. SatAdd(b, SatSub(total, b + d + t + v)) = total - (d + t + v)
    BY SMT, <1>1, <2>2, FeeAssumption DEF SatAdd, SatSub
  <2> QED BY <1>1, <2>1, <2>2, <2>3
<1> QED BY <1>2, <1>3

\* The inductive invariant: nothing is minted, and there is no priority fee
\* without a transaction fee.
FeeSplitInv ==
  /\ FeeSplitTypeOK /\ CapitalizationIsExact
  /\ capitalization <= Supply
  /\ fees.transaction = 0 => fees.priority = 0

\* Pending fees never exceed the supply, so their sum does not saturate.
LEMMA PendingFits ==
  ASSUME FeeSplitInv, ~frozen
  PROVE  /\ fees.transaction \in Nat /\ fees.priority \in Nat
         /\ fees.transaction + fees.priority <= U64Max
         /\ others + leader + incinerator + (fees.transaction + fees.priority)
              = capitalization
         /\ others \in Nat /\ leader \in Nat /\ incinerator \in Nat
         /\ capitalization \in Nat /\ capitalization <= U64Max
  BY SMT, FeeAssumption DEF FeeSplitInv, FeeSplitTypeOK, CapitalizationIsExact, Pending

\* The genesis bank holds the whole supply.
LEMMA SplitInit == FeeSplitInit => FeeSplitInv
<1> SUFFICES ASSUME FeeSplitInit PROVE FeeSplitInv
  OBVIOUS
<1>1. /\ leader \in Nat /\ others \in Nat /\ others + leader = Supply
      /\ capitalization = Supply /\ Supply \in Nat
  BY SMT, FeeAssumption DEF FeeSplitInit
<1>2. fees.transaction = 0 /\ fees.priority = 0
      /\ fees \in [transaction : Nat, priority : Nat]
  BY DEF FeeSplitInit, NoFees
<1>3. FeeSplitTypeOK
  BY <1>1, <1>2 DEF FeeSplitInit, FeeSplitTypeOK
<1>4. CapitalizationIsExact
  BY <1>1, <1>2 DEF FeeSplitInit, CapitalizationIsExact, Pending
<1> QED BY <1>1, <1>2, <1>3, <1>4 DEF FeeSplitInv

\* What Freeze does to the balances.
LEMMA FreezeEffect ==
  ASSUME FeeSplitInv, Freeze
  PROVE  \E paid \in Nat :
           LET total == fees.transaction + fees.priority
           IN /\ leader' = leader + paid /\ 4 * paid <= total
              /\ epoch = 0 => paid = 0
              /\ capitalization' = capitalization - (total - paid) - incinerator
<1> DEFINE total == fees.transaction + fees.priority
<1>1. /\ fees.transaction \in Nat /\ fees.priority \in Nat /\ total <= U64Max
      /\ others + leader + incinerator + total = capitalization
      /\ others \in Nat /\ leader \in Nat /\ incinerator \in Nat
      /\ capitalization \in Nat /\ capitalization <= U64Max
  BY PendingFits DEF Freeze
<1>2. fees \in [transaction : Nat, priority : Nat] /\ epoch \in Nat
      /\ (fees.transaction = 0 => fees.priority = 0)
  BY DEF FeeSplitInv, FeeSplitTypeOK
<1>3. TotalFee(fees) = total
  BY SMT, <1>1, FeeAssumption DEF TotalFee, SatAdd
<1>4. PICK s \in Splits(fees, epoch) :
        LET burned == IF total = 0 THEN 0 ELSE TotalBurn(s)
            paid == IF total = 0 \/ ~DepositAllowed(s.deposit) THEN 0 ELSE s.deposit
        IN /\ leader' = leader + paid
           /\ capitalization' = capitalization - burned - incinerator
  BY <1>3 DEF Freeze
<1>5. /\ s.deposit \in Nat /\ s.burn \in Nat /\ s.treasury \in Nat /\ s.dev \in Nat
      /\ s.deposit + s.burn + s.treasury + s.dev = total
      /\ 4 * s.deposit <= total /\ (epoch = 0 => s.deposit = 0)
  BY <1>1, <1>2, SplitConserves
<1>6. total \in Nat
  BY SMT, <1>1
<1>7. CASE total = 0
  <2>1. leader' = leader + 0 /\ capitalization' = capitalization - 0 - incinerator
    BY <1>4, <1>7
  <2> WITNESS 0 \in Nat
  <2> QED BY <1>1, <1>7, <2>1
<1>8. CASE total # 0 /\ DepositAllowed(s.deposit)
  <2>1. TotalBurn(s) = total - s.deposit
    BY SMT, <1>1, <1>5, <1>8, FeeAssumption DEF TotalBurn, BurnedDeposit, SatAdd
  <2>2. leader' = leader + s.deposit
        /\ capitalization' = capitalization - (total - s.deposit) - incinerator
    BY <1>4, <1>8, <2>1
  <2>3. s.deposit \in Nat
    BY <1>5
  <2> QED BY <1>5, <2>2, <2>3
<1>9. CASE total # 0 /\ ~DepositAllowed(s.deposit)
  <2>1. TotalBurn(s) = total
    BY SMT, <1>1, <1>5, <1>9, FeeAssumption DEF TotalBurn, BurnedDeposit, SatAdd
  <2>2. leader' = leader + 0
        /\ capitalization' = capitalization - total - incinerator
    BY <1>4, <1>9, <2>1
  <2> WITNESS 0 \in Nat
  <2> QED BY <1>1, <1>6, <2>2
<1> QED BY <1>7, <1>8, <1>9

\* Every step keeps the inductive invariant.
LEMMA SplitStep == FeeSplitInv /\ [FeeSplitNext]_feeSplitVars => FeeSplitInv'
<1> SUFFICES ASSUME FeeSplitInv, [FeeSplitNext]_feeSplitVars PROVE FeeSplitInv'
  OBVIOUS
<1>1. CASE UNCHANGED feeSplitVars
  BY <1>1 DEF FeeSplitInv, FeeSplitTypeOK, CapitalizationIsExact, Pending, feeSplitVars
<1>2. ASSUME NEW f \in TxFees, CollectFee(f) PROVE FeeSplitInv'
  <2> DEFINE paid == f.transaction + f.priority
  <2>1. f.transaction \in Nat \ {0} /\ f.priority \in Nat
    BY FeeAssumption
  <2>2. /\ fees.transaction \in Nat /\ fees.priority \in Nat
        /\ others + leader + incinerator + (fees.transaction + fees.priority)
              = capitalization
        /\ others \in Nat /\ leader \in Nat /\ incinerator \in Nat
        /\ capitalization \in Nat /\ capitalization <= U64Max
    BY <1>2, PendingFits DEF CollectFee
  <2>3. /\ others' \in Nat /\ leader' \in Nat
        /\ others' + leader' = others + leader - paid
        /\ paid <= others + leader
    BY SMT, <1>2, <2>1, <2>2 DEF CollectFee
  <2>4. fees' = [transaction |-> fees.transaction + f.transaction,
                 priority |-> fees.priority + f.priority]
    <3>1. /\ SatAdd(fees.transaction, f.transaction) = fees.transaction + f.transaction
          /\ SatAdd(fees.priority, f.priority) = fees.priority + f.priority
      BY SMT, <2>1, <2>2, <2>3, FeeAssumption DEF SatAdd
    <3> QED BY <1>2, <3>1 DEF CollectFee
  <2>5. UNCHANGED <<leaderIsSystem, incinerator, capitalization, epoch, frozen>> /\ ~frozen
    BY <1>2 DEF CollectFee
  <2>6. /\ fees'.transaction = fees.transaction + f.transaction
        /\ fees'.priority = fees.priority + f.priority
        /\ fees' \in [transaction : Nat, priority : Nat]
    BY <2>1, <2>2, <2>4
  <2>7. FeeSplitTypeOK'
    BY <2>2, <2>3, <2>5, <2>6 DEF FeeSplitInv, FeeSplitTypeOK
  <2>8. CapitalizationIsExact'
    <3>1. Pending' = fees.transaction + f.transaction + (fees.priority + f.priority)
      BY <2>5, <2>6 DEF Pending
    <3> QED BY <3>1, <2>1, <2>2, <2>3, <2>5 DEF CapitalizationIsExact
  <2>9. fees'.transaction # 0
    BY SMT, <2>1, <2>2, <2>6
  <2> QED BY <2>5, <2>7, <2>8, <2>9 DEF FeeSplitInv
<1>3. ASSUME NEW v \in Amounts, SendToIncinerator(v) PROVE FeeSplitInv'
  <2>1. v \in Nat
    BY FeeAssumption
  <2> QED BY <1>3, <2>1 DEF SendToIncinerator, FeeSplitInv, FeeSplitTypeOK,
                            CapitalizationIsExact, Pending
<1>4. ASSUME Freeze PROVE FeeSplitInv'
  <2> DEFINE total == fees.transaction + fees.priority
  <2>1. PICK paid \in Nat :
          /\ leader' = leader + paid /\ 4 * paid <= total
          /\ capitalization' = capitalization - (total - paid) - incinerator
    BY <1>4, FreezeEffect
  <2>2. /\ others' = others /\ incinerator' = 0 /\ frozen' = TRUE /\ ~frozen
        /\ leaderIsSystem' = leaderIsSystem /\ fees' = fees /\ epoch' = epoch
    BY <1>4 DEF Freeze
  <2>3. /\ total \in Nat /\ others \in Nat /\ leader \in Nat /\ incinerator \in Nat
        /\ others + leader + incinerator + total = capitalization
        /\ capitalization \in Nat
    BY SMT, <2>2, PendingFits
  <2> HIDE DEF total
  <2>4. capitalization' = others + leader + paid /\ capitalization' \in Nat
        /\ capitalization' <= capitalization /\ leader' \in Nat
    BY SMT, <2>1, <2>3
  <2>5. capitalization' <= Supply
    BY <2>3, <2>4, FeeAssumption DEF FeeSplitInv
  <2> QED BY <2>1, <2>2, <2>3, <2>4, <2>5
          DEF FeeSplitInv, FeeSplitTypeOK, CapitalizationIsExact, Pending
<1>5. ASSUME NEW balance \in 0..Supply, NEW isSystem \in BOOLEAN,
             NEW e \in 0..MaxEpoch, FeesFromParent(balance, isSystem, e)
      PROVE  FeeSplitInv'
  <2>1. /\ others \in Nat /\ leader \in Nat /\ incinerator \in Nat
        /\ others + leader + incinerator = capitalization
        /\ balance \in Nat /\ balance <= others + leader /\ e \in Nat
    BY SMT, <1>5, FeeAssumption DEF FeesFromParent, FeeSplitInv, FeeSplitTypeOK,
                               CapitalizationIsExact, Pending
  <2>2. /\ fees'.transaction = 0 /\ fees'.priority = 0
        /\ fees' \in [transaction : Nat, priority : Nat]
    BY <1>5 DEF FeesFromParent, NoFees
  <2>3. FeeSplitTypeOK'
    <3>1. /\ leader' = balance /\ others' = others + leader - balance
          /\ incinerator' = incinerator /\ capitalization' = capitalization
          /\ epoch' = e /\ leaderIsSystem' = isSystem /\ frozen' = FALSE
      BY <1>5 DEF FeesFromParent
    <3>2. others' \in Nat /\ capitalization \in Nat
      BY SMT, <2>1, <3>1
    <3> QED BY <2>1, <2>2, <3>1, <3>2 DEF FeeSplitTypeOK
  <2>4. CapitalizationIsExact'
    <3>1. Pending' = 0
      BY SMT, <1>5, <2>2 DEF FeesFromParent, Pending
    <3>2. /\ leader' = balance /\ others' = others + leader - balance
          /\ incinerator' = incinerator /\ capitalization' = capitalization
      BY <1>5 DEF FeesFromParent
    <3>3. others' + leader' + incinerator' + 0 = capitalization'
      BY SMT, <2>1, <3>2
    <3> QED BY <3>1, <3>3 DEF CapitalizationIsExact
  <2> QED BY <1>5, <2>2, <2>3, <2>4 DEF FeesFromParent, FeeSplitInv
<1> QED BY <1>1, <1>2, <1>3, <1>4, <1>5 DEF FeeSplitNext

\* Capitalization is exactly the lamports in accounts and in flight, whatever
\* the fees, the epoch and the leader's account (fee_distribution.rs).
THEOREM FeesAreConserved == FeeSplitSpec => []CapitalizationIsExact
<1>1. FeeSplitInv => CapitalizationIsExact
  BY DEF FeeSplitInv
<1> QED BY <1>1, SplitInit, SplitStep, PTL DEF FeeSplitSpec

\* The leader gets at most a quarter of a block's fees, nothing at launch, and
\* the rest leaves the capitalization (trv1_constants.rs).
THEOREM LeaderShareIsBounded == FeeSplitSpec => LeaderShareBounded
<1> DEFINE Paid ==
      frozen' /\ ~frozen =>
        LET paid == leader' - leader
            total == fees.transaction + fees.priority
        IN /\ paid >= 0 /\ 4 * paid <= total
           /\ epoch = 0 => paid = 0
           /\ capitalization' = capitalization - (total - paid) - incinerator
<1>1. FeeSplitInv /\ [FeeSplitNext]_feeSplitVars => [Paid]_feeSplitVars
  <2> SUFFICES ASSUME FeeSplitInv, FeeSplitNext, frozen', ~frozen
               PROVE  Paid
    OBVIOUS
  <2>1. Freeze
    BY DEF FeeSplitNext, CollectFee, SendToIncinerator, FeesFromParent
  <2>2. PICK q \in Nat :
          LET total == fees.transaction + fees.priority
          IN /\ leader' = leader + q /\ 4 * q <= total
             /\ epoch = 0 => q = 0
             /\ capitalization' = capitalization - (total - q) - incinerator
    BY <2>1, FreezeEffect
  <2>3. leader' - leader = q
    BY SMT, <2>2 DEF FeeSplitInv, FeeSplitTypeOK
  <2> QED BY <2>2, <2>3
<1> QED BY <1>1, SplitInit, SplitStep, PTL DEF FeeSplitSpec, LeaderShareBounded

-----------------------------------------------------------------------------
(***************************************************************************)
(* The base fee stays within its bounds for every configuration, and moves *)
(* by at most 1/denominator per block for every configuration in which a   *)
(* block holds at most twice its target.                                   *)
(***************************************************************************)

\* A quotient by a positive number is a natural number, and what it is.
LEMMA DivFacts ==
  ASSUME NEW a \in Nat, NEW b \in Nat \ {0}
  PROVE  /\ a \div b \in Nat
         /\ b * (a \div b) <= a
         /\ a < b * (a \div b) + b
  BY SMT

\* An element of a sequence.
LEMMA SeqElement ==
  ASSUME NEW S, NEW s \in Seq(S), NEW i \in 1..Len(s)
  PROVE  s[i] \in S
  BY SMT

\* The linear part of the assumption on the configuration.
LEMMA Bounds ==
  /\ MinBaseFee \in Nat /\ MaxBaseFee \in Nat /\ U64Max \in Nat /\ MaxBlockCU \in Nat
  /\ MinBaseFee <= MaxBaseFee /\ MaxBaseFee <= U64Max /\ MaxBlockCU <= U64Max
  BY ConfigAssumption

\* calculate_next_base_fee always returns a fee within the bounds.
LEMMA NextBaseFeeInRange ==
  ASSUME NEW current \in Nat, NEW gas \in Nat
  PROVE  NextBaseFee(current, gas) \in MinBaseFee..MaxBaseFee
<1>1. TargetGas \in Nat
  BY SMT, ConfigAssumption DEF TargetGas
<1>2. \A v \in Int : Clamp(v) \in MinBaseFee..MaxBaseFee
  BY SMT, ConfigAssumption DEF Clamp
<1>3. CASE TargetGas = 0
  BY SMT, <1>2, <1>3, ConfigAssumption DEF NextBaseFee
<1>4. CASE TargetGas # 0
  <2> DEFINE d == TargetGas * Denominator
  <2>1. d \in Nat \ {0}
    BY SMT, <1>1, <1>4, ConfigAssumption
  <2>2. \A g \in Nat : Share(current, g) \in Nat
    <3> TAKE g \in Nat
    <3>1. current * g \in Nat
      OBVIOUS
    <3> HIDE DEF d
    <3>2. (current * g) \div d \in Nat
      BY <3>1, <2>1, DivFacts
    <3> QED BY <3>2 DEF Share, d
  <2>3. gas > TargetGas => Increase(current, gas) \in Nat
    BY SMT, <2>2, <1>1 DEF Increase
  <2>4. gas < TargetGas => Decrease(current, gas) \in Nat
    BY <2>2, <1>1 DEF Decrease
  <2>5. gas > TargetGas => SatAdd(current, Increase(current, gas)) \in Int
    BY SMT, <2>3, ConfigAssumption DEF SatAdd
  <2>6. gas < TargetGas => SatSub(current, Decrease(current, gas)) \in Int
    BY SMT, <2>4 DEF SatSub
  <2> QED BY <1>1, <1>2, <1>4, <2>5, <2>6 DEF NextBaseFee
<1> QED BY <1>3, <1>4

-----------------------------------------------------------------------------
\* The inductive invariant: besides types and range, a bank has recorded no
\* more than its block consumes, and nothing if it came from a snapshot.
FeeInv ==
  /\ FeeMarketTypeOK
  /\ FeeInRange
  /\ \A n \in Nodes : fee[n].gas <= GasSince(origin[n], slot[n])

\* The initial banks carry the genesis fee state.
LEMMA FeeInit == FeeMarketInit => FeeInv
<1> SUFFICES ASSUME FeeMarketInit PROVE FeeInv
  OBVIOUS
<1>1. \A n \in Nodes : fee[n] = GenesisFee /\ slot[n] = 0 /\ origin[n] = 0
  BY DEF FeeMarketInit
<1>1b. GenesisFee.base = MinBaseFee /\ GenesisFee.gas = 0 /\ GenesisFee.parentGas = 0
  BY DEF GenesisFee
<1>2. GenesisFee \in FeeStates /\ ledger \in Seq(0..MaxBlockCU) /\ Len(ledger) = 0
  BY SMT, ConfigAssumption DEF FeeMarketInit, GenesisFee, FeeStates
<1>3. FeeMarketTypeOK
  BY SMT, <1>1, <1>2, InstanceAssumption DEF FeeMarketInit, FeeMarketTypeOK
<1>4. FeeInRange
  <2> SUFFICES ASSUME NEW n \in Nodes
               PROVE  /\ GenesisFee.base \in MinBaseFee..MaxBaseFee
                      /\ GenesisFee.gas <= MaxBlockCU /\ GenesisFee.parentGas <= MaxBlockCU
    BY <1>1 DEF FeeInRange
  <2> QED BY <1>1b, Bounds
<1>5. \A n \in Nodes : fee[n].gas <= GasSince(origin[n], slot[n])
  <2> TAKE n \in Nodes
  <2>1. GasSince(origin[n], slot[n]) = 0
    BY SMT, <1>1 DEF GasSince
  <2>2. fee[n].gas = 0
    BY <1>1, <1>1b
  <2> QED BY <2>1, <2>2
<1> QED BY <1>3, <1>4, <1>5 DEF FeeInv

\* What a block consumes for a node is within the block limit.
GasBounded == \A n \in Nodes : GasSince(origin[n], slot[n]) \in 0..MaxBlockCU

\* It follows from the types alone.
LEMMA GasSinceBound == FeeMarketTypeOK => GasBounded
<1> SUFFICES ASSUME FeeMarketTypeOK, NEW n \in Nodes
             PROVE  GasSince(origin[n], slot[n]) \in 0..MaxBlockCU
  BY DEF GasBounded
<1>1. slot[n] \in Nat /\ slot[n] <= Len(ledger) /\ ledger \in Seq(0..MaxBlockCU)
  BY DEF FeeMarketTypeOK
<1>2. slot[n] > 0 => slot[n] \in 1..Len(ledger)
  BY <1>1
<1>3. slot[n] > 0 => ledger[slot[n]] \in 0..MaxBlockCU
  BY Zenon, <1>1, <1>2, SeqElement
<1> QED BY <1>3, Bounds DEF GasSince

\* Producing a block changes no bank.
LEMMA ProduceKeepsInv ==
  ASSUME FeeInv, NEW gas \in BlockGas, ProduceBlock(gas)
  PROVE  FeeInv'
<1>1. ledger \in Seq(0..MaxBlockCU) /\ gas \in 0..MaxBlockCU /\ Len(ledger) \in Nat
  BY SMT, InstanceAssumption DEF FeeInv, FeeMarketTypeOK
<1>2. /\ ledger' \in Seq(0..MaxBlockCU) /\ Len(ledger') = Len(ledger) + 1
      /\ \A h \in 1..Len(ledger) : ledger'[h] = ledger[h]
  BY SMT, <1>1 DEF ProduceBlock
<1>3. FeeMarketTypeOK'
  BY SMT, <1>1, <1>2, InstanceAssumption DEF FeeInv, FeeMarketTypeOK, ProduceBlock
<1>4. FeeInRange'
  BY DEF FeeInv, FeeInRange, ProduceBlock
<1>5. ASSUME NEW n \in Nodes PROVE fee'[n].gas <= GasSince(origin[n], slot[n])'
  <2>1. slot[n] \in Nat /\ slot[n] <= Len(ledger)
    BY DEF FeeInv, FeeMarketTypeOK
  <2> QED BY <2>1, <1>1, <1>2 DEF FeeInv, GasSince, ProduceBlock
<1> QED BY <1>3, <1>4, <1>5 DEF FeeInv

\* A child bank derives its state from a state in range.
LEMMA NewFromParentKeepsInv ==
  ASSUME FeeInv, NEW n \in Nodes, BaseFeeFromParent(n)
  PROVE  FeeInv'
<1> DEFINE child == ChildFee(fee[n], slot[n] + 1)
<1>1. /\ fee[n] \in FeeStates /\ slot[n] \in Nat /\ slot[n] < Len(ledger)
      /\ origin[n] \in Nat /\ origin[n] <= slot[n] /\ Len(ledger) \in Nat
  BY DEF FeeInv, FeeMarketTypeOK, BaseFeeFromParent
<1>2. NextBaseFee(fee[n].base, fee[n].parentGas) \in MinBaseFee..MaxBaseFee
  BY Zenon, <1>1, NextBaseFeeInRange DEF FeeStates
<1>3. child \in FeeStates /\ child.base \in MinBaseFee..MaxBaseFee
      /\ child.gas = 0 /\ child.parentGas = fee[n].gas
  <2>1. child = [base |-> NextBaseFee(fee[n].base, fee[n].parentGas),
                 parentGas |-> fee[n].gas, gas |-> 0, height |-> slot[n] + 1]
    BY DEF ChildFee
  <2>2. /\ NextBaseFee(fee[n].base, fee[n].parentGas) \in Nat
        /\ fee[n].gas \in Nat /\ slot[n] + 1 \in Nat
    BY <1>1, <1>2, ConfigAssumption DEF FeeStates
  <2> QED
    BY ONLY SMT, Zenon, Z3T(20), <1>2, <2>1, <2>2 DEF FeeStates
<1> HIDE DEF child
<1>4. /\ fee' = [fee EXCEPT ![n] = child] /\ slot' = [slot EXCEPT ![n] = @ + 1]
      /\ ledger' = ledger /\ origin' = origin
  BY DEF BaseFeeFromParent, child
<1>5. FeeMarketTypeOK'
  BY SMT, <1>1, <1>3, <1>4 DEF FeeInv, FeeMarketTypeOK
<1>6. fee[n].gas <= MaxBlockCU
  BY DEF FeeInv, FeeInRange
<1>7. FeeInRange'
  BY SMT, <1>3, <1>4, <1>6, ConfigAssumption DEF FeeInv, FeeInRange, FeeMarketTypeOK
<1>8. GasBounded'
  BY <1>5, GasSinceBound, PTL
<1>9. ASSUME NEW m \in Nodes PROVE fee'[m].gas <= GasSince(origin[m], slot[m])'
  <2>1. CASE m = n
    <3>1. fee'[m].gas = 0
      BY <2>1, <1>3, <1>4 DEF FeeInv, FeeMarketTypeOK
    <3> QED BY <3>1, <1>8 DEF GasBounded
  <2>2. CASE m # n
    BY <2>2, <1>4 DEF FeeInv, FeeMarketTypeOK, GasSince
  <2> QED BY <2>1, <2>2
<1> QED BY <1>5, <1>7, <1>9 DEF FeeInv

\* A commit records at most what is left of the block.
LEMMA CommitKeepsInv ==
  ASSUME FeeInv, NEW n \in Nodes, NEW cu \in BatchGas, CommitTransactions(n, cu)
  PROVE  FeeInv'
<1>1. /\ fee[n] \in FeeStates /\ cu \in Nat /\ slot[n] \in Nat /\ origin[n] \in Nat
      /\ slot[n] > origin[n] /\ fee[n].gas + cu <= ledger[slot[n]]
      /\ slot[n] <= Len(ledger) /\ ledger \in Seq(0..MaxBlockCU)
  BY InstanceAssumption DEF FeeInv, FeeMarketTypeOK, CommitTransactions
<1>2. slot[n] \in 1..Len(ledger)
  BY <1>1
<1>2b. ledger[slot[n]] \in 0..MaxBlockCU
  BY Zenon, <1>1, <1>2, SeqElement
<1>2c. GasSince(origin[n], slot[n]) = ledger[slot[n]]
  BY SMT, <1>1 DEF GasSince
<1>2d. fee[n].gas + cu \in 0..MaxBlockCU
  <2>1. fee[n].gas \in Nat /\ cu \in Nat
    BY <1>1 DEF FeeStates
  <2> DEFINE limit == ledger[slot[n]]
  <2>2. limit \in 0..MaxBlockCU /\ fee[n].gas + cu <= limit
    BY <1>1, <1>2b
  <2> HIDE DEF limit
  <2> QED BY <2>1, <2>2, Bounds
<1>3. SatAdd(fee[n].gas, cu) = fee[n].gas + cu
  BY SMT, <1>2d, Bounds DEF SatAdd
<1> DEFINE next == RecordGas(fee[n], cu)
<1>4. /\ next \in FeeStates /\ next.base = fee[n].base
      /\ next.parentGas = fee[n].parentGas /\ next.gas = fee[n].gas + cu
  <2>1. fee[n] \in FeeStates /\ fee[n].gas + cu \in Nat
    BY SMT, <1>1, <1>2d
  <2>2. next = [fee[n] EXCEPT !.gas = fee[n].gas + cu]
    BY <1>3 DEF RecordGas
  <2> QED BY <2>1, <2>2 DEF FeeStates
<1> HIDE DEF next
<1>5. /\ fee' = [fee EXCEPT ![n] = next]
      /\ ledger' = ledger /\ origin' = origin /\ slot' = slot
  BY DEF CommitTransactions, next
<1>6. FeeMarketTypeOK'
  BY <1>4, <1>5 DEF FeeInv, FeeMarketTypeOK
<1>7. FeeInRange'
  BY <1>2d, <1>4, <1>5, Bounds DEF FeeInv, FeeInRange, FeeMarketTypeOK
<1>8. \A m \in Nodes : fee'[m].gas <= GasSince(origin[m], slot[m])'
  BY <1>1, <1>2c, <1>4, <1>5 DEF FeeInv, GasSince, FeeMarketTypeOK
<1> QED BY <1>6, <1>7, <1>8 DEF FeeInv

\* A bank rebuilt from a snapshot carries the genesis fee state.
LEMMA SnapshotKeepsInv ==
  ASSUME FeeInv, NEW n \in Nodes, NEW h \in 1..MaxHeight, BaseFeeFromSnapshot(n, h)
  PROVE  FeeInv'
<1>1. /\ h \in Nat /\ h <= slot[n] /\ slot[n] <= Len(ledger) /\ slot[n] \in Nat
      /\ Len(ledger) \in Nat
  BY SMT, InstanceAssumption DEF FeeInv, FeeMarketTypeOK, BaseFeeFromSnapshot
<1>2. GenesisFee \in FeeStates /\ GenesisFee.base = MinBaseFee
      /\ GenesisFee.gas = 0 /\ GenesisFee.parentGas = 0
  BY ConfigAssumption DEF GenesisFee, FeeStates
<1>3. /\ fee' = [fee EXCEPT ![n] = GenesisFee] /\ slot' = [slot EXCEPT ![n] = h]
      /\ origin' = [origin EXCEPT ![n] = h] /\ ledger' = ledger
  BY DEF BaseFeeFromSnapshot
<1>4. FeeMarketTypeOK'
  BY SMT, <1>1, <1>2, <1>3 DEF FeeInv, FeeMarketTypeOK
<1>5. FeeInRange'
  BY SMT, <1>2, <1>3, ConfigAssumption DEF FeeInv, FeeInRange, FeeMarketTypeOK
<1>6. \A m \in Nodes : fee'[m].gas <= GasSince(origin[m], slot[m])'
  BY SMT, <1>1, <1>2, <1>3 DEF FeeInv, GasSince, FeeMarketTypeOK
<1> QED BY <1>4, <1>5, <1>6 DEF FeeInv

\* Every step keeps the inductive invariant.
LEMMA FeeStep == FeeInv /\ [FeeMarketNext]_feeMarketVars => FeeInv'
<1> SUFFICES ASSUME FeeInv, [FeeMarketNext]_feeMarketVars PROVE FeeInv'
  OBVIOUS
<1>1. CASE UNCHANGED feeMarketVars
  <2>1. FeeMarketTypeOK'
    BY <1>1 DEF FeeInv, FeeMarketTypeOK, feeMarketVars
  <2>2. FeeInRange'
    BY <1>1 DEF FeeInv, FeeInRange, feeMarketVars
  <2> QED BY <1>1, <2>1, <2>2 DEF FeeInv, feeMarketVars, GasSince
<1>2. CASE \E gas \in BlockGas : ProduceBlock(gas)
  BY <1>2, ProduceKeepsInv
<1>3. CASE \E n \in Nodes : BaseFeeFromParent(n)
  BY <1>3, NewFromParentKeepsInv
<1>4. CASE \E n \in Nodes, cu \in BatchGas : CommitTransactions(n, cu)
  BY <1>4, CommitKeepsInv
<1>5. CASE \E n \in Restarting, h \in 1..MaxHeight : BaseFeeFromSnapshot(n, h)
  BY <1>5, SnapshotKeepsInv, InstanceAssumption
<1> QED BY <1>1, <1>2, <1>3, <1>4, <1>5 DEF FeeMarketNext

\* The base fee stays within [min_base_fee, max_base_fee] on every node, in
\* every chain and through every restart (calculator.rs, clamp).
THEOREM BaseFeeStaysInRange == FeeMarketSpec => []FeeInRange
<1>1. FeeInv => FeeInRange
  BY DEF FeeInv
<1> QED BY <1>1, FeeInit, FeeStep, PTL DEF FeeMarketSpec

-----------------------------------------------------------------------------
\* What block h of chain consumes for a node started from block start.
GasOf(chain, start, h) == IF h > start /\ h > 0 THEN chain[h] ELSE 0

\* One step of the recursion that defines BaseSince, over the first N blocks.
Course(chain, start, N, f) ==
  [k \in 0..N |-> IF k <= start THEN MinBaseFee
                  ELSE NextBaseFee(f[k - 1], GasOf(chain, start, k - 2))]

\* A chain that holds block N has natural amounts up to it.
Reaches(chain, N) == chain \in Seq(0..MaxBlockCU) /\ N \in 0..Len(chain)

\* What a block of the chain consumes is a natural number.
LEMMA GasOfType ==
  ASSUME NEW chain, NEW N, Reaches(chain, N), NEW start \in Nat, NEW h \in Int, h <= N
  PROVE  GasOf(chain, start, h) \in Nat
<1>1. CASE h > start /\ h > 0
  <2>1. h \in 1..Len(chain) /\ chain \in Seq(0..MaxBlockCU)
    BY SMT, <1>1 DEF Reaches
  <2>2. chain[h] \in 0..MaxBlockCU
    BY Zenon, <2>1, SeqElement
  <2> QED
    BY SMT, <1>1, <2>2, Bounds DEF GasOf
<1>2. CASE ~(h > start /\ h > 0)
  BY <1>2 DEF GasOf
<1> QED
  BY <1>1, <1>2

\* The recursion has a solution.
LEMMA CourseExists ==
  ASSUME NEW chain, NEW N \in Nat, Reaches(chain, N), NEW start \in Nat
  PROVE  \E f : f = Course(chain, start, N, f)
<1> DEFINE V == MinBaseFee..MaxBaseFee
           Step(m, v) == IF m <= start \/ m > N THEN MinBaseFee
                         ELSE NextBaseFee(v, GasOf(chain, start, m - 2))
           step == [p \in Nat \X V |-> Step(p[1], p[2])]
<1>1. MinBaseFee \in V /\ V \subseteq Nat
  BY SMT, Bounds
<1>2. ASSUME NEW m \in Nat, NEW v \in V PROVE step[<<m, v>>] = Step(m, v) /\ Step(m, v) \in V
  <2>1. step[<<m, v>>] = Step(m, v)
    <3> HIDE DEF V, Step
    <3> QED
      OBVIOUS
  <2>2. CASE m <= start \/ m > N
    BY <1>1, <2>1, <2>2
  <2>3. CASE ~(m <= start \/ m > N)
    <3>1. GasOf(chain, start, m - 2) \in Nat /\ v \in Nat
      BY SMT, <1>1, <2>3, GasOfType
    <3>2. NextBaseFee(v, GasOf(chain, start, m - 2)) \in V
      BY <3>1, NextBaseFeeInRange
    <3> QED
      BY <2>1, <2>3, <3>2
  <2> QED
    BY <2>2, <2>3
<1>3. StaysIn(step, V)
  <2> HIDE DEF step, V, Step
  <2> QED
    BY Zenon, <1>2 DEF StaysIn
<1>4. PICK g \in [0..N -> V] : g = Recursion(MinBaseFee, step, N, g)
  <2> HIDE DEF V, step
  <2>1. \E g : Solves(g, MinBaseFee, step, N, V)
    BY <1>1, <1>3, RecursionExists
  <2> QED
    BY <2>1 DEF Solves
<1>5. ASSUME NEW m \in 0..N PROVE g[m] = Course(chain, start, N, g)[m]
  <2>1. m \in Nat /\ m <= N
    BY SMT
  <2>2. g[m] = IF m = 0 THEN MinBaseFee ELSE step[<<m, g[m - 1]>>]
    <3> HIDE DEF step, V
    <3> QED
      BY <1>4 DEF Recursion
  <2>3. m # 0 => step[<<m, g[m - 1]>>] = Step(m, g[m - 1])
    <3>1. m # 0 => g[m - 1] \in V
      <4> HIDE DEF V
      <4> QED
        BY SMT, <2>1
    <3> QED
      BY <1>2, <2>1, <3>1
  <2>4. Course(chain, start, N, g)[m] =
          IF m <= start THEN MinBaseFee ELSE NextBaseFee(g[m - 1], GasOf(chain, start, m - 2))
    BY DEF Course
  <2> QED
    BY SMT, <2>1, <2>2, <2>3, <2>4
<1>6. g = Course(chain, start, N, g)
  <2>1. g = [m \in 0..N |-> g[m]]
    OBVIOUS
  <2> QED
    BY <1>5, <2>1 DEF Course
<1> QED
  BY <1>6

\* f solves the recursion; two chains have the same first M blocks.
IsCourse(f, chain, start, N) == f = Course(chain, start, N, f)
SameUpTo(M, chain, other) == \A h \in 1..M : chain[h] = other[h]

\* Solutions of the recursion over chains with a common beginning agree on it.
LEMMA CoursesAgree ==
  ASSUME NEW chain, NEW other, NEW start \in Nat, NEW M \in Nat, NEW N \in Nat, M <= N,
         SameUpTo(M, chain, other),
         NEW f, IsCourse(f, chain, start, M), NEW g, IsCourse(g, other, start, N)
  PROVE  f[M] = g[M]
<1>0. /\ \A h \in 1..M : chain[h] = other[h]
      /\ f = Course(chain, start, M, f) /\ g = Course(other, start, N, g)
  BY DEF SameUpTo, IsCourse
<1> DEFINE X == {m \in Nat : m <= M => f[m] = g[m]}
<1>1. ASSUME NEW m \in 0..M
      PROVE  /\ f[m] = IF m <= start THEN MinBaseFee
                       ELSE NextBaseFee(f[m - 1], GasOf(chain, start, m - 2))
             /\ g[m] = IF m <= start THEN MinBaseFee
                       ELSE NextBaseFee(g[m - 1], GasOf(chain, start, m - 2))
  <2>1. m \in 0..N /\ m \in Nat
    BY SMT
  <2>2. f[m] = IF m <= start THEN MinBaseFee
               ELSE NextBaseFee(f[m - 1], GasOf(chain, start, m - 2))
    BY <1>0 DEF Course
  <2>3. g[m] = IF m <= start THEN MinBaseFee
               ELSE NextBaseFee(g[m - 1], GasOf(other, start, m - 2))
    BY <1>0, <2>1 DEF Course
  <2>4. GasOf(chain, start, m - 2) = GasOf(other, start, m - 2)
    BY SMT, <1>0 DEF GasOf
  <2> QED
    BY <2>2, <2>3, <2>4
<1>2. 0 \in X
  BY SMT, <1>1
<1>3. ASSUME NEW m \in Nat, m \in X PROVE m + 1 \in X
  <2>1. CASE m + 1 <= M
    <3>1. f[m] = g[m] /\ m + 1 \in 0..M /\ (m + 1) - 1 = m
      BY SMT, <1>3, <2>1
    <3> HIDE DEF X
    <3>2. f[m + 1] = g[m + 1]
      BY <1>1, <3>1
    <3> QED
      BY SMT, <3>2 DEF X
  <2>2. CASE ~(m + 1 <= M)
    BY <2>2
  <2> QED
    BY <2>1, <2>2
<1>4. M \in X
  <2> HIDE DEF X
  <2> QED
    BY Zenon, <1>2, <1>3, SetInduction
<1> QED
  BY SMT, <1>4

\* The base fee that a chain gives block N: any solution has it at N.
BaseOf(chain, start, N) == (CHOOSE f : f = Course(chain, start, N, f))[N]

\* BaseSince is that of the ledger.
LEMMA BaseSinceIs == \A start, h : BaseSince(start, h) = BaseOf(ledger, start, h)
  BY DEF BaseSince, BaseOf, Course, GasOf, GasSince

\* At its start a node charges the minimum; afterwards the base fee follows from
\* that of the parent and the consumption of the grandparent.
LEMMA BaseOfStep ==
  ASSUME NEW chain, NEW N \in Nat, Reaches(chain, N), NEW start \in Nat
  PROVE  /\ N <= start => BaseOf(chain, start, N) = MinBaseFee
         /\ N > start => BaseOf(chain, start, N) =
              NextBaseFee(BaseOf(chain, start, N - 1), GasOf(chain, start, N - 2))
<1> DEFINE f == CHOOSE h : h = Course(chain, start, N, h)
           g == CHOOSE h : h = Course(chain, start, N - 1, h)
<1>1. f = Course(chain, start, N, f)
  BY Zenon, CourseExists
<1>2. BaseOf(chain, start, N) = f[N] /\ BaseOf(chain, start, N - 1) = g[N - 1]
  BY DEF BaseOf
<1> HIDE DEF f
<1>3. f[N] = IF N <= start THEN MinBaseFee
             ELSE NextBaseFee(f[N - 1], GasOf(chain, start, N - 2))
  <2>1. N \in 0..N
    BY SMT
  <2> QED
    BY <1>1, <2>1 DEF Course
<1>4. ASSUME N > start PROVE f[N - 1] = g[N - 1]
  <2>1. N - 1 \in Nat /\ Reaches(chain, N - 1) /\ N - 1 <= N
    BY SMT, <1>4 DEF Reaches
  <2>2. g = Course(chain, start, N - 1, g)
    BY Zenon, <2>1, CourseExists
  <2> HIDE DEF g
  <2>3. /\ IsCourse(g, chain, start, N - 1) /\ IsCourse(f, chain, start, N)
        /\ SameUpTo(N - 1, chain, chain) /\ N - 1 \in Nat /\ N - 1 <= N
    BY <1>1, <2>1, <2>2 DEF IsCourse, SameUpTo
  <2>4. g[N - 1] = f[N - 1]
    BY SMT, <2>3, CoursesAgree
  <2> QED
    BY <2>4
<1> QED
  BY SMT, <1>2, <1>3, <1>4

\* A longer chain with the same beginning gives its blocks the same base fee.
LEMMA BaseOfPrefix ==
  ASSUME NEW chain, NEW other, NEW N \in Nat, Reaches(chain, N), Reaches(other, N),
         NEW start \in Nat, \A h \in 1..N : chain[h] = other[h]
  PROVE  BaseOf(chain, start, N) = BaseOf(other, start, N)
<1> DEFINE f == CHOOSE h : h = Course(chain, start, N, h)
           g == CHOOSE h : h = Course(other, start, N, h)
<1>1. f = Course(chain, start, N, f) /\ g = Course(other, start, N, g)
  BY Zenon, CourseExists
<1>2. BaseOf(chain, start, N) = f[N] /\ BaseOf(other, start, N) = g[N]
  BY DEF BaseOf
<1> HIDE DEF f, g
<1>3. /\ IsCourse(f, chain, start, N) /\ IsCourse(g, other, start, N)
      /\ SameUpTo(N, chain, other) /\ N <= N
  BY SMT, <1>1 DEF IsCourse, SameUpTo
<1>4. f[N] = g[N]
  BY SMT, <1>3, CoursesAgree
<1> QED
  BY <1>2, <1>4

\* The inductive invariant behind BaseFeeFollowsChain: a bank also remembers
\* what its parent consumed, which is what its child is charged for.
Follows(n) ==
  /\ fee[n].base = BaseOf(ledger, origin[n], slot[n])
  /\ fee[n].parentGas = GasOf(ledger, origin[n], slot[n] - 1)

FollowInv == \A n \in Nodes : Follows(n)

\* What the type invariant says of one node.
LEMMA NodeFacts ==
  ASSUME FeeInv, NEW n \in Nodes
  PROVE  /\ slot[n] \in Nat /\ origin[n] \in Nat /\ origin[n] <= slot[n]
         /\ Reaches(ledger, slot[n]) /\ fee[n] \in FeeStates
         /\ ledger \in Seq(0..MaxBlockCU) /\ Len(ledger) \in Nat /\ slot[n] <= Len(ledger)
  BY SMT DEF FeeInv, FeeMarketTypeOK, Reaches

\* A node whose bank, start and blocks are the same still follows the chain.
LEMMA SameNode ==
  ASSUME FeeInv, NEW n \in Nodes, Follows(n), fee'[n].base = fee[n].base,
         fee'[n].parentGas = fee[n].parentGas, slot'[n] = slot[n],
         origin'[n] = origin[n], Reaches(ledger', slot[n]),
         \A h \in 1..slot[n] : ledger'[h] = ledger[h]
  PROVE  Follows(n)'
<1>1. slot[n] \in Nat /\ origin[n] \in Nat /\ Reaches(ledger, slot[n])
  BY NodeFacts
<1>2. BaseOf(ledger', origin[n], slot[n]) = BaseOf(ledger, origin[n], slot[n])
  BY SMT, <1>1, BaseOfPrefix
<1>3. GasOf(ledger', origin[n], slot[n] - 1) = GasOf(ledger, origin[n], slot[n] - 1)
  BY <1>1 DEF GasOf
<1> QED
  BY <1>2, <1>3 DEF Follows

\* Every step keeps the bank of every node a function of the chain.
LEMMA FollowStep ==
  ASSUME FeeInv, FollowInv, FeeMarketNext PROVE FollowInv'
<1>1. ASSUME NEW gas \in BlockGas, ProduceBlock(gas), NEW n \in Nodes PROVE Follows(n)'
  <2>1. /\ ledger \in Seq(0..MaxBlockCU) /\ gas \in 0..MaxBlockCU
        /\ slot[n] \in Nat /\ slot[n] <= Len(ledger)
    BY NodeFacts, InstanceAssumption
  <2>2. ledger' = Append(ledger, gas) /\ slot' = slot /\ fee' = fee /\ origin' = origin
    BY <1>1 DEF ProduceBlock
  <2>3. /\ ledger' \in Seq(0..MaxBlockCU) /\ Len(ledger') = Len(ledger) + 1
        /\ \A h \in 1..Len(ledger) : ledger'[h] = ledger[h]
    BY SMT, <2>1, <2>2
  <2>4. Reaches(ledger', slot[n])
    BY SMT, <2>1, <2>3 DEF Reaches
  <2>5. \A h \in 1..slot[n] : ledger'[h] = ledger[h]
    BY SMT, <2>1, <2>3
  <2> QED
    BY Zenon, <2>2, <2>4, <2>5, SameNode DEF FollowInv
<1>2. ASSUME NEW n \in Nodes, NEW m \in Nodes, m # n, ledger' = ledger,
             fee'[m] = fee[m], slot'[m] = slot[m], origin'[m] = origin[m]
      PROVE  Follows(m)'
  BY <1>2, NodeFacts, SameNode DEF FollowInv
<1>3. ASSUME NEW n \in Nodes, BaseFeeFromParent(n) PROVE FollowInv'
  <2>1. /\ slot[n] \in Nat /\ origin[n] \in Nat /\ origin[n] <= slot[n]
        /\ Reaches(ledger, slot[n] + 1) /\ fee[n] \in FeeStates
    BY SMT, <1>3, NodeFacts DEF BaseFeeFromParent, Reaches
  <2> DEFINE child == ChildFee(fee[n], slot[n] + 1)
  <2>2. /\ ledger' = ledger /\ origin' = origin
        /\ slot'[n] = slot[n] + 1 /\ fee'[n] = child
        /\ \A m \in Nodes : m # n => slot'[m] = slot[m] /\ fee'[m] = fee[m]
    BY <1>3 DEF BaseFeeFromParent, FeeInv, FeeMarketTypeOK
  <2>3. /\ child.base = NextBaseFee(fee[n].base, fee[n].parentGas)
        /\ child.parentGas = fee[n].gas
    BY DEF ChildFee
  <2> HIDE DEF child
  <2>4. fee[n].gas = GasOf(ledger, origin[n], slot[n])
    BY <1>3 DEF BaseFeeFromParent, Complete, GasSince, GasOf
  <2>5. /\ fee[n].base = BaseOf(ledger, origin[n], slot[n])
        /\ fee[n].parentGas = GasOf(ledger, origin[n], slot[n] - 1)
    BY DEF FollowInv, Follows
  <2>6. /\ slot[n] + 1 \in Nat /\ slot[n] + 1 > origin[n]
        /\ (slot[n] + 1) - 1 = slot[n] /\ (slot[n] + 1) - 2 = slot[n] - 1
    BY SMT, <2>1
  <2>7. BaseOf(ledger, origin[n], slot[n] + 1) =
          NextBaseFee(BaseOf(ledger, origin[n], slot[n]), GasOf(ledger, origin[n], slot[n] - 1))
    BY SMT, <2>1, <2>6, BaseOfStep
  <2>8. Follows(n)'
    BY <2>2, <2>3, <2>4, <2>5, <2>6, <2>7 DEF Follows
  <2> QED
    BY <1>2, <2>2, <2>8 DEF FollowInv
<1>4. ASSUME NEW n \in Nodes, NEW cu \in BatchGas, CommitTransactions(n, cu) PROVE FollowInv'
  <2>1. fee[n] \in FeeStates /\ DOMAIN fee = Nodes
    BY DEF FeeInv, FeeMarketTypeOK
  <2>2. /\ ledger' = ledger /\ origin' = origin /\ slot' = slot
        /\ fee'[n] = RecordGas(fee[n], cu)
        /\ \A m \in Nodes : m # n => fee'[m] = fee[m]
    BY <1>4, <2>1 DEF CommitTransactions
  <2>3. fee'[n].base = fee[n].base /\ fee'[n].parentGas = fee[n].parentGas
    BY <2>1, <2>2 DEF RecordGas, FeeStates
  <2>4. Follows(n)'
    BY <2>2, <2>3, NodeFacts, SameNode DEF FollowInv
  <2> QED
    BY <1>2, <2>2, <2>4 DEF FollowInv
<1>5. ASSUME NEW n \in Nodes, NEW h \in 1..MaxHeight, BaseFeeFromSnapshot(n, h) PROVE FollowInv'
  <2>1. slot[n] \in Nat /\ h \in Nat /\ Reaches(ledger, h)
    BY SMT, <1>5, NodeFacts, InstanceAssumption DEF BaseFeeFromSnapshot, Reaches
  <2>2. /\ ledger' = ledger /\ slot'[n] = h /\ origin'[n] = h /\ fee'[n] = GenesisFee
        /\ \A m \in Nodes : m # n =>
             slot'[m] = slot[m] /\ fee'[m] = fee[m] /\ origin'[m] = origin[m]
    BY <1>5 DEF BaseFeeFromSnapshot, FeeInv, FeeMarketTypeOK
  <2>3. GenesisFee.base = MinBaseFee /\ GenesisFee.parentGas = 0
    BY DEF GenesisFee
  <2>4. BaseOf(ledger, h, h) = MinBaseFee
    BY SMT, <2>1, BaseOfStep
  <2>5. GasOf(ledger, h, h - 1) = 0
    BY SMT, <2>1 DEF GasOf
  <2>6. Follows(n)'
    BY <2>2, <2>3, <2>4, <2>5 DEF Follows
  <2> QED
    BY <1>2, <2>2, <2>6 DEF FollowInv
<1> QED
  BY <1>1, <1>3, <1>4, <1>5, InstanceAssumption DEF FeeMarketNext, FollowInv

\* The base fee of a bank is a function of the chain since its node's start,
\* whatever mix of batches executed the blocks and however often other nodes were
\* rebuilt: two nodes started from one block charge the same fees.
THEOREM BaseFeeIsOfTheChain == FeeMarketSpec => []BaseFeeFollowsChain
<1>1. FeeMarketInit /\ FeeInv => FollowInv
  <2> SUFFICES ASSUME FeeMarketInit, FeeInv, NEW n \in Nodes PROVE Follows(n)
    BY DEF FollowInv
  <2>1. slot[n] = 0 /\ origin[n] = 0 /\ fee[n].base = MinBaseFee /\ fee[n].parentGas = 0
    BY DEF FeeMarketInit, GenesisFee
  <2>2. Reaches(ledger, 0)
    BY <2>1, NodeFacts
  <2>3. BaseOf(ledger, 0, 0) = MinBaseFee
    BY SMT, <2>2, BaseOfStep
  <2> QED
    BY SMT, <2>1, <2>3 DEF Follows, GasOf
<1>2. FeeInv /\ FollowInv /\ [FeeMarketNext]_feeMarketVars => FollowInv'
  <2> SUFFICES ASSUME FollowInv, UNCHANGED feeMarketVars PROVE FollowInv'
    BY FollowStep
  <2> QED
    BY DEF FollowInv, Follows, feeMarketVars
<1>3. FollowInv => BaseFeeFollowsChain
  BY BaseSinceIs DEF FollowInv, Follows, BaseFeeFollowsChain
<1> QED
  BY <1>1, <1>2, <1>3, FeeInit, FeeStep, PTL DEF FeeMarketSpec

-----------------------------------------------------------------------------
\* A configuration whose blocks hold at most twice the target, and whose fees
\* are never too small for the denominator; the default one is of this kind.
TwiceTheTarget ==
  /\ TargetGas > 0 /\ MaxBlockCU <= 2 * TargetGas /\ Denominator <= MinBaseFee

\* Dividing a product by a multiple of its second factor's bound.
LEMMA ShareAtMost ==
  ASSUME NEW c \in Nat, NEW e \in Nat, NEW t \in Nat \ {0}, NEW d \in Nat \ {0},
         e <= t
  PROVE  (c * e) \div (t * d) <= c \div d
<1> DEFINE q == (c * e) \div (t * d)
           p == c \div d
<1>1. t * d \in Nat \ {0} /\ c * e \in Nat
  BY SMT
<1>2. q \in Nat /\ (t * d) * q <= c * e
  BY <1>1, DivFacts
<1>3. p \in Nat /\ c < d * p + d
  BY DivFacts
<1>4. c * e <= c * t
  BY SMT
<1> HIDE DEF q, p
<1>5. t * (d * q) <= t * c
  BY SMT, <1>2, <1>4
<1>6. d * q <= c
  BY SMT, <1>2, <1>5
<1>7. d * q < d * (p + 1)
  BY SMT, <1>2, <1>3, <1>6
<1>8. q < p + 1
  BY SMT, <1>2, <1>3, <1>7
<1> QED BY <1>2, <1>3, <1>8 DEF q, p

\* With the whole of the target the share is the full fraction.
LEMMA ShareOfTarget ==
  ASSUME NEW c \in Nat, NEW t \in Nat \ {0}, NEW d \in Nat \ {0}
  PROVE  c \div d <= (c * t) \div (t * d)
<1> DEFINE q == (c * t) \div (t * d)
           p == c \div d
<1>1. t * d \in Nat \ {0} /\ c * t \in Nat
  BY SMT
<1>2. q \in Nat /\ c * t < (t * d) * q + (t * d)
  BY Zenon, <1>1, DivFacts
<1>3. p \in Nat /\ d * p <= c
  BY DivFacts
<1> HIDE DEF q, p
<1>4. t * c < t * (d * (q + 1))
  BY SMT, <1>2
<1>5. c < d * (q + 1)
  BY SMT, <1>2, <1>4
<1>6. d * p < d * (q + 1)
  BY SMT, <1>2, <1>3, <1>5
<1>7. p < q + 1
  BY SMT, <1>2, <1>3, <1>6
<1> QED BY <1>2, <1>3, <1>7 DEF q, p

\* One application of calculate_next_base_fee to a fee in range.
LEMMA NextBaseFeeMoves ==
  ASSUME TwiceTheTarget, NEW c \in MinBaseFee..MaxBaseFee, NEW g \in 0..MaxBlockCU
  PROVE  LET new == NextBaseFee(c, g)
             step == IF c < Denominator THEN 1 ELSE c \div Denominator
         IN /\ g > TargetGas /\ c < MaxBaseFee => new > c
            /\ g = 0 /\ c > MinBaseFee => new < c
            /\ new <= c + step /\ c <= new + step
<1> DEFINE t == TargetGas
           d == Denominator
           p == c \div d
           new == NextBaseFee(c, g)
<1>1. /\ t \in Nat \ {0} /\ d \in Nat \ {0} /\ c \in Nat /\ g \in Nat
      /\ c >= d /\ g <= 2 * t
  <2>1. TargetGas \in Nat
    BY SMT, ConfigAssumption DEF TargetGas
  <2> QED BY <2>1, Bounds, ConfigAssumption DEF TwiceTheTarget
<1>2. p \in Nat /\ d * p <= c /\ c < d * p + d
  BY <1>1, DivFacts
<1>3. p >= 1
  <2> HIDE DEF p, d
  <2> QED BY <1>1, <1>2
<1>4. ~(c < d)
  BY SMT, <1>1
<1>5. SUFFICES /\ g > t /\ c < MaxBaseFee => new > c
               /\ g = 0 /\ c > MinBaseFee => new < c
               /\ new <= c + p /\ c <= new + p
  BY <1>4
<1>6. new = Clamp(IF g = t THEN c
                  ELSE IF g > t THEN SatAdd(c, Increase(c, g))
                  ELSE SatSub(c, Decrease(c, g)))
  BY <1>1 DEF NextBaseFee
<1>7. c \in MinBaseFee..MaxBaseFee
  OBVIOUS
<1>8. CASE g = t
  <2>1. new = Clamp(c)
    BY <1>6, <1>8
  <2>2. new = c
    BY SMT, <2>1, <1>7, Bounds DEF Clamp
  <2> HIDE DEF new, p, t, d
  <2> QED BY <2>2, <1>1, <1>2, <1>8
<1>9. CASE g > t
  <2> DEFINE inc == Increase(c, g)
  <2>1. g - t \in Nat /\ g - t <= t
    BY <1>1, <1>9
  <2>2. Share(c, g - t) <= p
    BY Zenon, <2>1, <1>1, ShareAtMost DEF Share
  <2>3. Share(c, g - t) \in Nat
    <3>1. c * (g - t) \in Nat /\ t * d \in Nat \ {0}
      BY SMT, <1>1, <2>1
    <3> QED BY <3>1, DivFacts DEF Share
  <2>4. inc \in Nat /\ 1 <= inc /\ inc <= p
    <3> HIDE DEF p
    <3> QED BY <2>2, <2>3, <1>2, <1>3 DEF Increase
  <2>5. new = Clamp(SatAdd(c, inc))
    BY SMT, <1>6, <1>9, <1>1
  <2> HIDE DEF new, p, inc, t, d
  <2>6. /\ new <= c + inc /\ c <= new
        /\ c < MaxBaseFee => new > c
    BY <2>4, <2>5, <1>1, <1>7, Bounds DEF Clamp, SatAdd
  <2>7. new \in Nat
    BY SMT, <2>4, <2>5, <1>1, <1>7, Bounds DEF Clamp, SatAdd
  <2> QED BY <2>4, <2>6, <2>7, <1>1, <1>2, <1>9
<1>10. CASE g < t
  <2> DEFINE dec == Decrease(c, g)
  <2>1. t - g \in Nat /\ t - g <= t
    BY <1>1, <1>10
  <2>2. Share(c, t - g) <= p
    BY Zenon, <2>1, <1>1, ShareAtMost DEF Share
  <2>3. Share(c, t - g) \in Nat
    <3>1. c * (t - g) \in Nat /\ t * d \in Nat \ {0}
      BY SMT, <1>1, <2>1
    <3> QED BY <3>1, DivFacts DEF Share
  <2>4. g = 0 => p <= Share(c, t - g)
    BY <1>1, ShareOfTarget DEF Share
  <2>5. dec \in Nat /\ dec <= p /\ (g = 0 => dec >= 1)
    <3> HIDE DEF p
    <3> QED BY <2>2, <2>3, <2>4, <1>2, <1>3 DEF Decrease
  <2>6. new = Clamp(SatSub(c, dec))
    BY SMT, <1>6, <1>10, <1>1
  <2> HIDE DEF new, p, dec, t, d
  <2>7. /\ new \in Nat /\ new <= c /\ c <= new + dec
        /\ dec >= 1 /\ c > MinBaseFee => new < c
    BY <2>5, <2>6, <1>1, <1>7, Bounds DEF Clamp, SatSub
  <2> QED BY <2>5, <2>7, <1>1, <1>2, <1>10
<1> QED BY <1>1, <1>8, <1>9, <1>10

\* For every configuration of this kind, every new bank moves the base fee by
\* at most 1/denominator, up after an over-full block and down after an empty
\* one (config.rs, base_fee_change_denominator).
THEOREM BaseFeeMovesAreBounded ==
  ASSUME TwiceTheTarget
  PROVE  FeeMarketSpec => BaseFeeMoves
<1> DEFINE Moves ==
      \A n \in Nodes :
        (slot'[n] = slot[n] + 1) =>
          LET old == fee[n].base
              new == fee'[n].base
              step == IF old < Denominator THEN 1 ELSE old \div Denominator
          IN /\ fee[n].parentGas > TargetGas /\ old < MaxBaseFee => new > old
             /\ fee[n].parentGas = 0 /\ old > MinBaseFee => new < old
             /\ new <= old + step /\ old <= new + step
<1>1. FeeInv /\ [FeeMarketNext]_feeMarketVars => [Moves]_feeMarketVars
  <2> DEFINE Moved(n) ==
        LET old == fee[n].base
            new == fee'[n].base
            step == IF old < Denominator THEN 1 ELSE old \div Denominator
        IN /\ fee[n].parentGas > TargetGas /\ old < MaxBaseFee => new > old
           /\ fee[n].parentGas = 0 /\ old > MinBaseFee => new < old
           /\ new <= old + step /\ old <= new + step
  <2> SUFFICES ASSUME FeeInv, FeeMarketNext, NEW n \in Nodes, slot'[n] = slot[n] + 1
               PROVE  Moved(n)
    OBVIOUS
  <2>0. SUFFICES fee' = [fee EXCEPT ![n] = ChildFee(@, slot[n] + 1)]
    <3>1. /\ fee[n].base \in MinBaseFee..MaxBaseFee /\ fee \in [Nodes -> FeeStates]
          /\ fee[n].parentGas \in Nat /\ fee[n].parentGas <= MaxBlockCU
      BY DEF FeeInv, FeeInRange, FeeMarketTypeOK, FeeStates
    <3>2. fee[n].parentGas \in 0..MaxBlockCU
      BY SMT, <3>1, Bounds
    <3>3. fee'[n].base = NextBaseFee(fee[n].base, fee[n].parentGas)
      BY SMT, <2>0, <3>1 DEF ChildFee
    <3> QED BY <3>1, <3>2, <3>3, NextBaseFeeMoves
  <2>1. slot[n] \in Nat
    BY DEF FeeInv, FeeMarketTypeOK
  <2>2. CASE \E gas \in BlockGas : ProduceBlock(gas)
    BY SMT, <2>1, <2>2 DEF ProduceBlock
  <2>3. CASE \E m \in Nodes : BaseFeeFromParent(m)
    <3>1. PICK m \in Nodes : BaseFeeFromParent(m)
      BY <2>3
    <3>2. m = n
      BY SMT, <2>1, <3>1 DEF BaseFeeFromParent, FeeInv, FeeMarketTypeOK
    <3> QED BY <3>1, <3>2 DEF BaseFeeFromParent
  <2>4. CASE \E m \in Nodes, cu \in BatchGas : CommitTransactions(m, cu)
    BY SMT, <2>1, <2>4 DEF CommitTransactions
  <2>5. CASE \E m \in Restarting, h \in 1..MaxHeight : BaseFeeFromSnapshot(m, h)
    BY SMT, <2>1, <2>5, InstanceAssumption DEF BaseFeeFromSnapshot, FeeInv, FeeMarketTypeOK
  <2> QED BY <2>2, <2>3, <2>4, <2>5 DEF FeeMarketNext
<1> QED BY <1>1, FeeInit, FeeStep, PTL DEF FeeMarketSpec, BaseFeeMoves

-----------------------------------------------------------------------------
(* Bans and jail sentences hold on every fork, for every number of validators  *)
(* and banks: proofs about Slashing.                                           *)

\* Callers use jail_validator, if at all, to ban.
OnlyBans == JailDurations \subseteq {"Permanent"}

-----------------------------------------------------------------------------
\* A bank of a later slot is in no earlier epoch.
LEMMA EpochMonotone ==
  ASSUME NEW a \in Nat, NEW b \in Nat, a <= b
  PROVE  /\ a \div SlotsPerEpoch \in Nat
         /\ a \div SlotsPerEpoch <= b \div SlotsPerEpoch
<1>1. SlotsPerEpoch \in Nat \ {0} BY SlashingAssumption
<1>2. ASSUME NEW x \in Nat, NEW s \in Nat \ {0}
      PROVE  x \div s \in Nat /\ s * (x \div s) <= x /\ x < s * (x \div s) + s
  BY SMT
<1> DEFINE s == SlotsPerEpoch
           p == a \div s
           q == b \div s
<1>3. p \in Nat /\ q \in Nat /\ s * p <= a /\ b < s * q + s
  BY <1>1, <1>2
<1> HIDE DEF p, q, s
<1>4. s \in Nat \ {0} BY <1>1 DEF s
<1>5. SUFFICES ASSUME q + 1 <= p PROVE FALSE
  BY SMT, <1>3 DEF p, q, s
<1>6. s * (q + 1) <= s * p
  BY SMT, <1>3, <1>4, <1>5
<1>7. s * (q + 1) = s * q + s
  BY SMT, <1>3, <1>4
<1> QED BY <1>3, <1>4, <1>6, <1>7

\* The linear facts about the parameters.
LEMMA Parameters ==
  /\ FirstEpochs \in Nat /\ SecondEpochs \in Nat /\ MaxSkew \in Nat
  /\ FirstEpochs + MaxSkew <= SecondEpochs /\ MaxOffenses = 3
  /\ Slashable \subseteq Validators /\ SlotsPerEpoch \in Nat \ {0}
  BY SlashingAssumption

\* The epochs apply_jail adds for a duration.
Term(d) == IF d = "Second" THEN SecondEpochs ELSE FirstEpochs

\* apply_jail always jails, never clears a ban, and keeps the offense count.
LEMMA ApplyJailFacts ==
  ASSUME NEW s \in Statuses, NEW e \in Nat, NEW d \in {"First", "Second", "Permanent", "Offline"}
  PROVE  /\ ApplyJail(s, d, e) \in Statuses
         /\ ApplyJail(s, d, e).jailed
         /\ ApplyJail(s, d, e).offenses = s.offenses
         /\ d = "Permanent" => ApplyJail(s, d, e).permanent
         /\ d # "Permanent" => /\ ApplyJail(s, d, e).permanent = s.permanent
                               /\ ApplyJail(s, d, e).until = e + Term(d)
<1>1. CASE d = "Permanent"
  <2>1. ApplyJail(s, d, e) = [s EXCEPT !.jailed = TRUE, !.permanent = TRUE]
    BY <1>1 DEF ApplyJail
  <2> QED BY Zenon, <1>1, <2>1 DEF Statuses
<1>2. CASE d # "Permanent"
  <2>1. ApplyJail(s, d, e) = [s EXCEPT !.jailed = TRUE, !.until = e + Term(d)]
    BY <1>2 DEF ApplyJail, Term
  <2>2. e + Term(d) \in Nat BY Parameters DEF Term
  <2> HIDE DEF Term
  <2> QED BY Zenon, <1>2, <2>1, <2>2 DEF Statuses
<1> QED BY <1>1, <1>2

-----------------------------------------------------------------------------
\* Some live bank has reached epoch e.
Reached(e) == \E b \in banks : e <= Epoch(b)

\* The live banks are within MaxSkew epochs of each other.
BanksClose == \A b, c \in banks : Epoch(c) <= Epoch(b) + MaxSkew

\* What is true of one validator: a ban leaves its mark; a sentence is over or
\* still being served; and a first sentence ends no later than FirstEpochs after
\* an epoch some bank has reached.
StandingOf(v) ==
  /\ (v \in banned \/ status[v].offenses >= MaxOffenses) => status[v].permanent
  /\ \/ status[v].permanent
     \/ status[v].jailed /\ sentence[v] <= status[v].until
     \/ Reached(sentence[v])
  /\ status[v].offenses = 0 => sentence[v] = 0
  /\ status[v].offenses = 1 => Reached(sentence[v] - FirstEpochs)

Standing == \A v \in Validators : StandingOf(v)

\* The inductive invariant.
SlashInv == SlashingTypeOK /\ BanksClose /\ Standing

\* Nobody is jailed at the start.
LEMMA SlashInit == SlashingInit => SlashInv
<1> SUFFICES ASSUME SlashingInit PROVE SlashInv
  OBVIOUS
<1>1. 0 \div SlotsPerEpoch \in Nat
  BY SMT, EpochMonotone
<1>2. Epoch(Genesis) \in Nat /\ Genesis \in banks
  BY <1>1 DEF Epoch, Genesis, SlashingInit
<1>3. SlashingTypeOK
  BY SMT, Parameters DEF SlashingInit, SlashingTypeOK, Statuses, DefaultStatus, Genesis
<1>4. BanksClose
  BY SMT, <1>2, Parameters DEF SlashingInit, BanksClose
<1>5. Reached(0)
  BY SMT, <1>2 DEF Reached
<1>6. ASSUME NEW v \in Validators PROVE StandingOf(v)
  BY SMT, <1>5, Parameters DEF SlashingInit, StandingOf, DefaultStatus
<1> QED BY <1>3, <1>4, <1>6 DEF SlashInv, Standing

\* Epochs are natural numbers.
LEMMA EpochNat ==
  ASSUME SlashingTypeOK, NEW b \in banks
  PROVE  Epoch(b) \in Nat /\ b.slot \in Nat
<1>1. b.slot \in Nat BY DEF SlashingTypeOK
<1> QED BY <1>1, EpochMonotone DEF Epoch

\* Dropping old banks keeps an epoch reached, and banks close.
LEMMA PruneKeeps ==
  ASSUME SlashInv, NEW b \in banks, Prune(b)
  PROVE  SlashInv'
<1> PICK c \in banks : c.slot > b.slot BY DEF Prune
<1>1. SlashingTypeOK BY DEF SlashInv
<1>2. b.slot <= c.slot BY <1>1, EpochNat
<1>3. Epoch(b) <= Epoch(c) BY <1>1, <1>2, EpochNat, EpochMonotone DEF Epoch
<1>4. c \in banks' /\ banks' \subseteq banks
  BY <1>1, EpochNat DEF Prune
<1>5. ASSUME NEW e \in Int, Reached(e) PROVE Reached(e)'
  <2>1. PICK d \in banks : e <= Epoch(d) BY <1>5 DEF Reached
  <2>2. d # b => d \in banks' BY DEF Prune
  <2>3. d = b => e <= Epoch(c) BY <2>1, <1>1, <1>3, EpochNat
  <2> QED BY <2>1, <2>2, <2>3, <1>4 DEF Reached, Epoch
<1>6. SlashingTypeOK' BY <1>1, <1>4 DEF Prune, SlashingTypeOK
<1>7. BanksClose' BY <1>4 DEF SlashInv, BanksClose, Epoch
<1>8. ASSUME NEW v \in Validators PROVE StandingOf(v)'
  <2>1. sentence[v] \in Nat /\ sentence[v] - FirstEpochs \in Int
    BY <1>1, Parameters DEF SlashingTypeOK
  <2>2. StandingOf(v) BY DEF SlashInv, Standing
  <2>3. UNCHANGED <<status, sentence, banned>> BY DEF Prune
  <2> QED BY <2>1, <2>2, <2>3, <1>5 DEF StandingOf
<1> QED BY <1>6, <1>7, <1>8 DEF SlashInv, Standing

\* A new bank drops only banks that it is ahead of, and the offline check jails
\* only validators that were serving no sentence.
LEMMA NewFromParentKeeps ==
  ASSUME SlashInv, NEW p \in banks, NEW at \in 1..MaxSlot, NEW voters \in VoteSets,
         SlashingFromParent(p, at, voters)
  PROVE  SlashInv'
<1> DEFINE now == at \div SlotsPerEpoch
           boundary == now > Epoch(p)
           offline == {v \in Validators :
                         boundary /\ SatSub(at, p.votes[v]) > OfflineThreshold}
           child == [slot |-> at,
                     votes |-> [v \in Validators |->
                                  IF v \in voters THEN p.slot ELSE p.votes[v]],
                     jailed |-> p.jailed \cup offline]
<1>1. SlashingTypeOK /\ BanksClose /\ Standing BY DEF SlashInv
<1>2. at \in Nat /\ p.slot \in Nat /\ p.slot <= at
  BY SMT, <1>1, EpochNat, SlashingAssumption DEF SlashingFromParent
<1>3. now \in Nat /\ Epoch(p) \in Nat /\ Epoch(p) <= now
  BY SMT, <1>2, EpochMonotone DEF Epoch
<1>4. Epoch(child) = now BY DEF Epoch
<1>5. banks' = {b \in banks \cup {child} : Epoch(b) + MaxSkew >= now}
  BY DEF SlashingFromParent
<1>6. p \in [slot : Nat, votes : [Validators -> Nat], jailed : SUBSET Validators]
  BY <1>1 DEF SlashingTypeOK
<1>7. child \in [slot : Nat, votes : [Validators -> Nat], jailed : SUBSET Validators]
  BY <1>2, <1>6
<1> HIDE DEF child
<1>8. child \in banks'
  BY SMT, <1>3, <1>4, <1>5, Parameters
<1>9. ASSUME NEW b \in banks' PROVE Epoch(b) \in Nat
  BY <1>1, <1>3, <1>4, <1>5, EpochNat
<1>10. ASSUME NEW e \in Int, Reached(e) PROVE Reached(e)'
  <2>1. PICK d \in banks : e <= Epoch(d) BY <1>10 DEF Reached
  <2>2. Epoch(d) \in Nat BY <1>1, EpochNat
  <2>3. CASE Epoch(d) + MaxSkew >= now
    BY <2>1, <2>3, <1>5 DEF Reached, Epoch
  <2>4. CASE ~(Epoch(d) + MaxSkew >= now)
    <3>1. e <= Epoch(child) BY <2>1, <2>2, <2>4, <1>3, <1>4, Parameters
    <3> QED BY <3>1, <1>8 DEF Reached, Epoch
  <2> QED BY <2>3, <2>4
<1>11. BanksClose'
  <2> SUFFICES ASSUME NEW b \in banks', NEW c \in banks'
               PROVE  Epoch(c) <= Epoch(b) + MaxSkew
    BY DEF BanksClose, Epoch
  <2>1. Epoch(b) \in Nat /\ Epoch(c) \in Nat BY <1>9
  <2>2. CASE b \in banks /\ c \in banks BY <2>2, <1>1 DEF BanksClose
  <2>3. CASE c = child BY <2>1, <2>3, <1>3, <1>4, <1>5, Parameters
  <2>4. CASE b = child /\ c \in banks
    <3>1. Epoch(c) <= Epoch(p) + MaxSkew BY <2>4, <1>1 DEF BanksClose
    <3> QED BY <3>1, <2>1, <2>4, <1>3, <1>4, Parameters
  <2> QED BY <2>2, <2>3, <2>4, <1>5
<1>12. ASSUME NEW v \in Validators
       PROVE  /\ status'[v] \in Statuses
              /\ status'[v].permanent = status[v].permanent
              /\ status'[v].offenses = status[v].offenses
              /\ Excluded(status[v]) => status'[v] = status[v]
  <2>1. status[v] \in Statuses BY <1>1 DEF SlashingTypeOK
  <2>2. status'[v] = status[v] \/ /\ ~Excluded(status[v])
                                  /\ status'[v] = ApplyJail(status[v], "Offline", now)
    <3>1. CASE boundary
      <4>1. status' = [w \in Validators |-> CheckOffline(status[w], p.votes[w], at, now)]
        BY <3>1 DEF SlashingFromParent
      <4> QED BY <4>1 DEF CheckOffline
    <3>2. CASE ~boundary BY <3>2 DEF SlashingFromParent
    <3> QED BY <3>1, <3>2
  <2>3. ASSUME NEW s \in Statuses, NEW t, t = ApplyJail(s, "Offline", now)
        PROVE  t \in Statuses /\ t.permanent = s.permanent /\ t.offenses = s.offenses
    BY Zenon, <2>3, <1>3, ApplyJailFacts
  <2> QED BY <2>1, <2>2, <2>3
<1>13. SlashingTypeOK'
  <2>1. status' = [v \in Validators |-> status'[v]]
    BY <1>1 DEF SlashingFromParent, SlashingTypeOK
  <2>2. status' \in [Validators -> Statuses] BY <2>1, <1>12
  <2>3. UNCHANGED <<sentence, banned>> BY DEF SlashingFromParent
  <2>4. banks' \subseteq [slot : Nat, votes : [Validators -> Nat], jailed : SUBSET Validators]
    BY <1>1, <1>5, <1>7 DEF SlashingTypeOK
  <2> QED BY <2>2, <2>3, <2>4, <1>1, <1>8 DEF SlashingTypeOK
<1>14. ASSUME NEW v \in Validators PROVE StandingOf(v)'
  <2>1. sentence[v] \in Nat /\ sentence[v] - FirstEpochs \in Int
    BY SMT, <1>1, Parameters DEF SlashingTypeOK
  <2>2. StandingOf(v) BY <1>1 DEF Standing
  <2>3. UNCHANGED <<sentence, banned>> BY DEF SlashingFromParent
  <2>4. Excluded(status[v]) \/ Reached(sentence[v])
    BY <2>2 DEF StandingOf, Excluded
  <2>5. CASE Excluded(status[v])
    BY <2>1, <2>2, <2>3, <2>5, <1>10, <1>12 DEF StandingOf
  <2>6. CASE Reached(sentence[v])
    BY <2>1, <2>2, <2>3, <2>6, <1>10, <1>12 DEF StandingOf
  <2> QED BY <2>4, <2>5, <2>6
<1> QED BY <1>11, <1>13, <1>14 DEF SlashInv, Standing

\* A second offense jails at least as long as what is left of a first sentence,
\* because no live bank is more than MaxSkew epochs behind; a third one bans.
LEMMA SlashKeeps ==
  ASSUME SlashInv, NEW b \in banks, NEW v \in Slashable, Slash(b, v)
  PROVE  SlashInv'
<1> DEFINE n == status[v].offenses + 1
           s == ApplyJail([status[v] EXCEPT !.offenses = n], DurationFor(n), Epoch(b))
           release == Epoch(b) + (IF n >= 2 THEN SecondEpochs ELSE FirstEpochs)
<1>1. SlashingTypeOK /\ BanksClose /\ Standing BY DEF SlashInv
<1>2. v \in Validators /\ status[v] \in Statuses /\ sentence[v] \in Nat
  BY <1>1, Parameters DEF SlashingTypeOK
<1>3. Epoch(b) \in Nat BY <1>1, EpochNat
<1>4. ~status[v].permanent /\ StandingOf(v)
  BY <1>1, <1>2 DEF Slash, Standing
<1>5. n \in 1..MaxOffenses
  BY SMT, <1>2, <1>4, Parameters DEF StandingOf, Statuses
<1>6. release \in Nat /\ release >= Epoch(b) + FirstEpochs
  BY SMT, <1>3, <1>5, Parameters
<1>7. /\ s \in Statuses /\ s.jailed /\ s.offenses = n
      /\ n >= MaxOffenses => s.permanent
      /\ n < MaxOffenses => s.until = release /\ ~s.permanent
  <2> DEFINE r == [status[v] EXCEPT !.offenses = n]
             d == DurationFor(n)
  <2>1. r \in Statuses /\ r.offenses = n /\ ~r.permanent
    BY <1>2, <1>4, <1>5, Parameters DEF Statuses
  <2>2. /\ d \in {"First", "Second", "Permanent", "Offline"}
        /\ n >= MaxOffenses => d = "Permanent"
        /\ n < MaxOffenses => d # "Permanent" /\ release = Epoch(b) + Term(d)
    BY SMT, <1>3, <1>5, Parameters DEF DurationFor, Term
  <2> HIDE DEF r, d, release
  <2>3. s = ApplyJail(r, d, Epoch(b)) BY DEF r, d
  <2> HIDE DEF s
  <2>4. /\ s \in Statuses /\ s.jailed /\ s.offenses = r.offenses
        /\ d = "Permanent" => s.permanent
        /\ d # "Permanent" => s.permanent = r.permanent /\ s.until = Epoch(b) + Term(d)
    BY Zenon, <2>1, <2>2, <2>3, <1>3, ApplyJailFacts
  <2>5. n < MaxOffenses \/ n >= MaxOffenses BY <1>5, Parameters
  <2> HIDE DEF n
  <2> QED BY <2>1, <2>2, <2>4, <2>5
<1>8. status' = [status EXCEPT ![v] = s]
  BY DEF Slash
<1>9. /\ sentence' = [sentence EXCEPT ![v] = IF release > @ THEN release ELSE @]
      /\ banned' = IF n >= MaxOffenses THEN banned \cup {v} ELSE banned
      /\ banks' = banks
  BY DEF Slash
<1> HIDE DEF s, release
<1>10. SlashingTypeOK'
  <2>1. status' \in [Validators -> Statuses] BY Zenon, <1>1, <1>7, <1>8 DEF SlashingTypeOK
  <2>2. sentence' \in [Validators -> Nat] BY Zenon, <1>1, <1>6, <1>9 DEF SlashingTypeOK
  <2> QED BY <2>1, <2>2, <1>1, <1>2, <1>9 DEF SlashingTypeOK
<1>11. BanksClose' BY <1>1, <1>9 DEF BanksClose, Epoch
<1>12. ASSUME NEW w \in Validators, w # v PROVE StandingOf(w)'
  <2>1. status'[w] = status[w] /\ sentence'[w] = sentence[w] /\ (w \in banned' <=> w \in banned)
    BY <1>1, <1>8, <1>9, <1>12 DEF SlashingTypeOK
  <2>2. StandingOf(w) BY <1>1 DEF Standing
  <2> QED BY <2>1, <2>2, <1>9 DEF StandingOf, Reached, Epoch
<1>13. StandingOf(v)'
  <2>1. /\ status'[v] = s
        /\ sentence'[v] = IF release > sentence[v] THEN release ELSE sentence[v]
    BY <1>1, <1>2, <1>8, <1>9 DEF SlashingTypeOK
  <2>2. v \in banned => FALSE BY <1>4 DEF StandingOf
  <2>3. CASE n = 1
    <3>1. sentence'[v] = release /\ release = Epoch(b) + FirstEpochs
      <4>1. release = Epoch(b) + FirstEpochs BY <2>3 DEF release
      <4>2. status[v].offenses \in Int BY <1>2, Parameters DEF Statuses
      <4>3. status[v].offenses = 0 BY <2>3, <4>2
      <4>4. sentence[v] = 0 BY <4>3, <1>4 DEF StandingOf
      <4>5. release > sentence[v] \/ release = sentence[v] BY <4>4, <1>6
      <4> QED BY <4>1, <4>5, <2>1
    <3>2. sentence'[v] - FirstEpochs <= Epoch(b)
      BY SMT, <3>1, <1>3, Parameters
    <3>3. Reached(sentence[v] - FirstEpochs)'
      BY <3>2, <1>9 DEF Reached, Epoch
    <3> QED BY ONLY SMT, Zenon, Z3T(20), <3>1, <3>3, <2>1, <2>2, <2>3, <1>6, <1>7, <1>9, Parameters DEF StandingOf
  <2>4. CASE n = 2
    <3>0. status[v].offenses = 1
      <4>1. status[v].offenses \in Int BY <1>2, Parameters DEF Statuses
      <4> QED BY <2>4, <4>1
    <3>1. PICK c \in banks : sentence[v] - FirstEpochs <= Epoch(c)
      BY <3>0, <1>4 DEF StandingOf, Reached
    <3>2. Epoch(c) \in Nat /\ Epoch(c) <= Epoch(b) + MaxSkew
      BY <1>1, EpochNat DEF BanksClose
    <3>3. sentence[v] <= Epoch(b) + SecondEpochs
      BY SMT, <3>1, <3>2, <1>2, <1>3, Parameters
    <3>4. release = Epoch(b) + SecondEpochs BY <2>4 DEF release
    <3>5. sentence'[v] = release
      BY <3>3, <3>4, <2>1, <1>2, <1>3, <1>6
    <3> QED BY ONLY SMT, Zenon, Z3T(20), <3>5, <2>1, <2>2, <2>4, <1>6, <1>7, <1>9, Parameters DEF StandingOf
  <2>5. CASE n = 3
    BY <2>1, <2>5, <1>7, Parameters DEF StandingOf
  <2> QED BY <2>3, <2>4, <2>5, <1>5, Parameters
<1> QED BY <1>10, <1>11, <1>12, <1>13, <1>2 DEF SlashInv, Standing

\* jail_validator, used to ban.
LEMMA JailKeeps ==
  ASSUME SlashInv, OnlyBans, NEW b \in banks, NEW v \in Slashable, NEW d \in JailDurations,
         Jail(b, v, d)
  PROVE  SlashInv'
<1>1. SlashingTypeOK /\ BanksClose /\ Standing BY DEF SlashInv
<1>2. v \in Validators /\ status[v] \in Statuses /\ d = "Permanent" /\ Epoch(b) \in Nat
  BY <1>1, Parameters, EpochNat DEF SlashingTypeOK, OnlyBans
<1> DEFINE s == ApplyJail(status[v], d, Epoch(b))
<1>3. s \in Statuses /\ s.permanent /\ s.offenses = status[v].offenses
  BY Zenon, <1>2, ApplyJailFacts
<1>4. /\ status' = [status EXCEPT ![v] = s] /\ banned' = banned \cup {v}
      /\ banks' = banks /\ sentence' = sentence
  BY <1>2 DEF Jail
<1> HIDE DEF s
<1>5. SlashingTypeOK' BY <1>1, <1>2, <1>3, <1>4 DEF SlashingTypeOK
<1>6. BanksClose' BY <1>1, <1>4 DEF BanksClose, Epoch
<1>7. ASSUME NEW w \in Validators PROVE StandingOf(w)'
  <2>1. StandingOf(w) BY <1>1 DEF Standing
  <2>2. CASE w = v
    <3>1. status'[w] = s BY <2>2, <1>1, <1>4 DEF SlashingTypeOK
    <3> QED BY Zenon, <2>1, <2>2, <3>1, <1>3, <1>4 DEF StandingOf, Reached, Epoch
  <2>3. CASE w # v
    <3>1. status'[w] = status[w] /\ (w \in banned' <=> w \in banned)
      BY <2>3, <1>1, <1>4 DEF SlashingTypeOK
    <3> QED BY <2>1, <3>1, <1>4 DEF StandingOf, Reached, Epoch
  <2> QED BY <2>2, <2>3
<1> QED BY <1>5, <1>6, <1>7 DEF SlashInv, Standing

\* unjail_validator releases only whom a bank has seen to the end of the sentence.
LEMMA UnjailKeeps ==
  ASSUME SlashInv, NEW b \in banks, NEW v \in Slashable, Unjail(b, v)
  PROVE  SlashInv'
<1>1. SlashingTypeOK /\ BanksClose /\ Standing BY DEF SlashInv
<1>2. v \in Validators /\ status[v] \in Statuses /\ sentence[v] \in Nat /\ Epoch(b) \in Nat
  BY <1>1, Parameters, EpochNat DEF SlashingTypeOK
<1> DEFINE s == [status[v] EXCEPT !.jailed = FALSE]
<1>3. s \in Statuses /\ s.permanent = status[v].permanent /\ s.offenses = status[v].offenses
  BY Zenon, <1>2 DEF Statuses
<1>4. /\ status' = [status EXCEPT ![v] = s]
      /\ banks' = banks /\ sentence' = sentence /\ banned' = banned
      /\ ~status[v].permanent /\ status[v].until <= Epoch(b) /\ status[v].until \in Nat
  BY <1>2 DEF Unjail, Statuses
<1> HIDE DEF s
<1>5. SlashingTypeOK' BY <1>1, <1>2, <1>3, <1>4 DEF SlashingTypeOK
<1>6. BanksClose' BY <1>1, <1>4 DEF BanksClose, Epoch
<1>7. Reached(sentence[v])
  <2>1. CASE sentence[v] <= status[v].until BY <2>1, <1>2, <1>4 DEF Reached
  <2>2. CASE Reached(sentence[v]) BY <2>2
  <2> QED BY <2>1, <2>2, <1>1, <1>2, <1>4 DEF Standing, StandingOf
<1>8. ASSUME NEW w \in Validators PROVE StandingOf(w)'
  <2>1. StandingOf(w) BY <1>1 DEF Standing
  <2>2. CASE w = v
    <3>1. status'[w] = s BY <2>2, <1>1, <1>4 DEF SlashingTypeOK
    <3> QED BY Zenon, <2>1, <2>2, <3>1, <1>3, <1>4, <1>7 DEF StandingOf, Reached, Epoch
  <2>3. CASE w # v
    <3>1. status'[w] = status[w] BY <2>3, <1>1, <1>4 DEF SlashingTypeOK
    <3> QED BY <2>1, <3>1, <1>4 DEF StandingOf, Reached, Epoch
  <2> QED BY <2>2, <2>3
<1> QED BY <1>5, <1>6, <1>8 DEF SlashInv, Standing

\* A node rebuilt from a snapshot starts with a clean record.
LEMMA NewFromSnapshotKeeps ==
  ASSUME SlashInv, NEW b \in banks, SlashingFromSnapshot(b)
  PROVE  SlashInv'
<1> DEFINE c == [b EXCEPT !.jailed = {}]
<1>1. SlashingTypeOK BY DEF SlashInv
<1>2. c \in [slot : Nat, votes : [Validators -> Nat], jailed : SUBSET Validators] /\ c.slot = b.slot
  BY <1>1 DEF SlashingTypeOK
<1>3. Epoch(c) \in Nat BY <1>1, <1>2, EpochNat DEF Epoch
<1>4. banks' = {c} BY DEF SlashingFromSnapshot
<1> HIDE DEF c
<1>5. SlashingTypeOK'
  BY <1>2, <1>4, Parameters DEF SlashingFromSnapshot, SlashingTypeOK, Statuses, DefaultStatus
<1>6. BanksClose' BY <1>3, <1>4, Parameters DEF BanksClose, Epoch
<1>7. Reached(0)' BY <1>3, <1>4 DEF Reached, Epoch
<1>8. ASSUME NEW v \in Validators PROVE StandingOf(v)'
  <2>1. status'[v] = DefaultStatus /\ sentence'[v] = 0 /\ banned' = {}
    BY DEF SlashingFromSnapshot
  <2>2. status'[v].offenses = 0 /\ ~ (status'[v].offenses >= MaxOffenses)
    BY SMT, <2>1, Parameters DEF DefaultStatus
  <2>3. Reached(sentence[v])'
    BY <1>7, <2>1 DEF Reached
  <2> QED BY <2>1, <2>2, <2>3 DEF StandingOf
<1> QED BY <1>5, <1>6, <1>8 DEF SlashInv, Standing

\* SlashInv is inductive.
LEMMA SlashStep == SlashInv /\ OnlyBans /\ [SlashingNext]_slashingVars => SlashInv'
<1> SUFFICES ASSUME SlashInv, OnlyBans, [SlashingNext]_slashingVars PROVE SlashInv'
  OBVIOUS
<1>1. CASE UNCHANGED slashingVars
  BY <1>1 DEF SlashInv, slashingVars, SlashingTypeOK, BanksClose, Standing, StandingOf, Reached, Epoch
<1>2. CASE SlashingNext
  BY <1>2, NewFromParentKeeps, PruneKeeps, SlashKeeps, UnjailKeeps, JailKeeps,
     NewFromSnapshotKeeps DEF SlashingNext
<1> QED BY <1>1, <1>2

-----------------------------------------------------------------------------
\* As long as the node runs, a banned validator stays out of the active set on
\* every fork (slash_validator, apply_jail, ActiveValidatorSet::compute).
THEOREM BansHold == ASSUME OnlyBans PROVE SlashingSpec => []BannedNeverActive
<1>1. SlashInv => BannedNeverActive
  BY Zenon DEF SlashInv, Standing, StandingOf, BannedNeverActive, Active, ActiveGiven,
         JailedSet, Excluded
<1> QED BY <1>1, SlashInit, SlashStep, PTL DEF SlashingSpec

\* A slashed validator is out of the active set until some bank has reached the
\* epoch its longest sentence ends in (apply_jail, unjail_validator,
\* check_offline_validators).
THEOREM SentencesAreServed == ASSUME OnlyBans PROVE SlashingSpec => []SentenceServed
<1>1. SlashInv => SentenceServed
  BY Zenon DEF SlashInv, Standing, StandingOf, SentenceServed, Reached, Active, ActiveGiven,
         JailedSet, Excluded
<1> QED BY <1>1, SlashInit, SlashStep, PTL DEF SlashingSpec

-----------------------------------------------------------------------------
\* The validators that are ranked before v among E.
Before(E, v) == {w \in E : RanksBefore(w, v)}

\* The validators ActiveValidatorSet::compute chooses from.
Eligible(jailed) == {v \in Validators : Stake[v] > 0 /\ v \notin jailed}

\* The ranking is a strict total order of the validators.
LEMMA RankingIsTotal ==
  ASSUME NEW u \in Validators, NEW v \in Validators, NEW w \in Validators
  PROVE  /\ ~ RanksBefore(v, v)
         /\ RanksBefore(u, v) /\ RanksBefore(v, w) => RanksBefore(u, w)
         /\ u # v => RanksBefore(u, v) \/ RanksBefore(v, u)
<1>1. /\ u \in Nat /\ v \in Nat /\ w \in Nat
      /\ Stake[u] \in Nat /\ Stake[v] \in Nat /\ Stake[w] \in Nat
  BY SlashingAssumption
<1> QED
  BY SMT, <1>1 DEF RanksBefore

\* Fewer validators are ranked before one that is itself ranked before v.
LEMMA EarlierRank ==
  ASSUME NEW E, E \subseteq Validators, NEW v \in E, NEW w \in E, RanksBefore(w, v)
  PROVE  /\ IsFiniteSet(Before(E, v)) /\ Cardinality(Before(E, v)) \in Nat
         /\ Cardinality(Before(E, w)) \in Nat
         /\ Cardinality(Before(E, w)) < Cardinality(Before(E, v))
<1>1. Before(E, v) \subseteq Validators /\ Before(E, w) \subseteq Before(E, v)
  BY RankingIsTotal DEF Before
<1>2. w \in Before(E, v) /\ w \notin Before(E, w)
  BY RankingIsTotal DEF Before
<1>3. IsFiniteSet(Before(E, v))
  BY <1>1, SlashingAssumption, FS_Subset
<1>4. /\ IsFiniteSet(Before(E, w)) /\ Cardinality(Before(E, w)) <= Cardinality(Before(E, v))
      /\ Cardinality(Before(E, v)) = Cardinality(Before(E, w)) => Before(E, v) = Before(E, w)
  BY <1>1, <1>3, FS_Subset
<1>5. Cardinality(Before(E, v)) \in Nat /\ Cardinality(Before(E, w)) \in Nat
  BY <1>3, <1>4, FS_CardinalityType
<1>6. Before(E, v) # Before(E, w)
  BY <1>2
<1> QED
  BY SMT, <1>3, <1>4, <1>5, <1>6

\* Every rank is a natural number.
LEMMA RankType ==
  ASSUME NEW E, E \subseteq Validators, NEW v
  PROVE  Cardinality(Before(E, v)) \in Nat /\ IsFiniteSet(Before(E, v))
<1>1. Before(E, v) \subseteq Validators
  BY DEF Before
<1> QED
  BY <1>1, SlashingAssumption, FS_Subset, FS_CardinalityType

\* The first k of E, and what compute returns.
First(E, k) == {v \in E : Cardinality(Before(E, v)) < k}

\* The first k of a set are at most k: they are the last of them and those
\* ranked before it.
LEMMA FirstAtMost ==
  ASSUME NEW E, E \subseteq Validators, NEW k \in Nat
  PROVE  IsFiniteSet(First(E, k)) /\ Cardinality(First(E, k)) \in 0..k
<1> DEFINE T == First(E, k)
           Ranks == {Cardinality(Before(E, v)) : v \in T}
<1>1. T \subseteq Validators /\ T \subseteq E
  BY DEF First
<1>2. IsFiniteSet(T) /\ Cardinality(T) \in Nat
  BY <1>1, SlashingAssumption, FS_Subset, FS_CardinalityType
<1>3. CASE T = {}
  BY SMT, <1>2, <1>3, FS_EmptySet
<1>4. CASE T # {}
  <2>1. Ranks \subseteq Nat /\ Ranks # {} /\ \A r \in Ranks : r <= k
    <3>1. \A v \in T : Cardinality(Before(E, v)) \in Nat /\ Cardinality(Before(E, v)) <= k
      BY SMT, RankType DEF First
    <3> QED
      BY <1>4, <3>1
  <2>2. PICK r \in Ranks : \A q \in Ranks : q <= r
    <3> HIDE DEF Ranks
    <3> QED
      BY Zenon, <2>1, GreatestNatural
  <2>3. PICK v \in T : r = Cardinality(Before(E, v))
    OBVIOUS
  <2>4. /\ Cardinality(Before(E, v)) \in Nat /\ IsFiniteSet(Before(E, v))
        /\ Cardinality(Before(E, v)) < k /\ v \in E
    BY <2>3, RankType DEF First
  <2>5. ASSUME NEW w \in T PROVE w \in Before(E, v) \cup {v}
    <3>1. Cardinality(Before(E, w)) \in Ranks
      OBVIOUS
    <3>2. Cardinality(Before(E, w)) <= Cardinality(Before(E, v)) /\ w \in E
      BY <1>1, <2>2, <2>3, <3>1
    <3> HIDE DEF Ranks, T
    <3>3. RanksBefore(v, w) => Cardinality(Before(E, v)) < Cardinality(Before(E, w))
      BY <2>4, <3>2, EarlierRank
    <3>4. ~ RanksBefore(v, w)
      BY SMT, <2>4, <3>2, <3>3, RankType
    <3>5. v \in Validators /\ w \in Validators
      BY <2>4, <3>2
    <3> QED
      BY <3>2, <3>4, <3>5, RankingIsTotal DEF Before
  <2>6. v \notin Before(E, v)
    BY <2>4, RankingIsTotal DEF Before
  <2>7. /\ IsFiniteSet(Before(E, v) \cup {v})
        /\ Cardinality(Before(E, v) \cup {v}) = Cardinality(Before(E, v)) + 1
    BY ONLY SMT, Zenon, Z3T(20), <2>4, <2>6, FS_AddElement
  <2>8. Cardinality(T) <= Cardinality(Before(E, v)) + 1
    <3>1. T \subseteq Before(E, v) \cup {v}
      BY <2>5
    <3> HIDE DEF T
    <3> QED
      BY <2>7, <3>1, FS_Subset
  <2> QED
    BY SMT, <1>2, <2>4, <2>8
<1> QED
  BY <1>3, <1>4

\* When the first k leave somebody of E out, they are exactly those ranked before
\* the first that is left out, who has at least k before it.
LEMMA FirstAreFull ==
  ASSUME NEW E, E \subseteq Validators, NEW k \in Nat, NEW x \in E, x \notin First(E, k)
  PROVE  Cardinality(First(E, k)) = k
<1> DEFINE Out == E \ First(E, k)
           Ranks == {Cardinality(Before(E, v)) : v \in Out}
<1>1. Ranks \subseteq Nat /\ Ranks # {}
  BY RankType
<1>2. PICK r \in Ranks : \A q \in Ranks : r <= q
  <2> HIDE DEF Ranks
  <2> QED
    BY Zenon, <1>1, LeastNatural
<1>3. PICK v \in Out : r = Cardinality(Before(E, v))
  OBVIOUS
<1>4. /\ v \in E /\ v \in Validators
      /\ Cardinality(Before(E, v)) \in Nat /\ ~(Cardinality(Before(E, v)) < k)
  BY <1>3, RankType DEF First
<1>5. ASSUME NEW w \in Before(E, v) PROVE w \in First(E, k)
  <2>1. w \in E /\ RanksBefore(w, v)
    BY DEF Before
  <2>2. Cardinality(Before(E, w)) < r /\ Cardinality(Before(E, w)) \in Nat /\ r \in Nat
    BY <1>3, <1>4, <2>1, EarlierRank
  <2>3. w \in Out => Cardinality(Before(E, w)) \in Ranks
    OBVIOUS
  <2>4. w \notin Out
    <3> HIDE DEF Ranks, Out
    <3> QED
      BY SMT, <1>2, <2>2, <2>3
  <2> QED
    BY <2>1, <2>4
<1>6. ASSUME NEW w \in First(E, k) PROVE w \in Before(E, v)
  <2>1. w \in E /\ w \in Validators /\ Cardinality(Before(E, w)) < k
    BY DEF First
  <2>2. w # v
    BY <1>4, <2>1
  <2>3. RanksBefore(v, w) => Cardinality(Before(E, v)) < Cardinality(Before(E, w))
    BY Zenon, <1>4, <2>1, EarlierRank
  <2>4. ~ RanksBefore(v, w)
    <3>1. Cardinality(Before(E, w)) \in Nat
      BY Zenon, <2>1, RankType
    <3>2. ~ (Cardinality(Before(E, v)) < Cardinality(Before(E, w)))
      <4> DEFINE a == Cardinality(Before(E, v))
                 b == Cardinality(Before(E, w))
      <4>1. a \in Nat /\ b \in Nat /\ b < k /\ ~ (a < k)
        BY Zenon, <1>4, <2>1, <3>1
      <4> HIDE DEF a, b
      <4>2. ~ (a < b)
        BY SMT, <4>1
      <4> QED
        BY Zenon, <4>2 DEF a, b
    <3> QED
      BY Zenon, <2>3, <3>2
  <2> QED
    BY <1>4, <2>1, <2>2, <2>4, RankingIsTotal DEF Before
<1>7. First(E, k) = Before(E, v)
  BY <1>5, <1>6
<1>8. Cardinality(First(E, k)) \in 0..k
  BY FirstAtMost
<1> QED
  BY SMT, <1>4, <1>7, <1>8

\* The active set is the Cap most staked of the validators that are not jailed,
\* in every state: the sort, the filter and the cut of compute.
THEOREM ActiveSetIsTheTop == SlashingSpec => []ActiveSetIsTop
<1> DEFINE E == Eligible(JailedSet)
<1>1. ActiveSetIsTop
  <2>1. Active = First(E, Cap) /\ E \subseteq Validators /\ Cap \in Nat
    BY SlashingAssumption DEF Active, ActiveGiven, First, Before, Eligible
  <2>2. \A v \in Validators : v \in E <=> Stake[v] > 0 /\ v \notin JailedSet
    BY DEF Eligible
  <2> HIDE DEF E
  <2>3. Cardinality(Active) <= Cap
    BY SMT, <2>1, FirstAtMost
  <2>4. ASSUME NEW v \in Active, NEW w \in Validators \ Active, w \notin JailedSet,
               ~(Stake[w] <= Stake[v])
        PROVE  FALSE
    <3>1. v \in E /\ v \in Validators /\ Cardinality(Before(E, v)) < Cap
      BY <2>1 DEF First
    <3>2. Stake[v] \in Nat /\ Stake[w] \in Nat /\ Stake[w] > Stake[v]
      BY SMT, <2>4, <3>1, SlashingAssumption
    <3>3. w \in E /\ RanksBefore(w, v)
      BY SMT, <2>2, <2>4, <3>2 DEF RanksBefore
    <3>4. /\ Cardinality(Before(E, w)) \in Nat /\ Cardinality(Before(E, v)) \in Nat
          /\ Cardinality(Before(E, w)) < Cardinality(Before(E, v))
      BY <2>1, <3>1, <3>3, EarlierRank
    <3>5. w \in First(E, Cap)
      BY SMT, <2>1, <3>1, <3>3, <3>4 DEF First
    <3> QED
      BY <2>1, <3>5
  <2>5. ASSUME NEW w \in Validators, Stake[w] > 0, w \notin JailedSet, w \notin Active
        PROVE  Cardinality(Active) = Cap
    BY <2>1, <2>2, <2>5, FirstAreFull
  <2> QED
    BY <2>3, <2>4, <2>5 DEF ActiveSetIsTop
<1> QED
  BY <1>1, PTL

=============================================================================
