----------------------------- MODULE FeeMarket -----------------------------
(***************************************************************************)
(* The EIP-1559 base fee as the runtime computes it.  A bank carries a     *)
(* BlockFeeState (fee-market/src/state.rs); a child bank derives its state *)
(* from its parent's (runtime/src/bank/trv1_fee_integration.rs), commits   *)
(* add the compute units they used, and a bank rebuilt from a snapshot     *)
(* starts again from the genesis state (runtime/src/bank.rs).              *)
(*                                                                         *)
(* Several nodes replay one chain.  ledger[h] is the number of compute     *)
(* units block h consumes; block 0 is the genesis bank and is empty.  Only *)
(* the newest bank of a node matters, since a child reads its parent alone.*)
(***************************************************************************)
EXTENDS Saturating, Sequences

CONSTANTS Nodes,        \* the nodes that replay the chain
          Restarting,   \* those that may be rebuilt from a snapshot
          MinBaseFee, MaxBaseFee, TargetPct, MaxBlockCU, Denominator,
          BlockGas,     \* the compute units a block may consume in total
          BatchGas,     \* the compute units one committed batch may consume
          MaxHeight     \* bound on the length of the chain

ASSUME ConfigAssumption ==
  /\ MinBaseFee \in Nat /\ MaxBaseFee \in Nat /\ U64Max \in Nat
  /\ TargetPct \in Nat /\ MaxBlockCU \in Nat /\ Denominator \in Nat \ {0}
  /\ MinBaseFee <= MaxBaseFee /\ MaxBaseFee <= U64Max
  /\ TargetPct <= 100 /\ MaxBlockCU <= U64Max
  /\ MaxBlockCU * TargetPct <= U64Max

ASSUME InstanceAssumption ==
  /\ BlockGas \subseteq 0..MaxBlockCU /\ BatchGas \subseteq Nat \ {0}
  /\ MaxHeight \in Nat /\ Restarting \subseteq Nodes

VARIABLES ledger,    \* compute units of blocks 1, 2, ...
          slot,      \* slot[n]: the height of n's newest bank
          fee,       \* fee[n]: the BlockFeeState of that bank
          origin     \* origin[n]: the block n was started from

feeMarketVars == <<ledger, slot, fee, origin>>

Clamp(v) ==
  IF v < MinBaseFee THEN MinBaseFee ELSE IF v > MaxBaseFee THEN MaxBaseFee ELSE v

TargetGas == (MaxBlockCU * TargetPct) \div 100

\* The products are u128 in the code: two u64 factors never saturate them.
Share(current, gas) == (current * gas) \div (TargetGas * Denominator)

\* Mutant: a bug that rounds a small rise down to nothing.
IncreaseMayBeZero(current, gas) == Share(current, gas - TargetGas)

Increase(current, gas) ==
  LET d == Share(current, gas - TargetGas) IN IF d < 1 THEN 1 ELSE d

Decrease(current, gas) == Share(current, TargetGas - gas)

\* calculate_next_base_fee, for a fee state with this base fee and parent gas.
NextBaseFee(current, gas) ==
  IF TargetGas = 0
  THEN IF gas > 0 THEN MaxBaseFee ELSE Clamp(current)
  ELSE Clamp(IF gas = TargetGas THEN current
             ELSE IF gas > TargetGas THEN SatAdd(current, Increase(current, gas))
             ELSE SatSub(current, Decrease(current, gas)))

GenesisFee ==
  [base |-> MinBaseFee, parentGas |-> 0, gas |-> 0, height |-> 0]

\* Mutant: a bug that forgets to carry the parent's consumption over.
ChildFeeForgetsGas(state, height) ==
  [base |-> NextBaseFee(state.base, state.parentGas),
   parentGas |-> state.parentGas, gas |-> 0, height |-> height]

ChildFee(state, height) ==
  [base |-> NextBaseFee(state.base, state.parentGas),
   parentGas |-> state.gas, gas |-> 0, height |-> height]

RecordGas(state, cu) == [state EXCEPT !.gas = SatAdd(@, cu)]

FeeMarketInit ==
  /\ ledger = <<>>
  /\ slot = [n \in Nodes |-> 0]
  /\ fee = [n \in Nodes |-> GenesisFee]
  /\ origin = [n \in Nodes |-> 0]

\* The compute units of block h; the genesis block and a block a node did
\* not execute itself since its start count as empty for it.
GasSince(start, h) == IF h > start /\ h > 0 THEN ledger[h] ELSE 0

\* n has executed every transaction of its newest bank.
Complete(n) == fee[n].gas = GasSince(origin[n], slot[n])

\* A leader produces the next block.
ProduceBlock(gas) ==
  /\ Len(ledger) < MaxHeight
  /\ ledger' = Append(ledger, gas)
  /\ UNCHANGED <<slot, fee, origin>>

\* Mutant: a bug that opens a bank for a slot no block was produced for.
BaseFeeFromParentAhead(n) ==
  /\ Complete(n)
  /\ slot' = [slot EXCEPT ![n] = @ + 1]
  /\ fee' = [fee EXCEPT ![n] = ChildFee(@, slot[n] + 1)]
  /\ UNCHANGED <<ledger, origin>>

\* Bank::new_from_parent on the newest bank of n, which is frozen first.
BaseFeeFromParent(n) ==
  /\ slot[n] < Len(ledger) /\ Complete(n)
  /\ slot' = [slot EXCEPT ![n] = @ + 1]
  /\ fee' = [fee EXCEPT ![n] = ChildFee(@, slot[n] + 1)]
  /\ UNCHANGED <<ledger, origin>>

\* commit_transactions: a batch of the block's transactions was executed.
CommitTransactions(n, cu) ==
  /\ slot[n] > origin[n]
  /\ fee[n].gas + cu <= ledger[slot[n]]
  /\ fee' = [fee EXCEPT ![n] = RecordGas(@, cu)]
  /\ UNCHANGED <<ledger, slot, origin>>

\* The node is rebuilt from a snapshot of one of its frozen banks.
BaseFeeFromSnapshot(n, h) ==
  /\ h \in 1..slot[n] /\ (h = slot[n] => Complete(n))
  /\ slot' = [slot EXCEPT ![n] = h]
  /\ fee' = [fee EXCEPT ![n] = GenesisFee]
  /\ origin' = [origin EXCEPT ![n] = h]
  /\ UNCHANGED ledger

FeeMarketNext ==
  \/ \E gas \in BlockGas : ProduceBlock(gas)
  \/ \E n \in Nodes : BaseFeeFromParent(n)
  \/ \E n \in Nodes, cu \in BatchGas : CommitTransactions(n, cu)
  \/ \E n \in Restarting, h \in 1..MaxHeight : BaseFeeFromSnapshot(n, h)

FeeMarketSpec == FeeMarketInit /\ [][FeeMarketNext]_feeMarketVars

-----------------------------------------------------------------------------
FeeStates == [base : Nat, parentGas : Nat, gas : Nat, height : Nat]

\* The shape of the nodes: a bank lies on the ledger, at or after the bank its
\* node was started from.
FeeMarketTypeOK ==
  /\ ledger \in Seq(0..MaxBlockCU) /\ Len(ledger) <= MaxHeight
  /\ slot \in [Nodes -> Nat] /\ origin \in [Nodes -> Nat]
  /\ fee \in [Nodes -> FeeStates]
  /\ \A n \in Nodes : origin[n] <= slot[n] /\ slot[n] <= Len(ledger)

\* The base fee of every bank lies within the configured bounds, and the
\* consumption it remembers within the block limit (calculator.rs, clamp).
FeeInRange ==
  \A n \in Nodes : /\ fee[n].base \in MinBaseFee..MaxBaseFee
                   /\ fee[n].gas <= MaxBlockCU /\ fee[n].parentGas <= MaxBlockCU

\* The base fee of block h for a node that was started from block start: it
\* moves with the consumption of the block BEFORE the parent, and blocks up to
\* the start count as empty.
BaseSince(start, h) ==
  LET Base[k \in 0..h] ==
        IF k <= start THEN MinBaseFee
        ELSE NextBaseFee(Base[k - 1], GasSince(start, k - 2))
  IN Base[h]

\* The base fee of a node's newest bank is a function of the chain since the
\* node's start, so that nodes started from one block always agree
\* (calculate_base_fee_from_parent, record_compute_units).
BaseFeeFollowsChain == \A n \in Nodes : fee[n].base = BaseSince(origin[n], slot[n])

\* A block over target raises the base fee of its grandchild by at least one
\* and at most by 1/denominator, unless a bound stops it, and an empty block
\* lowers it (the min of 1 in calculate_next_base_fee and its doc comment).
BaseFeeMoves ==
  [][\A n \in Nodes :
       (slot'[n] = slot[n] + 1) =>
         LET old == fee[n].base
             new == fee'[n].base
             step == IF old < Denominator THEN 1 ELSE old \div Denominator
         IN /\ fee[n].parentGas > TargetGas /\ old < MaxBaseFee => new > old
            /\ fee[n].parentGas = 0 /\ old > MinBaseFee => new < old
            /\ new <= old + step /\ old <= new + step]_feeMarketVars

\* Does not hold. What fee-market/src/state.rs says of the state:
\* parent_gas_used "is the value that was used to derive `base_fee_per_cu`".
DerivedFromParentGas ==
  [][\A n \in Nodes :
       (slot'[n] = slot[n] + 1) =>
         fee'[n].base = NextBaseFee(fee[n].base, fee'[n].parentGas)]_feeMarketVars

\* Does not hold. What bank.rs says of a bank rebuilt from a snapshot: its fee
\* state is recomputed when it becomes a parent, so its children have the base
\* fee that every other node computes for the same block.
RecomputedAfterSnapshot ==
  \A m, n \in Nodes :
    (slot[m] = slot[n] /\ slot[m] > origin[m] /\ slot[n] > origin[n])
      => fee[m].base = fee[n].base
=============================================================================
