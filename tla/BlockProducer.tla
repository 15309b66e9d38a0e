--------------------------- MODULE BlockProducer ---------------------------
(***************************************************************************)
(* The block producer of the BFT service beside the replay stage.          *)
(*                                                                         *)
(* core/src/validator.rs starts the consensus service next to the replay   *)
(* stage, and both grow the one BankForks.  The service proposes blocks    *)
(* from a channel of transaction batches (create_block) and turns each     *)
(* committed block into a bank (execute_block); the replay stage makes a   *)
(* bank for every slot of the ledger whose parent is frozen and replays    *)
(* its entries.  The BankForks lock is taken and released inside both, so  *)
(* their critical sections are the steps that interleave here.             *)
(*                                                                         *)
(* What the engine decides is modelled by ConsensusEngine; here a height   *)
(* may be proposed any number of times and may be decided at any time.     *)
(* Neither set_root nor the leader's own PoH banks are modelled.           *)
(***************************************************************************)
EXTENDS Integers, FiniteSets, Sequences

CONSTANTS
    Batches,            \* batches the ingress may send, each once
    MaxTransactions,    \* max_transactions_per_block
    LedgerParent,       \* the slots in the blockstore and their parents
    Startup,            \* sets of slots loaded before the service starts
    Entries,            \* entries in a ledger slot
    MaxHeight           \* bound: heights committed

Transactions == UNION {{b[i] : i \in DOMAIN b} : b \in Batches}

ASSUME ProducerAssumption ==
    /\ Batches \subseteq Seq(Transactions)
    /\ MaxTransactions \in Nat \ {0} /\ Entries \in Nat \ {0}
    /\ IsFiniteSet(DOMAIN LedgerParent) /\ DOMAIN LedgerParent \subseteq Nat
    /\ \A s \in DOMAIN LedgerParent : LedgerParent[s] \in 0 .. s - 1
    /\ \A S \in Startup :
        /\ 0 \in S
        /\ \A s \in S \ {0} : s \in DOMAIN LedgerParent /\ LedgerParent[s] \in S

VARIABLES
    queue,      \* transaction_receiver
    unsent,     \* batches the ingress has not sent
    block,      \* transactions of this node's last proposal
    banks,      \* slot -> bank, the BankForks
    height,     \* the height being decided
    committed,  \* what execute_block reported: height, slot and bank hash
    exec,       \* execute_block: where it is, with which parent and child
    replay,     \* the replay stage: where it is, with which slots
    panicked    \* the assertion that stopped the validator

producerVars == <<queue, unsent, block, banks, height, committed, exec, replay, panicked>>

Root == 0

Default == -1       \* Hash::default(); a frozen bank's hash stands for its slot

ServiceIdle == [at |-> "consensus", parent |-> Root]

ReplayIdle == [at |-> "idle", slots |-> {}]

Bank(parent, left, frozen) == [parent |-> parent, left |-> left, frozen |-> frozen]

Hash(slot, bank) == IF bank.frozen THEN slot ELSE Default

\* BankForks::working_bank
WorkingSlot == CHOOSE s \in DOMAIN banks : \A t \in DOMAIN banks : t <= s

Frozen == {s \in DOMAIN banks : banks[s].frozen}

ProducerInit ==
    /\ queue = <<>> /\ unsent = Batches /\ block = <<>>
    /\ \E S \in Startup : banks = [s \in S |->
            Bank(IF s = Root THEN Root ELSE LedgerParent[s], 0, TRUE)]
    /\ height = Root + 1
    /\ committed = {}
    /\ exec = ServiceIdle
    /\ replay = ReplayIdle
    /\ panicked = "no"

\* The banking ingress sends a batch of transactions.
SendBatch ==
    /\ \E b \in unsent : queue' = Append(queue, b) /\ unsent' = unsent \ {b}
    /\ UNCHANGED <<block, banks, height, committed, exec, replay, panicked>>

----------------------------------------------------------------------------
(* The consensus service's thread.                                         *)

\* The transactions of the first n batches, in order.
FirstBatches(q, n) ==
    LET joined[m \in 0 .. Len(q)] == IF m = 0 THEN <<>> ELSE joined[m - 1] \o q[m]
    IN joined[n]

\* Mutant: one more batch is taken when the block is full.
DrainedPastFull(q) ==
    CHOOSE n \in 0 .. Len(q) :
        /\ \A m \in 0 .. n - 1 : Len(FirstBatches(q, m)) <= MaxTransactions
        /\ n < Len(q) => Len(FirstBatches(q, n)) > MaxTransactions

\* How many batches the drain consumes: it stops at a full block.
Drained(q) ==
    CHOOSE n \in 0 .. Len(q) :
        /\ \A m \in 0 .. n - 1 : Len(FirstBatches(q, m)) < MaxTransactions
        /\ n < Len(q) => Len(FirstBatches(q, n)) >= MaxTransactions

\* Mutant: the last batch is taken whole.
TakenWhole(txs) == txs

\* The last batch is cut to what still fits.
Taken(txs) == SubSeq(txs, 1, IF Len(txs) < MaxTransactions THEN Len(txs) ELSE MaxTransactions)

\* create_block: at the start of a height, or of a round, this node leads.
CreateBlock ==
    /\ exec.at = "consensus" /\ height <= MaxHeight
    /\ LET n == Drained(queue) IN
        /\ block' = Taken(FirstBatches(queue, n))
        /\ queue' = SubSeq(queue, n + 1, Len(queue))
    /\ UNCHANGED <<unsent, banks, height, committed, exec, replay, panicked>>

\* execute_block up to drop(bank_forks): the engine has decided a block.
ExecuteBlock ==
    /\ exec.at = "consensus" /\ height <= MaxHeight
    /\ exec' = [at |-> "unlocked", parent |-> WorkingSlot]
    /\ UNCHANGED <<queue, unsent, block, banks, height, committed, replay, panicked>>

\* Mutant: the parent is left open.
MakeChildOnly ==
    /\ exec.at = "unlocked"
    /\ exec' = [exec EXCEPT !.at = "child"]
    /\ UNCHANGED <<queue, unsent, block, banks, height, committed, replay, panicked>>

\* Bank::new_from_parent freezes the parent, whoever is working on it.
MakeChild ==
    /\ exec.at = "unlocked"
    /\ exec' = [exec EXCEPT !.at = "child"]
    /\ banks' = [banks EXCEPT ![exec.parent].frozen = TRUE]
    /\ UNCHANGED <<queue, unsent, block, height, committed, replay, panicked>>

\* hash, freeze and BankForks::insert, which asserts that the slot is new;
\* the service then goes to the next height.
InsertChild ==
    /\ exec.at = "child"
    /\ LET slot == exec.parent + 1
           child == Bank(exec.parent, 0, FALSE) IN
        IF slot \in DOMAIN banks
        THEN /\ panicked' = "insert"
             /\ UNCHANGED <<banks, height, committed, exec>>
        ELSE /\ banks' = [s \in DOMAIN banks \union {slot} |->
                    IF s = slot THEN Bank(exec.parent, 0, TRUE) ELSE banks[s]]
             /\ committed' = committed \union
                    {[height |-> height, slot |-> slot, hash |-> Hash(slot, child)]}
             /\ height' = height + 1
             /\ exec' = ServiceIdle
             /\ UNCHANGED panicked
    /\ UNCHANGED <<queue, unsent, block, replay>>

----------------------------------------------------------------------------
(* The replay stage's thread.                                              *)

\* generate_new_bank_forks under its read lock.
GenerateForks ==
    /\ replay.at = "idle"
    /\ LET new == {s \in DOMAIN LedgerParent \ DOMAIN banks : LedgerParent[s] \in Frozen} IN
        /\ new # {}
        /\ replay' = [at |-> "forks", slots |-> new]
    /\ UNCHANGED <<queue, unsent, block, banks, height, committed, exec, panicked>>

\* generate_new_bank_forks under its write lock.
InsertForks ==
    /\ replay.at = "forks"
    /\ IF replay.slots \intersect DOMAIN banks # {}
       THEN panicked' = "insert" /\ UNCHANGED <<banks, replay>>
       ELSE /\ banks' = [s \in DOMAIN banks \union replay.slots |->
                    IF s \in replay.slots THEN Bank(LedgerParent[s], Entries, FALSE) ELSE banks[s]]
            /\ replay' = ReplayIdle
            /\ UNCHANGED panicked
    /\ UNCHANGED <<queue, unsent, block, height, committed, exec>>

\* replay_active_banks reads which banks are not frozen.
ReplayActiveBanks ==
    /\ replay.at = "idle"
    /\ \E s \in DOMAIN banks \ Frozen : replay' = [at |-> "replay", slots |-> {s}]
    /\ UNCHANGED <<queue, unsent, block, banks, height, committed, exec, panicked>>

\* An entry is committed, which asserts that the bank is not frozen; the last
\* one completes the bank and process_replay_results freezes it.
ReplayEntry ==
    /\ replay.at = "replay"
    /\ \E s \in replay.slots :
        IF banks[s].frozen
        THEN panicked' = "commit" /\ UNCHANGED <<banks, replay>>
        ELSE /\ banks' = [banks EXCEPT ![s] =
                    Bank(banks[s].parent, banks[s].left - 1, banks[s].left = 1)]
             /\ replay' = ReplayIdle
             /\ UNCHANGED panicked
    /\ UNCHANGED <<queue, unsent, block, height, committed, exec>>

ProducerNext ==
    /\ panicked = "no"
    /\ \/ SendBatch
       \/ CreateBlock \/ ExecuteBlock \/ MakeChild \/ InsertChild
       \/ GenerateForks \/ InsertForks \/ ReplayActiveBanks \/ ReplayEntry

ProducerSpec == ProducerInit /\ [][ProducerNext]_producerVars

----------------------------------------------------------------------------
(* Properties.                                                             *)

\* Types.  A proposal holds at most max_transactions_per_block transactions.
ProducerTypeOK ==
    /\ queue \in Seq(Batches) /\ unsent \subseteq Batches
    /\ Len(block) <= MaxTransactions
    /\ \A s \in DOMAIN banks : banks[s] \in
            [parent : DOMAIN banks, left : 0 .. Entries, frozen : BOOLEAN]
    /\ height \in 1 .. MaxHeight + 1
    /\ \A c \in committed : c.height < height /\ c.slot \in DOMAIN banks
    /\ exec.at \in {"consensus", "unlocked", "child"} /\ exec.parent \in DOMAIN banks
    /\ replay.at \in {"idle", "forks", "replay"} /\ replay.slots \subseteq DOMAIN LedgerParent
    /\ panicked \in {"no", "insert", "commit"}

\* Whichever of the two threads made it, a bank's parent is frozen: the state
\* it inherited can no longer change under it (new_from_parent freezes the
\* parent, generate_new_bank_forks starts from frozen banks).
ParentsAreFrozen ==
    \A s \in DOMAIN banks \ {Root} : banks[s].parent < s /\ banks[banks[s].parent].frozen

\* Proposing takes transactions in the order they were sent, and what it takes
\* from the channel without proposing it is only the tail of a batch the block
\* holds a part of (the take(remaining) of create_block).
DrainKeepsOrder ==
    [][queue' # queue /\ Len(queue') <= Len(queue) =>
        LET n == Len(queue) - Len(queue')
            txs == FirstBatches(queue, n) IN
        /\ queue' = SubSeq(queue, n + 1, Len(queue))
        /\ block' = SubSeq(txs, 1, Len(block'))
        /\ block' # txs => /\ Len(block') = MaxTransactions
                           /\ Len(txs) - Len(block') < Len(queue[n])]_producerVars

\* Does not hold. "for now height IS the slot" (execute_block).
HeightIsTheSlot == \A c \in committed : c.height = c.slot

\* Does not hold. "Returns the bank hash of the committed block."
\* (execute_block).
ReturnsCommittedHash == \A c \in committed : c.hash = Hash(c.slot, banks[c.slot])

\* Does not hold. BankForks::insert asserts that no bank of the slot was there.
InsertedOnce == panicked # "insert"

\* Does not hold. commit_transactions asserts that the bank is not frozen.
NoCommitAfterFreeze == panicked # "commit"
============================================================================
