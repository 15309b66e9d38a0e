--------------------------- MODULE TieredStorage ---------------------------
(***************************************************************************)
(* The hot cache in front of AccountsDb (accounts-db/src/accounts_db.rs,   *)
(* do_load and store_accounts_unfrozen, feature trv1-tiered-storage), its  *)
(* adapter and the maintenance thread that evicts from it.  The cache is   *)
(* the abstract LruCache that AccountCache implements; one cache serves    *)
(* every bank.                                                             *)
(*                                                                         *)
(* Banks form a tree; storage is what the accounts index and the write     *)
(* cache hold per bank, and a load sees the value of the latest ancestor.  *)
(* A worker executes a transaction on one account of one bank under the    *)
(* bank's account lock; a reader (RPC) loads without a lock.               *)
(***************************************************************************)
EXTENDS LruCache, FiniteSets

CONSTANTS Ancestors,   \* Ancestors[b]: the slots of bank b and of the banks it descends from
          Workers,     \* threads executing transactions
          Readers,     \* threads that only load
          Empty        \* the zero-lamport account, a member of Accounts

ASSUME StorageAssumption ==
  /\ Empty \in Accounts /\ Workers \cap Readers = {}
  /\ MemorySize \in [Accounts -> Nat \ {0}] /\ BatchSize \in Nat
  /\ \A b \in DOMAIN Ancestors :
       /\ b \in Nat \ {0} /\ b \in Ancestors[b]
       /\ \A c \in Ancestors[b] : /\ c \in DOMAIN Ancestors /\ c <= b
                                  /\ Ancestors[c] \subseteq Ancestors[b]

VARIABLES stored,        \* stored[b]: the accounts bank b has written
          thread,        \* thread[t]: where t is in do_load or the store
          exit, service  \* exit flag and state of the maintenance thread

hotVars == <<order, content, stored, thread, exit, service>>

Banks == DOMAIN Ancestors
Threads == Workers \cup Readers

\* Banks that are not frozen: those without descendants.
OpenBanks == {b \in Banks : \A c \in Banks : b \in Ancestors[c] => c = b}

\* A load result: an account, or none for a zero-lamport account.
None == "none"
Visible(a) == IF a = Empty THEN None ELSE a

\* What bank b sees for k without the hot cache: the entry of the highest slot
\* among its ancestors (latest_slot of the accounts index).
Canonical(b, k) ==
  LET latest == Max({c \in Ancestors[b] : k \in DOMAIN stored[c]})
  IN stored[latest][k]

Size == Bytes(Len(order))

Idle == [pc |-> "idle", bank |-> 0, key |-> None, value |-> None]

HotInit ==
  /\ LruInit
  /\ \E initial \in [Keys -> Accounts] :
       stored = [b \in Banks |-> IF Ancestors[b] = {b} THEN initial ELSE [k \in {} |-> None]]
  /\ thread = [t \in Threads |-> Idle]
  /\ exit = FALSE /\ service = "running"

Move(t, pc, b, k, v) ==
  thread' = [thread EXCEPT ![t] = [pc |-> pc, bank |-> b, key |-> k, value |-> v]]

\* The bank's account lock on k is free.
Unlocked(b, k) ==
  \A w \in Workers : ~(thread[w].pc # "idle" /\ thread[w].bank = b /\ thread[w].key = k)

MayStart(t, b, k) ==
  /\ thread[t].pc = "idle"
  /\ t \in Workers => b \in OpenBanks /\ Unlocked(b, k)

\* do_load, a hit: hot_cache_get promotes the entry and its account is returned.
LoadHit(t, b, k) ==
  /\ MayStart(t, b, k)
  /\ LruGet(k)
  /\ Move(t, "loaded", b, k, Visible(content[k]))
  /\ UNCHANGED <<stored, exit, service>>

\* do_load, a miss in the hot cache.
LoadMiss(t, b, k) ==
  /\ MayStart(t, b, k)
  /\ k \notin Cached
  /\ Move(t, "missed", b, k, None)
  /\ UNCHANGED <<order, content, stored, exit, service>>

\* Mutant: a bug that caches an account that is missing.
ReadStorageMissing(t) ==
  /\ thread[t].pc = "missed"
  /\ LET v == Canonical(thread[t].bank, thread[t].key)
     IN Move(t, "refill", thread[t].bank, thread[t].key, Visible(v))
  /\ UNCHANGED <<order, content, stored, exit, service>>

\* do_load_with_populate_read_cache: the account is read from storage by the
\* bank's ancestors; a zero-lamport account counts as missing.
ReadStorage(t) ==
  /\ thread[t].pc = "missed"
  /\ LET v == Canonical(thread[t].bank, thread[t].key)
     IN Move(t, IF v = Empty THEN "loaded" ELSE "refill",
             thread[t].bank, thread[t].key, Visible(v))
  /\ UNCHANGED <<order, content, stored, exit, service>>

\* do_load after a miss: the account read is put into the hot cache.
Refill(t) ==
  /\ thread[t].pc = "refill"
  /\ LruInsert(thread[t].key, thread[t].value)
  /\ thread' = [thread EXCEPT ![t].pc = "loaded"]
  /\ UNCHANGED <<stored, exit, service>>

\* store_accounts_unfrozen up to the index update.
Store(t, a) ==
  /\ t \in Workers /\ thread[t].pc = "loaded"
  /\ LET b == thread[t].bank
         k == thread[t].key
     IN stored' = [stored EXCEPT ![b] = [j \in DOMAIN @ \cup {k} |->
                                           IF j = k THEN a ELSE @[j]]]
  /\ Move(t, "publish", thread[t].bank, thread[t].key, a)
  /\ UNCHANGED <<order, content, exit, service>>

\* Mutant: a bug that stores without refreshing the cache.
PublishNot(t) ==
  /\ thread[t].pc = "publish"
  /\ thread' = [thread EXCEPT ![t] = Idle]
  /\ UNCHANGED <<order, content, stored, exit, service>>

\* store_accounts_unfrozen after the index update: hot_cache_insert.
Publish(t) ==
  /\ thread[t].pc = "publish"
  /\ LruInsert(thread[t].key, thread[t].value)
  /\ thread' = [thread EXCEPT ![t] = Idle]
  /\ UNCHANGED <<stored, exit, service>>

\* The transaction or the request ends without a store.
Finish(t) ==
  /\ thread[t].pc = "loaded"
  /\ thread' = [thread EXCEPT ![t] = Idle]
  /\ UNCHANGED <<order, content, stored, exit, service>>

NeedsEviction == Size > Watermark

\* Mutant: a bug that looks at the exit flag only between two evictions.
MaintainBusy ==
  /\ service = "running"
  /\ \/ exit /\ NeedsEviction /\ service' = "finished" /\ UNCHANGED <<order, content>>
     \/ ~exit /\ NeedsEviction /\ LruEvict /\ UNCHANGED service
  /\ UNCHANGED <<stored, thread, exit>>

\* run_loop of the maintenance service: leave when asked to, else one
\* maintenance_tick, whose maybe_evict evicts above the watermark.
Maintain ==
  /\ service = "running"
  /\ \/ exit /\ service' = "finished" /\ UNCHANGED <<order, content>>
     \/ ~exit /\ NeedsEviction /\ LruEvict /\ UNCHANGED service
  /\ UNCHANGED <<stored, thread, exit>>

\* MaintenanceService::stop or drop.
Stop ==
  /\ ~exit /\ exit' = TRUE
  /\ UNCHANGED <<order, content, stored, thread, service>>

HotNext ==
  \/ \E t \in Threads, b \in Banks, k \in Keys : LoadHit(t, b, k) \/ LoadMiss(t, b, k)
  \/ \E t \in Threads : ReadStorage(t) \/ Refill(t) \/ Publish(t) \/ Finish(t)
  \/ \E t \in Workers, a \in Accounts : Store(t, a)
  \/ Maintain
  \/ Stop

\* The maintenance thread is a running thread: it keeps taking steps.
HotFairness == WF_hotVars(Maintain)

HotSpec == HotInit /\ [][HotNext]_hotVars /\ HotFairness

-----------------------------------------------------------------------------
\* The shape of the store, the threads and the cache: the LRU order lists every
\* cached key once.
HotTypeOK ==
  /\ Cached \subseteq Keys /\ content \in [Cached -> Accounts]
  /\ Cardinality(Cached) = Len(order)
  /\ \A b \in Banks : DOMAIN stored[b] \subseteq Keys
                      /\ \A k \in DOMAIN stored[b] : stored[b][k] \in Accounts
  /\ thread \in [Threads -> [pc : {"idle", "missed", "refill", "loaded", "publish"},
                             bank : Banks \cup {0}, key : Keys \cup {None},
                             value : Accounts \cup {None}]]
  /\ exit \in BOOLEAN /\ service \in {"running", "finished"}

\* A transaction sees the account its bank stored last, as it would without the
\* hot cache (do_load: "The hot cache is a performance optimization").
LoadsMatchStorage ==
  \A t \in Workers :
    thread[t].pc = "loaded" =>
      thread[t].value = Visible(Canonical(thread[t].bank, thread[t].key))

\* A cache above its watermark is brought back below it unless the service is
\* stopped, however loads and stores keep filling it (maintenance_tick), and a
\* stop request ends the maintenance thread, so that join returns.
MaintenanceWorks ==
  /\ Size > Watermark ~> (Size <= Watermark \/ exit)
  /\ exit ~> service = "finished"
=============================================================================
