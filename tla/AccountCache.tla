---------------------------- MODULE AccountCache ----------------------------
(***************************************************************************)
(* The hot-tier cache of accounts-db/src/account_cache.rs: a hash map into *)
(* an arena of nodes that form a doubly linked list, with a stack of       *)
(* recycled slots.  The state is one record; an operation is an operator   *)
(* from a cache to a cache, built from alloc_node, push_head, unlink and   *)
(* move_to_head as in the code.  Statistics are left out.                  *)
(***************************************************************************)
EXTENDS Sequences, Sums

CONSTANTS CacheKeys, CacheAccounts, CacheMemory, CacheWatermark, CacheBatch,
          Policies,     \* eviction policies explored: "LRU", "LFU", "ARC"
          ScanDivisor,  \* LFU scans 1/ScanDivisor of the entries (4 in the code)
          MaxAccess     \* bound on access_count

ASSUME CacheAssumption ==
  /\ CacheMemory \in [CacheAccounts -> Nat \ {0}]
  /\ CacheWatermark \in Nat /\ CacheBatch \in Nat /\ ScanDivisor \in Nat \ {0}
  /\ Policies \subseteq {"LRU", "LFU", "ARC"} /\ MaxAccess \in Nat \ {0}

VARIABLES cache, policy

cacheVars == <<cache, policy>>

NIL == 0

EmptyCache ==
  [map |-> [k \in {} |-> NIL], nodes |-> <<>>, free |-> <<>>,
   head |-> NIL, tail |-> NIL, size |-> 0]

Node(k, a) == [key |-> k, account |-> a, access |-> 1, next |-> NIL, prev |-> NIL]

SizeAt(c, i) == CacheMemory[c.nodes[i].account]

SatSub(a, b) == IF a < b THEN 0 ELSE a - b

\* The index alloc_node hands out, and the arena afterwards.
AllocIndex(c) == IF c.free # <<>> THEN c.free[Len(c.free)] ELSE Len(c.nodes) + 1

AllocNode(c, node) ==
  IF c.free # <<>>
  THEN [c EXCEPT !.nodes[AllocIndex(c)] = node, !.free = SubSeq(@, 1, Len(@) - 1)]
  ELSE [c EXCEPT !.nodes = Append(@, node)]

PushHead(c, i) ==
  [c EXCEPT
     !.nodes = [j \in DOMAIN @ |->
                  IF j = i THEN [@[j] EXCEPT !.prev = NIL, !.next = c.head]
                  ELSE IF j = c.head THEN [@[j] EXCEPT !.prev = i] ELSE @[j]],
     !.head = i,
     !.tail = IF @ = NIL THEN i ELSE @]

\* Mutant: a bug that leaves the tail on a node that was moved away from it.
UnlinkKeepsTail(c, i) ==
  LET prev == c.nodes[i].prev
      next == c.nodes[i].next
  IN [c EXCEPT
        !.nodes = [j \in DOMAIN @ |->
                     IF j = i THEN [@[j] EXCEPT !.prev = NIL, !.next = NIL]
                     ELSE IF j = prev THEN [@[j] EXCEPT !.next = next]
                     ELSE IF j = next THEN [@[j] EXCEPT !.prev = prev] ELSE @[j]],
        !.head = IF prev = NIL THEN next ELSE @]

Unlink(c, i) ==
  LET prev == c.nodes[i].prev
      next == c.nodes[i].next
  IN [c EXCEPT
        !.nodes = [j \in DOMAIN @ |->
                     IF j = i THEN [@[j] EXCEPT !.prev = NIL, !.next = NIL]
                     ELSE IF j = prev THEN [@[j] EXCEPT !.next = next]
                     ELSE IF j = next THEN [@[j] EXCEPT !.prev = prev] ELSE @[j]],
        !.head = IF prev = NIL THEN next ELSE @,
        !.tail = IF next = NIL THEN prev ELSE @]

\* Mutant: a bug that leaves a used entry where it is.
MoveToHeadNever(c, i) == c

MoveToHead(c, i) == IF i = c.head THEN c ELSE PushHead(Unlink(c, i), i)

-----------------------------------------------------------------------------
\* Drop the node at i: unmap, unlink, recycle and uncharge it.
Release(c, i) ==
  LET u == Unlink(c, i)
  IN [u EXCEPT !.map = Restrict(@, DOMAIN @ \ {c.nodes[i].key}),
               !.free = Append(@, i),
               !.size = SatSub(@, SizeAt(c, i))]

GetIn(c, k) ==
  LET i == c.map[k]
  IN MoveToHead([c EXCEPT !.nodes[i].access = @ + 1], i)

InsertIn(c, k, a) ==
  IF k \in DOMAIN c.map
  THEN LET i == c.map[k]
       IN MoveToHead([c EXCEPT !.nodes[i].account = a, !.nodes[i].access = 1,
                               !.size = SatSub(@, SizeAt(c, i)) + CacheMemory[a]], i)
  ELSE LET i == AllocIndex(c)
           d == PushHead(AllocNode(c, Node(k, a)), i)
       IN [d EXCEPT !.map = [j \in DOMAIN @ \cup {k} |-> IF j = k THEN i ELSE @[j]],
                    !.size = @ + CacheMemory[a]]

RemoveFrom(c, k) == Release(c, c.map[k])

ScanLimit(c) == Max({1, Cardinality(DOMAIN c.map) \div ScanDivisor})

\* evict_lfu's scan: the slots met when following next from the tail, NIL once
\* the list has ended.
Scan(c) ==
  LET cursor[n \in 0..ScanLimit(c) - 1] ==
        IF n = 0 THEN c.tail
        ELSE IF cursor[n - 1] = NIL THEN NIL ELSE c.nodes[cursor[n - 1]].next
  IN cursor

\* The first scanned entry with the fewest accesses.
LeastUsed(c) ==
  LET scan == Scan(c)
      met == {n \in DOMAIN scan : scan[n] # NIL}
      Access(n) == c.nodes[scan[n]].access
  IN scan[Min({n \in met : \A m \in met : Access(n) <= Access(m)})]

Victim(c, p) == IF p = "LFU" THEN LeastUsed(c) ELSE c.tail

\* evict_lru and evict_lfu: release victims until the rest fits or the batch
\* is full.
EvictOne(c, p) ==
  IF c.size <= CacheWatermark \/ c.tail = NIL THEN c ELSE Release(c, Victim(c, p))

Evicted(c, p) ==
  LET evicted[n \in 0..CacheBatch] ==
        IF n = 0 THEN c ELSE EvictOne(evicted[n - 1], p)
  IN evicted[CacheBatch]

-----------------------------------------------------------------------------
CacheInit == cache = EmptyCache /\ policy \in Policies

CacheGet(k) ==
  /\ k \in DOMAIN cache.map
  /\ cache.nodes[cache.map[k]].access < MaxAccess
  /\ cache' = GetIn(cache, k)
  /\ UNCHANGED policy

CacheInsert(k, a) == cache' = InsertIn(cache, k, a) /\ UNCHANGED policy

CacheRemove(k) ==
  /\ k \in DOMAIN cache.map
  /\ cache' = RemoveFrom(cache, k)
  /\ UNCHANGED policy

EvictToWarm == cache' = Evicted(cache, policy) /\ UNCHANGED policy

CacheNext ==
  \/ \E k \in CacheKeys : CacheGet(k) \/ CacheRemove(k)
  \/ \E k \in CacheKeys, a \in CacheAccounts : CacheInsert(k, a)
  \/ EvictToWarm

CacheSpec == CacheInit /\ [][CacheNext]_cacheVars

-----------------------------------------------------------------------------
\* The list of slots that the links of c stand for, read in either direction.
Linked(c, list) ==
  /\ IF Len(list) = 0 THEN c.head = NIL /\ c.tail = NIL
     ELSE /\ c.head = list[1] /\ c.nodes[c.head].prev = NIL
          /\ c.tail = list[Len(list)] /\ c.nodes[c.tail].next = NIL
  /\ \A n \in 1..Len(list) - 1 : /\ c.nodes[list[n]].next = list[n + 1]
                                 /\ c.nodes[list[n + 1]].prev = list[n]

\* The lists of as many slots as are in use.
Lists(c) == [1..Len(c.nodes) - Len(c.free) -> DOMAIN c.nodes]

List(c) == CHOOSE list \in Lists(c) : Linked(c, list)

\* The shape of the arena: every index points into it, and an entry that is
\* cached was counted as accessed when it was inserted.
CacheTypeOK ==
  /\ policy \in Policies
  /\ DOMAIN cache.map \subseteq CacheKeys /\ cache.size \in Nat
  /\ {cache.head, cache.tail} \subseteq 0..Len(cache.nodes)
  /\ \A i \in DOMAIN cache.nodes :
       /\ {cache.nodes[i].next, cache.nodes[i].prev} \subseteq 0..Len(cache.nodes)
       /\ cache.nodes[i].key \in CacheKeys /\ cache.nodes[i].account \in CacheAccounts
       /\ cache.nodes[i].access \in 1..MaxAccess

\* The bytes of the mapped accounts.
Charged(c) == SumOver([k \in DOMAIN c.map |-> SizeAt(c, c.map[k])], DOMAIN c.map)

\* The arena is never corrupted: the links read the same in both directions,
\* every slot is either on the list or on the free list and once only, the map
\* points at exactly the listed nodes, and the charged size is their sum.
ArenaSound ==
  \E list \in Lists(cache) :
    /\ Linked(cache, list) /\ IsInjective(list) /\ IsInjective(cache.free)
    /\ Range(list) \cap Range(cache.free) = {}
    /\ Range(list) \cup Range(cache.free) = DOMAIN cache.nodes
    /\ Range(cache.map) = Range(list)
    /\ \A k \in DOMAIN cache.map : cache.nodes[cache.map[k]].key = k
    /\ cache.size = Charged(cache)

\* The cached keys, from the most to the least recently used, and the accounts.
KeyOrder(c) ==
  LET list == List(c) IN [n \in 1..Len(list) |-> c.nodes[list[n]].key]
Content(c) == [k \in DOMAIN c.map |-> c.nodes[c.map[k]].account]

\* The arena implements the abstract LRU cache, under every policy.
Lru == INSTANCE LruCache WITH
         Keys <- CacheKeys, Accounts <- CacheAccounts, MemorySize <- CacheMemory,
         Watermark <- CacheWatermark, BatchSize <- CacheBatch,
         order <- KeyOrder(cache), content <- Content(cache)

\* Seen as a sequence of keys, newest first, every call of the arena is a call
\* of the abstract cache: get and insert move a key to the front, evict_to_warm
\* takes keys until the charged size fits (account_cache.rs).
ImplementsLru == Lru!LruSpec

\* Does not hold. What the comment in evict_lfu says of an eviction: the entry
\* it takes has the lowest access count among the bottom quarter of the entries
\* in LRU order.
LfuTakesLeastUsed ==
  (policy = "LFU" /\ cache.size > CacheWatermark) =>
    LET list == List(cache)
        bottom == {list[n] : n \in {m \in DOMAIN list :
                                      Len(list) - m < ScanLimit(cache)}}
    IN \A i \in bottom :
         cache.nodes[Victim(cache, policy)].access <= cache.nodes[i].access
=============================================================================
