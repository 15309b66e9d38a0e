---------------------------- MODULE AccountProofs ----------------------------
(***************************************************************************)
(* Proofs about what accounts hold: a revival returns what was archived    *)
(* (StateRent), a transaction loads from the hot cache what it would load  *)
(* from storage (TieredStorage over LruCache), and the proposals, ids and  *)
(* vote records of governance agree (Governance).                          *)
(***************************************************************************)
EXTENDS StateRent, TieredStorage, Governance, CommonProofs

\* How a leaf is tried: Zenon for a second, which is cheap, then the SMT solver
\* and Zenon in turn, and the SMT solver once more with more time.
USE ZenonT(1), SMT, Zenon, Z3T(20)

-----------------------------------------------------------------------------
(* The archive: revivals.                                                  *)

\* Accounts as they are stored: written by a transaction or revived.
StoredAccounts == [data : Contents, exempt : BOOLEAN, rentEpoch : {"MAX", "0"}]

\* The metadata was made from an account with the key.
MadeFrom(meta, k) ==
  /\ meta.account \in StoredAccounts
  /\ meta.hash = AccountHash(k, meta.account)

\* Every complete file and every offered account is an account, and the hash in
\* the metadata, on its way to the index or there, is the one of the account
\* the metadata was made from.  The file of a key need not hold that account.
RevivalInv ==
  /\ live \in [RentKeys -> StoredAccounts]
  /\ DOMAIN touched = RentKeys /\ DOMAIN file = RentKeys
  /\ DOMAIN index = RentKeys /\ DOMAIN archiver = Archivers
  /\ \A k \in RentKeys : file[k] \notin {Missing, Torn} => file[k] \in StoredAccounts
  /\ \A k \in RentKeys : index[k] # Missing => MadeFrom(index[k], k)
  /\ \A t \in Archivers :
       /\ archiver[t].at \in {"offered", "writing", "written"} => archiver[t].key \in RentKeys
       /\ archiver[t].at \in {"offered", "writing"} => archiver[t].account \in StoredAccounts
       /\ archiver[t].at \in {"writing", "written"} => MadeFrom(archiver[t].meta, archiver[t].key)
  /\ RevivedIsArchived

\* The hash tells two accounts apart that differ in more than the rent epoch
\* (compute_account_hash).
LEMMA HashIdentifies ==
  ASSUME NEW k, NEW a \in StoredAccounts, NEW b \in StoredAccounts,
         AccountHash(k, Deserialized(a)) = AccountHash(k, b)
  PROVE  /\ Deserialized(a) = Deserialized(b)
         /\ Deserialized(a) \in StoredAccounts
<1>1. /\ Deserialized(a).data = a.data /\ Deserialized(a).exempt = a.exempt
  BY DEF Deserialized, StoredAccounts
<1>2. a.data = b.data /\ a.exempt = b.exempt
  BY <1>1 DEF AccountHash
<1>3. Deserialized(a) = [data |-> a.data, exempt |-> a.exempt, rentEpoch |-> "0"]
  BY SMT DEF Deserialized, StoredAccounts
<1>4. Deserialized(b) = [data |-> b.data, exempt |-> b.exempt, rentEpoch |-> "0"]
  BY SMT DEF Deserialized, StoredAccounts
<1> QED
  BY SMT, <1>2, <1>3, <1>4 DEF StoredAccounts

LEMMA RevivalInit == RentInit => RevivalInv
<1> SUFFICES ASSUME RentInit PROVE RevivalInv
  OBVIOUS
<1>1. RentAccounts \subseteq StoredAccounts
  BY SMT DEF RentAccounts, Account, StoredAccounts
<1> QED
  BY <1>1 DEF RentInit, RevivalInv, RevivedIsArchived, NotArchiving

LEMMA RevivalNext == RevivalInv /\ [RentNext]_rentVars => RevivalInv'
<1> SUFFICES ASSUME RevivalInv, [RentNext]_rentVars PROVE RevivalInv'
  OBVIOUS
<1>1. ASSUME NEW k \in RentKeys, NEW a \in RentAccounts, Write(k, a)
      PROVE  RevivalInv'
  <2>1. a \in StoredAccounts
    BY SMT, <1>1 DEF RentAccounts, Account, StoredAccounts
  <2> QED
    BY <1>1, <2>1 DEF Write, RevivalInv, RevivedIsArchived, MadeFrom
<1>2. ASSUME NEW t \in Archivers, NEW k \in RentKeys, Offer(t, k)
      PROVE  RevivalInv'
  BY <1>2 DEF Offer, RevivalInv, RevivedIsArchived, MadeFrom
<1>3. ASSUME NEW t \in Archivers, Decline(t) \/ WriteFails(t)
      PROVE  RevivalInv'
  BY SMT, <1>3 DEF Decline, WriteFails, RevivalInv, RevivedIsArchived, MadeFrom, NotArchiving
<1>4. ASSUME NEW t \in Archivers, OpenFile(t)
      PROVE  RevivalInv'
  BY SMT, <1>4 DEF OpenFile, RevivalInv, RevivedIsArchived, MadeFrom, Metadata
<1>5. ASSUME NEW t \in Archivers, WriteFile(t)
      PROVE  RevivalInv'
  BY <1>5 DEF WriteFile, RevivalInv, RevivedIsArchived, MadeFrom
<1>6. ASSUME NEW t \in Archivers, Insert(t)
      PROVE  RevivalInv'
  BY <1>6 DEF Insert, RevivalInv, RevivedIsArchived, MadeFrom, NotArchiving
<1>7. ASSUME NEW k \in RentKeys, NEW d \in Deposits, Revive(k, d)
      PROVE  RevivalInv'
  <2>1. /\ file[k] \in StoredAccounts /\ MadeFrom(index[k], k)
        /\ AccountHash(k, Deserialized(file[k])) = AccountHash(k, index[k].account)
    BY <1>7 DEF Revive, Revivable, RevivalInv, MadeFrom
  <2>2. /\ Deserialized(file[k]) = Deserialized(index[k].account)
        /\ Deserialized(file[k]) \in StoredAccounts
    BY <2>1, HashIdentifies DEF MadeFrom
  <2>3. RevivedIsArchived'
    BY <1>7, <2>2 DEF Revive, RevivedIsArchived
  <2> QED
    BY <1>7, <2>2, <2>3 DEF Revive, Removed, RevivalInv, MadeFrom
<1>8. CASE Restart
  BY <1>8 DEF Restart, RevivalInv, RevivedIsArchived, MadeFrom, NotArchiving
<1>9. CASE Tick
  BY <1>9 DEF Tick, RevivalInv, RevivedIsArchived, MadeFrom
<1>10. CASE UNCHANGED rentVars
  BY <1>10 DEF rentVars, RevivalInv, RevivedIsArchived, MadeFrom
<1> QED
  BY <1>1, <1>2, <1>3, <1>4, <1>5, <1>6, <1>7, <1>8, <1>9, <1>10 DEF RentNext

\* Whatever threads archive which accounts at once, and wherever a write fails
\* or the process stops, a revival returns the account its metadata was made
\* from (revive_account compares the hash of what it read).
THEOREM RevivalsAreFaithful == RentSpec => []RevivedIsArchived
<1>1. RevivalInv => RevivedIsArchived
  BY DEF RevivalInv
<1> QED
  BY RevivalInit, RevivalNext, <1>1, PTL DEF RentSpec

-----------------------------------------------------------------------------
(* The order of the hot cache.                                             *)

\* Moving a key to the front of an order without repetitions: the new order has
\* none, and lists the key and what it listed before (promote, insert).
LEMMA FrontOrder ==
  ASSUME NEW S, order \in Seq(S), Distinct(order), NEW k \in S
  PROVE  /\ ToFront(k) \in Seq(S) /\ Distinct(ToFront(k))
         /\ Range(ToFront(k)) = Range(order) \cup {k}
<1> DEFINE q == Without(k)
<1>1. q \in Seq(S) /\ Distinct(q) /\ k \notin Range(q) /\ Range(q) \cup {k} = Range(order) \cup {k}
  <2>1. CASE k \in Range(order)
    <3> DEFINE i == CHOOSE i \in DOMAIN order : order[i] = k
    <3>1. i \in 1..Len(order) /\ order[i] = k
      BY SMT, <2>1 DEF Range
    <3>2. q = TakeOut(order, i)
      BY <2>1 DEF Without, Cached, TakeOut
    <3> HIDE DEF q, i
    <3>3. q \in Seq(S) /\ Distinct(q) /\ Range(q) = Range(order) \ {k}
      BY <3>1, <3>2, TakeOutFacts
    <3> QED
      BY <2>1, <3>3
  <2>2. CASE k \notin Range(order)
    BY <2>2 DEF Without, Cached
  <2> QED
    BY <2>1, <2>2
<1> HIDE DEF q
<1>2. <<k>> \o q \in Seq(S) /\ Distinct(<<k>> \o q) /\ Range(<<k>> \o q) = Range(q) \cup {k}
  BY SMT, <1>1, InFrontFacts
<1> QED
  BY <1>1, <1>2 DEF q, ToFront

\* Dropping keys from the end of the order (evict_lru).
LEMMA EvictOrder ==
  ASSUME NEW S, NEW s \in Seq(S), Distinct(s), NEW n \in 0..Len(s)
  PROVE  /\ SubSeq(s, 1, n) \in Seq(S) /\ Distinct(SubSeq(s, 1, n))
         /\ Range(SubSeq(s, 1, n)) \subseteq Range(s)
<1> DEFINE r == SubSeq(s, 1, n)
<1>1. r \in Seq(S) /\ Len(r) = n /\ \A j \in 1..n : r[j] = s[j]
  BY SMT
<1> HIDE DEF r
<1>2. Distinct(r) /\ Range(r) \subseteq Range(s)
  BY <1>1 DEF Distinct, Range
<1> QED
  BY <1>1, <1>2 DEF r

-----------------------------------------------------------------------------
(* The hot cache in front of the accounts database.                        *)

ThreadStates == [pc : {"idle", "missed", "refill", "loaded", "publish"},
                 bank : Banks \cup {0}, key : Keys \cup {None}, value : Accounts \cup {None}]

LruTypes ==
  /\ order \in Seq(Keys) /\ Distinct(order)
  /\ content \in [Cached -> Accounts]

\* HotTypeOK, with what it needs: the order repeats no key, the roots hold every
\* account, and a thread that is not idle works on a bank and a key.
HotTypes ==
  /\ LruTypes
  /\ DOMAIN stored = Banks
  /\ \A b \in Banks : /\ stored[b] \in [DOMAIN stored[b] -> Accounts]
                      /\ DOMAIN stored[b] \subseteq Keys
                      /\ Ancestors[b] = {b} => DOMAIN stored[b] = Keys
  /\ thread \in [Threads -> ThreadStates]
  /\ \A t \in Threads :
       /\ thread[t].pc # "idle" => thread[t].bank \in Banks /\ thread[t].key \in Keys
       /\ thread[t].pc \in {"refill", "publish"} => thread[t].value \in Accounts
  /\ exit \in BOOLEAN /\ service \in {"running", "finished"}

\* The ancestors of b that hold k.
Holding(b, k) == {c \in Ancestors[b] : k \in DOMAIN stored[c]}

\* A bank sees an account for every key: a root is among its ancestors.
LEMMA LatestHolds ==
  ASSUME HotTypes, NEW b \in Banks, NEW k \in Keys
  PROVE  /\ Max(Holding(b, k)) \in Banks /\ k \in DOMAIN stored[Max(Holding(b, k))]
         /\ Canonical(b, k) \in Accounts
<1>1. /\ b \in Nat /\ b \in Ancestors[b]
      /\ \A c \in Ancestors[b] : c \in Banks /\ c \in Nat /\ c <= b /\ c \in Ancestors[c]
                                /\ Ancestors[c] \subseteq Ancestors[b]
                                /\ \A d \in Ancestors[c] : d \in Nat /\ d <= c
  BY StorageAssumption DEF Banks
<1>2. Ancestors[b] \subseteq Nat /\ Ancestors[b] # {}
  BY <1>1
<1>3. PICK r \in Ancestors[b] : \A c \in Ancestors[b] : r <= c
  BY Zenon, <1>2, LeastNatural
<1>4. Ancestors[r] = {r}
  <2>1. ASSUME NEW d \in Ancestors[r] PROVE d = r
    <3>1. d \in Nat /\ r \in Nat /\ d <= r /\ r <= d
      BY <1>1, <1>3
    <3> QED
      BY SMT, <3>1
  <2> QED
    BY <1>1, <2>1
<1>5. r \in Holding(b, k)
  BY <1>1, <1>4 DEF HotTypes, Holding
<1>6. Holding(b, k) \subseteq Nat /\ \A c \in Holding(b, k) : c <= b
  BY <1>1 DEF Holding
<1>7. PICK m \in Holding(b, k) : \A c \in Holding(b, k) : c <= m
  BY <1>1, <1>5, <1>6, GreatestNatural
<1>8. Max(Holding(b, k)) \in Holding(b, k)
  BY <1>7 DEF Max
<1>9. Max(Holding(b, k)) \in Banks /\ k \in DOMAIN stored[Max(Holding(b, k))]
  BY <1>1, <1>8 DEF Holding
<1>10. stored[Max(Holding(b, k))][k] \in Accounts
  BY <1>9 DEF HotTypes
<1> QED
  BY <1>9, <1>10 DEF Canonical, Holding

\* A store is what its bank sees next, and what banks see for other keys stays.
LEMMA StoreIsSeen ==
  ASSUME HotTypes, NEW t \in Workers, NEW a, Store(t, a),
         NEW b, NEW k, b = thread[t].bank, k = thread[t].key
  PROVE  /\ Canonical(b, k)' = a
         /\ \A c \in Banks, j \in Keys : j # k => Canonical(c, j)' = Canonical(c, j)
<1>1. /\ b \in Banks /\ k \in Keys /\ DOMAIN stored' = Banks
      /\ stored'[b] = [j \in DOMAIN stored[b] \cup {k} |-> IF j = k THEN a ELSE stored[b][j]]
      /\ \A c \in Banks : c # b => stored'[c] = stored[c]
  BY DEF Store, HotTypes, Threads
<1>2. Canonical(b, k)' = a
  <2>1. b \in Holding(b, k)' /\ \A c \in Holding(b, k)' : c \in Nat /\ c <= b
    BY <1>1, StorageAssumption DEF Banks, Holding
  <2>2. Max(Holding(b, k)') = b
    BY SMT, <2>1 DEF Max
  <2>3. stored'[b][k] = a
    BY <1>1
  <2> QED
    BY <2>2, <2>3 DEF Canonical, Holding
<1>3. ASSUME NEW c \in Banks, NEW j \in Keys, j # k
      PROVE  Canonical(c, j)' = Canonical(c, j)
  <2>1. ASSUME NEW d \in Banks
        PROVE  /\ j \in DOMAIN stored'[d] <=> j \in DOMAIN stored[d]
               /\ j \in DOMAIN stored[d] => stored'[d][j] = stored[d][j]
    <3>1. CASE d = b
      <4>1. DOMAIN stored'[d] = DOMAIN stored[d] \cup {k}
        BY <1>1, <3>1
      <4> QED
        BY <1>1, <1>3, <3>1, <4>1
    <3>2. CASE d # b
      BY <1>1, <3>2
    <3> QED
      BY <3>1, <3>2
  <2>2. Holding(c, j)' = Holding(c, j)
    <3>1. Ancestors[c] \subseteq Banks
      BY StorageAssumption DEF Banks
    <3> QED
      BY <2>1, <3>1 DEF Holding
  <2>3. Max(Holding(c, j)) \in Banks /\ j \in DOMAIN stored[Max(Holding(c, j))]
    BY LatestHolds
  <2>4. stored'[Max(Holding(c, j)')][j] = stored[Max(Holding(c, j))][j]
    BY <2>1, <2>2, <2>3
  <2> QED
    BY <2>4 DEF Canonical, Holding
<1> QED
  BY <1>2, <1>3

\* What the operations of the cache leave behind: a lookup reorders it, an insert
\* changes one entry, an eviction only drops entries.
LEMMA CacheOperations ==
  ASSUME LruTypes
  PROVE  /\ \A k \in Keys : LruGet(k) => LruTypes' /\ Cached' = Cached /\ content' = content
         /\ \A k \in Keys, a \in Accounts : LruInsert(k, a) =>
              /\ LruTypes' /\ Cached' = Cached \cup {k} /\ content'[k] = a
              /\ \A j \in Cached' : j # k => j \in Cached /\ content'[j] = content[j]
         /\ LruEvict => /\ LruTypes' /\ Cached' \subseteq Cached
                        /\ \A j \in Cached' : content'[j] = content[j]
<1>1. ASSUME NEW k \in Keys, LruGet(k)
      PROVE  LruTypes' /\ Cached' = Cached /\ content' = content
  <2>1. ToFront(k) \in Seq(Keys) /\ Distinct(ToFront(k)) /\ Range(ToFront(k)) = Range(order) \cup {k}
    BY FrontOrder DEF LruTypes
  <2> QED
    BY <1>1, <2>1 DEF LruGet, LruTypes, Cached
<1>2. ASSUME NEW k \in Keys, NEW a \in Accounts, LruInsert(k, a)
      PROVE  /\ LruTypes' /\ Cached' = Cached \cup {k} /\ content'[k] = a
             /\ \A j \in Cached' : j # k => j \in Cached /\ content'[j] = content[j]
  <2>1. ToFront(k) \in Seq(Keys) /\ Distinct(ToFront(k)) /\ Range(ToFront(k)) = Range(order) \cup {k}
    BY FrontOrder DEF LruTypes
  <2>2. Cached' = Cached \cup {k}
    BY <1>2, <2>1 DEF LruInsert, Cached
  <2>3. content' = [j \in Cached \cup {k} |-> IF j = k THEN a ELSE content[j]]
    BY <1>2 DEF LruInsert
  <2>4. content' \in [Cached' -> Accounts]
    BY <2>2, <2>3 DEF LruTypes
  <2> QED
    BY <1>2, <2>1, <2>2, <2>3, <2>4 DEF LruInsert, LruTypes
<1>3. ASSUME LruEvict
      PROVE  /\ LruTypes' /\ Cached' \subseteq Cached
             /\ \A j \in Cached' : content'[j] = content[j]
  <2> DEFINE lengths == {n \in 0..Len(order) : Len(order) - n <= BatchSize}
             fitting == {n \in lengths : Bytes(n) <= Watermark}
  <2>1. /\ Len(order) \in lengths /\ lengths \subseteq 0..Len(order) /\ lengths \subseteq Nat
        /\ fitting \subseteq lengths
    BY SMT, StorageAssumption DEF LruTypes
  <2>2. Kept = IF fitting # {} THEN Max(fitting) ELSE Min(lengths)
    BY DEF Kept
  <2> HIDE DEF lengths, fitting
  <2>3. fitting # {} => Max(fitting) \in fitting
    <3>1. ASSUME fitting # {} PROVE \E m \in fitting : \A n \in fitting : n <= m
      <4>1. fitting \subseteq Nat /\ Len(order) \in Nat /\ \A n \in fitting : n <= Len(order)
        BY SMT, <2>1 DEF LruTypes
      <4> QED
        BY <3>1, <4>1, GreatestNatural
    <3> QED
      BY <3>1 DEF Max
  <2>4. Min(lengths) \in lengths
    <3>1. PICK m \in lengths : \A n \in lengths : m <= n
      BY <2>1, LeastNatural
    <3> QED
      BY <3>1 DEF Min
  <2>5. Kept \in 0..Len(order)
    BY <2>1, <2>2, <2>3, <2>4
  <2>6. /\ SubSeq(order, 1, Kept) \in Seq(Keys) /\ Distinct(SubSeq(order, 1, Kept))
        /\ Range(SubSeq(order, 1, Kept)) \subseteq Range(order)
    BY <2>5, EvictOrder DEF LruTypes
  <2> QED
    BY <1>3, <2>6 DEF LruEvict, LruTypes, Cached
<1> QED
  BY <1>1, <1>2, <1>3

LEMMA HotTypesInit == HotInit => HotTypes
<1> SUFFICES ASSUME HotInit PROVE HotTypes
  OBVIOUS
<1>1. LruTypes
  BY DEF HotInit, LruInit, LruTypes, Distinct, Cached, Range
<1>2. /\ thread \in [Threads -> ThreadStates]
      /\ \A t \in Threads : thread[t].pc = "idle"
      /\ exit \in BOOLEAN /\ service \in {"running", "finished"}
  BY DEF HotInit, ThreadStates, Idle
<1>3. PICK initial \in [Keys -> Accounts] :
        stored = [b \in Banks |-> IF Ancestors[b] = {b} THEN initial ELSE [k \in {} |-> None]]
  BY DEF HotInit
<1> QED
  BY <1>1, <1>2, <1>3 DEF HotTypes

LEMMA HotTypesNext == HotTypes /\ [HotNext]_hotVars => HotTypes'
<1> SUFFICES ASSUME HotTypes, [HotNext]_hotVars PROVE HotTypes'
  OBVIOUS
<1>0. LruTypes
  BY DEF HotTypes
<1>1. ASSUME NEW t \in Threads, NEW b \in Banks, NEW k \in Keys, LoadHit(t, b, k)
      PROVE  HotTypes'
  <2>1. LruTypes' /\ k \in Cached
    BY <1>0, <1>1, CacheOperations DEF LoadHit, LruGet
  <2>2. Visible(content[k]) \in Accounts \cup {None}
    BY <1>0, <2>1 DEF LruTypes, Visible
  <2> QED
    BY <1>1, <2>1, <2>2 DEF LoadHit, Move, HotTypes, ThreadStates
<1>2. ASSUME NEW t \in Threads, NEW b \in Banks, NEW k \in Keys, LoadMiss(t, b, k)
      PROVE  HotTypes'
  <2>1. LruTypes'
    BY <1>0, <1>2 DEF LoadMiss, LruTypes, Cached
  <2> QED
    BY <1>2, <2>1 DEF LoadMiss, Move, HotTypes, ThreadStates
<1>3. ASSUME NEW t \in Threads, ReadStorage(t)
      PROVE  HotTypes'
  <2>1. LruTypes'
    BY <1>0, <1>3 DEF ReadStorage, LruTypes, Cached
  <2> DEFINE v == Canonical(thread[t].bank, thread[t].key)
  <2>2. thread[t].bank \in Banks /\ thread[t].key \in Keys
    BY <1>3 DEF ReadStorage, HotTypes
  <2>3. v \in Accounts
    BY <2>2, LatestHolds
  <2>4. thread' = [thread EXCEPT ![t] =
                     [pc |-> IF v = Empty THEN "loaded" ELSE "refill", bank |-> thread[t].bank,
                      key |-> thread[t].key, value |-> Visible(v)]]
    BY <1>3 DEF ReadStorage, Move
  <2> HIDE DEF v
  <2>5. Visible(v) \in Accounts \cup {None} /\ (v # Empty => Visible(v) \in Accounts)
    BY <2>3 DEF Visible
  <2>6. /\ thread' \in [Threads -> ThreadStates]
        /\ \A u \in Threads :
             /\ thread'[u].pc # "idle" => thread'[u].bank \in Banks /\ thread'[u].key \in Keys
             /\ thread'[u].pc \in {"refill", "publish"} => thread'[u].value \in Accounts
    BY <2>2, <2>4, <2>5 DEF HotTypes, ThreadStates
  <2>7. UNCHANGED <<stored, exit, service>>
    BY <1>3 DEF ReadStorage
  <2> QED
    BY <2>1, <2>6, <2>7 DEF HotTypes
<1>4. ASSUME NEW t \in Threads, Refill(t) \/ Publish(t)
      PROVE  HotTypes'
  <2>1. thread[t].key \in Keys /\ thread[t].value \in Accounts
    BY <1>4 DEF Refill, Publish, HotTypes
  <2>2. LruTypes'
    BY <1>0, <1>4, <2>1, CacheOperations DEF Refill, Publish
  <2> QED
    BY <1>4, <2>2 DEF Refill, Publish, HotTypes, ThreadStates, Idle
<1>5. ASSUME NEW t \in Threads, Finish(t)
      PROVE  HotTypes'
  <2>1. LruTypes'
    BY <1>0, <1>5 DEF Finish, LruTypes, Cached
  <2> QED
    BY <1>5, <2>1 DEF Finish, HotTypes, ThreadStates, Idle
<1>6. ASSUME NEW t \in Workers, NEW a \in Accounts, Store(t, a)
      PROVE  HotTypes'
  <2>1. LruTypes'
    BY <1>0, <1>6 DEF Store, LruTypes, Cached
  <2>2. thread[t].bank \in Banks /\ thread[t].key \in Keys
    BY <1>6 DEF Store, HotTypes, Threads
  <2>3. /\ DOMAIN stored' = Banks
        /\ \A b \in Banks : /\ stored'[b] \in [DOMAIN stored'[b] -> Accounts]
                            /\ DOMAIN stored'[b] \subseteq Keys
                            /\ Ancestors[b] = {b} => DOMAIN stored'[b] = Keys
    BY <1>6, <2>2 DEF Store, HotTypes
  <2>4. thread' = [thread EXCEPT ![t] =
                     [pc |-> "publish", bank |-> thread[t].bank, key |-> thread[t].key, value |-> a]]
    BY <1>6 DEF Store, Move
  <2>5. /\ thread' \in [Threads -> ThreadStates]
        /\ \A u \in Threads :
             /\ thread'[u].pc # "idle" => thread'[u].bank \in Banks /\ thread'[u].key \in Keys
             /\ thread'[u].pc \in {"refill", "publish"} => thread'[u].value \in Accounts
    BY <2>2, <2>4 DEF HotTypes, ThreadStates, Threads
  <2> QED
    BY <1>6, <2>1, <2>3, <2>5 DEF Store, HotTypes
<1>7. CASE Maintain
  <2>1. LruTypes'
    <3>1. CASE LruEvict
      BY <1>0, <3>1, CacheOperations
    <3>2. CASE UNCHANGED <<order, content>>
      BY <1>0, <3>2 DEF LruTypes, Cached
    <3> QED
      BY <1>7, <3>1, <3>2 DEF Maintain
  <2> QED
    BY <1>7, <2>1 DEF Maintain, HotTypes
<1>8. CASE Stop \/ UNCHANGED hotVars
  <2>1. LruTypes'
    BY <1>0, <1>8 DEF Stop, hotVars, LruTypes, Cached
  <2> QED
    BY <1>8, <2>1 DEF Stop, hotVars, HotTypes
<1> QED
  BY <1>1, <1>2, <1>3, <1>4, <1>5, <1>6, <1>7, <1>8 DEF HotNext

\* The cache stays a set of distinct keys in order, with an account each, and
\* the threads stay in the states of do_load and the store.
THEOREM HotTypeCorrect == HotSpec => []HotTypeOK
<1>1. HotTypes => HotTypeOK
  <2> SUFFICES ASSUME HotTypes PROVE HotTypeOK
    OBVIOUS
  <2>1. order \in Seq(Keys) /\ Distinct(order) /\ content \in [Cached -> Accounts]
    BY DEF HotTypes, LruTypes
  <2>2. Cardinality(Cached) = Len(order)
    BY <2>1, DistinctLength DEF Cached
  <2>3. Cached \subseteq Keys
    BY <2>1 DEF Cached, Range
  <2> QED
    BY <2>1, <2>2, <2>3 DEF HotTypes, HotTypeOK, ThreadStates
<1> QED
  BY HotTypesInit, HotTypesNext, <1>1, PTL DEF HotSpec

\* One fork is open, and every load is a transaction's, under its bank's lock.
OneFork == Readers = {} /\ \A b, c \in OpenBanks : b = c

\* Thread w works on key k.
Holds(w, k) == thread[w].pc # "idle" /\ thread[w].key = k

\* Under OneFork the lock of a key has one holder, what it read or stored is
\* what the open bank sees, and only between its store and its insert does the
\* cache hold anything else.
OnOpenBanks == \A w \in Workers : thread[w].pc # "idle" => thread[w].bank \in OpenBanks
OneHolder == \A v, w \in Workers, k \in Keys : Holds(v, k) /\ Holds(w, k) => v = w
ReadsAgree ==
  \A w \in Workers : thread[w].pc \in {"refill", "publish"} =>
    thread[w].value = Canonical(thread[w].bank, thread[w].key)
RefillsExist == \A w \in Workers : thread[w].pc = "refill" => thread[w].value # Empty
CacheAgrees ==
  \A b \in OpenBanks, k \in Cached :
    \/ content[k] = Canonical(b, k)
    \/ \E w \in Workers : Holds(w, k) /\ thread[w].pc = "publish"

LoadsInv ==
  /\ OnOpenBanks /\ OneHolder /\ ReadsAgree /\ RefillsExist
  /\ LoadsMatchStorage /\ CacheAgrees

LEMMA LoadsInit == HotInit => LoadsInv
<1> SUFFICES ASSUME HotInit PROVE LoadsInv
  OBVIOUS
<1>1. (\A w \in Workers : thread[w].pc = "idle") /\ Cached = {}
  <2>1. thread = [t \in Threads |-> Idle] /\ order = <<>>
    BY DEF HotInit, LruInit
  <2> QED
    BY SMT, <2>1 DEF Idle, Threads, Cached, Range
<1>2. OnOpenBanks /\ OneHolder /\ ReadsAgree
  BY <1>1 DEF OnOpenBanks, OneHolder, ReadsAgree, Holds
<1>3. RefillsExist /\ LoadsMatchStorage /\ CacheAgrees
  BY <1>1 DEF RefillsExist, LoadsMatchStorage, CacheAgrees
<1> QED
  BY <1>2, <1>3 DEF LoadsInv

\* What the banks see depends on the store alone.
LEMMA CanonicalKept ==
  ASSUME UNCHANGED stored, NEW b, NEW k
  PROVE  Canonical(b, k)' = Canonical(b, k)
  BY DEF Canonical

\* A thread that moves to state s without a store keeps the invariant when s is
\* right, its key was free or its own, and what it does to the cache is right.
LEMMA MoveKeeps ==
  ASSUME OneFork, HotTypes, LoadsInv, UNCHANGED stored,
         NEW t \in Workers, NEW s \in ThreadStates, thread' = [thread EXCEPT ![t] = s],
         s.pc # "idle" => /\ s.bank \in OpenBanks
                          /\ \A w \in Workers : Holds(w, s.key) => w = t,
         s.pc \in {"refill", "publish"} => s.value = Canonical(s.bank, s.key),
         s.pc = "refill" => s.value # Empty,
         s.pc = "loaded" => s.value = Visible(Canonical(s.bank, s.key)),
         \A b \in OpenBanks, k \in Cached' :
           \/ /\ k \in Cached /\ content'[k] = content[k]
              /\ ~ (Holds(t, k) /\ thread[t].pc = "publish")
           \/ content'[k] = Canonical(b, k)
  PROVE  LoadsInv'
<1>1. /\ thread \in [Workers -> ThreadStates]
      /\ thread'[t] = s /\ \A w \in Workers : w # t => thread'[w] = thread[w]
  BY DEF HotTypes, Threads, OneFork
<1>2. \A b, k : Canonical(b, k)' = Canonical(b, k)
  BY CanonicalKept
<1>3. OnOpenBanks'
  BY <1>1 DEF LoadsInv, OnOpenBanks
<1>4. ASSUME NEW v \in Workers, NEW w \in Workers, NEW k \in Keys, Holds(v, k)', Holds(w, k)'
      PROVE  v = w
  <2>1. CASE v = t /\ w # t
    BY <1>1, <1>4, <2>1 DEF Holds
  <2>2. CASE v # t /\ w = t
    BY <1>1, <1>4, <2>2 DEF Holds
  <2>3. CASE v # t /\ w # t
    <3>1. Holds(v, k) /\ Holds(w, k)
      BY <1>1, <1>4, <2>3 DEF Holds
    <3> QED
      BY <3>1 DEF LoadsInv, OneHolder
  <2> QED
    BY <2>1, <2>2, <2>3
<1>5. ASSUME NEW w \in Workers
      PROVE  /\ thread'[w].pc \in {"refill", "publish"} =>
                  thread'[w].value = Canonical(thread'[w].bank, thread'[w].key)
             /\ thread'[w].pc = "loaded" =>
                  thread'[w].value = Visible(Canonical(thread'[w].bank, thread'[w].key))
  <2>1. CASE w = t
    BY <1>1, <2>1
  <2>2. CASE w # t
    <3>1. thread'[w] = thread[w]
      BY <1>1, <2>2
    <3> QED
      BY <3>1 DEF LoadsInv, ReadsAgree, LoadsMatchStorage
  <2> QED
    BY <2>1, <2>2
<1>6. ASSUME NEW b \in OpenBanks, NEW k \in Cached'
      PROVE  \/ content'[k] = Canonical(b, k)
             \/ \E w \in Workers : Holds(w, k)' /\ thread'[w].pc = "publish"
  <2>1. CASE content'[k] = Canonical(b, k)
    BY <2>1
  <2>2. CASE /\ k \in Cached /\ content'[k] = content[k]
             /\ ~ (Holds(t, k) /\ thread[t].pc = "publish")
    <3>1. CASE content[k] = Canonical(b, k)
      BY <2>2, <3>1
    <3>2. CASE \E w \in Workers : Holds(w, k) /\ thread[w].pc = "publish"
      BY <1>1, <2>2, <3>2 DEF Holds
    <3> QED
      BY <2>2, <3>1, <3>2 DEF LoadsInv, CacheAgrees
  <2> QED
    BY <2>1, <2>2
<1>7. /\ \A w \in Workers : (Canonical(thread[w].bank, thread[w].key))'
                             = Canonical(thread'[w].bank, thread'[w].key)
      /\ \A w \in Workers : (Visible(Canonical(thread[w].bank, thread[w].key)))'
                             = Visible(Canonical(thread'[w].bank, thread'[w].key))
  <2>1. ASSUME NEW w \in Workers
        PROVE  (Canonical(thread[w].bank, thread[w].key))'
                  = Canonical(thread'[w].bank, thread'[w].key)
    BY ONLY <1>2
  <2> QED
    BY SMT, <2>1 DEF Visible
<1>8. LoadsMatchStorage'
  BY <1>5, <1>7 DEF LoadsMatchStorage
<1>9. ReadsAgree'
  BY <1>5, <1>7 DEF ReadsAgree
<1>10. RefillsExist'
  BY <1>1 DEF LoadsInv, RefillsExist
<1>11. CacheAgrees'
  BY <1>2, <1>6 DEF CacheAgrees
<1>12. OneHolder'
  BY <1>4 DEF OneHolder
<1> QED
  BY <1>3, <1>8, <1>9, <1>10, <1>11, <1>12 DEF LoadsInv

\* A miss reads what the bank sees.
LEMMA ReadKeeps ==
  ASSUME OneFork, HotTypes, LoadsInv, NEW t \in Workers, ReadStorage(t)
  PROVE  LoadsInv'
<1>0. /\ LruTypes /\ Threads = Workers /\ thread \in [Workers -> ThreadStates]
      /\ \A b, c \in OpenBanks : b = c
  BY DEF HotTypes, Threads, OneFork
<1> DEFINE b == thread[t].bank
           k == thread[t].key
           v == Canonical(b, k)
           s == [pc |-> IF v = Empty THEN "loaded" ELSE "refill", bank |-> b,
                 key |-> k, value |-> Visible(v)]
<1>1. Cached' = Cached /\ content' = content
  BY DEF ReadStorage, Cached
<1>2. thread[t].pc = "missed" /\ thread' = [thread EXCEPT ![t] = s] /\ UNCHANGED stored
  BY DEF ReadStorage, Move
<1>3. b \in OpenBanks /\ b \in Banks /\ k \in Keys /\ Holds(t, k)
  BY <1>0, <1>2 DEF LoadsInv, OnOpenBanks, Holds, HotTypes
<1>4. v \in Accounts
  BY <1>3, LatestHolds
<1> HIDE DEF b, k, v
<1>5. s \in ThreadStates
  BY <1>3, <1>4 DEF ThreadStates, Visible
<1>6. /\ s.bank = b /\ s.key = k /\ s.pc \in {"loaded", "refill"}
      /\ s.pc = "loaded" => s.value = Visible(v)
      /\ s.pc = "refill" => s.value = v /\ s.value # Empty
  BY DEF Visible
<1> HIDE DEF s
<1>7. \A w \in Workers : Holds(w, k) => w = t
  BY <1>3 DEF LoadsInv, OneHolder
<1> QED
  BY <1>1, <1>2, <1>3, <1>5, <1>6, <1>7, MoveKeeps DEF v

\* A refill and a publication put into the cache what the bank sees.
LEMMA InsertKeeps ==
  ASSUME OneFork, HotTypes, LoadsInv, NEW t \in Workers, Refill(t) \/ Publish(t)
  PROVE  LoadsInv'
<1>0. /\ LruTypes /\ Threads = Workers /\ thread \in [Workers -> ThreadStates]
      /\ \A b, c \in OpenBanks : b = c
  BY DEF HotTypes, Threads, OneFork
<1> DEFINE b == thread[t].bank
           k == thread[t].key
           s == IF Refill(t) THEN [thread[t] EXCEPT !.pc = "loaded"] ELSE Idle
<1>1. /\ b \in OpenBanks /\ b \in Banks /\ k \in Keys /\ Holds(t, k)
      /\ thread[t].value = Canonical(b, k) /\ thread[t].value \in Accounts
  <2>1. thread[t].pc \in {"refill", "publish"}
    BY DEF Refill, Publish
  <2>2. b \in OpenBanks /\ thread[t].value = Canonical(b, k)
    BY <2>1 DEF LoadsInv, OnOpenBanks, ReadsAgree
  <2>3. b \in Banks /\ k \in Keys /\ thread[t].value \in Accounts
    BY <1>0, <2>1 DEF HotTypes
  <2> QED
    BY <2>1, <2>2, <2>3 DEF Holds
<1>2. /\ Cached' = Cached \cup {k} /\ content'[k] = Canonical(b, k)
      /\ \A j \in Cached' : j # k => j \in Cached /\ content'[j] = content[j]
  BY SMT, <1>0, <1>1, CacheOperations DEF Refill, Publish
<1>3. thread' = [thread EXCEPT ![t] = s] /\ UNCHANGED stored
  BY DEF Refill, Publish
<1>4. /\ s \in ThreadStates /\ s.pc \in {"idle", "loaded"}
      /\ s.pc = "loaded" => s.bank = b /\ s.key = k /\ s.value = Visible(Canonical(b, k))
  <2>1. CASE Refill(t)
    <3>1. thread[t].value # Empty
      BY <2>1 DEF Refill, LoadsInv, RefillsExist
    <3> QED
      BY SMT, <1>0, <1>1, <2>1, <3>1 DEF ThreadStates, Visible
  <2>2. CASE ~ Refill(t)
    BY <2>2 DEF Idle, ThreadStates
  <2> QED
    BY <2>1, <2>2
<1>5. \A w \in Workers : Holds(w, k) => w = t
  BY <1>1 DEF LoadsInv, OneHolder
<1>6. ASSUME NEW c \in OpenBanks, NEW j \in Cached'
      PROVE  \/ j \in Cached /\ content'[j] = content[j] /\ ~ (Holds(t, j) /\ thread[t].pc = "publish")
             \/ content'[j] = Canonical(c, j)
  <2>1. CASE j = k
    BY <1>0, <1>1, <1>2, <2>1
  <2>2. CASE j # k
    BY <1>2, <2>2 DEF Holds
  <2> QED
    BY <2>1, <2>2
<1> HIDE DEF b, k, s
<1> QED
  BY <1>1, <1>3, <1>4, <1>5, <1>6, MoveKeeps

\* A store leaves the cache behind until its thread publishes, which only it can do.
LEMMA StoreKeeps ==
  ASSUME OneFork, HotTypes, LoadsInv, NEW t \in Workers, NEW a \in Accounts, Store(t, a)
  PROVE  LoadsInv'
<1>0. /\ LruTypes /\ Threads = Workers /\ thread \in [Workers -> ThreadStates]
      /\ \A b, c \in OpenBanks : b = c
  BY DEF HotTypes, Threads, OneFork
<1> DEFINE s == [pc |-> "publish", bank |-> thread[t].bank, key |-> thread[t].key, value |-> a]
<1>1. /\ thread[t].pc = "loaded" /\ thread' = [thread EXCEPT ![t] = s]
      /\ Cached' = Cached /\ content' = content
  BY DEF Store, Move, Cached
<1>2. PICK b, k : b = thread[t].bank /\ k = thread[t].key
  OBVIOUS
<1>3. b \in OpenBanks /\ b \in Banks /\ k \in Keys /\ Holds(t, k)
  BY <1>0, <1>1, <1>2 DEF LoadsInv, OnOpenBanks, Holds, HotTypes
<1>4. \A w \in Workers : Holds(w, k) => w = t
  BY <1>3 DEF LoadsInv, OneHolder
<1>5. /\ thread'[t] = [pc |-> "publish", bank |-> b, key |-> k, value |-> a]
      /\ \A w \in Workers : w # t => thread'[w] = thread[w]
  BY <1>0, <1>1, <1>2
<1>6. /\ Canonical(b, k)' = a
      /\ \A c \in Banks, j \in Keys : j # k => Canonical(c, j)' = Canonical(c, j)
  BY SMT, <1>2, StoreIsSeen
<1>7. \A w \in Workers : w # t /\ thread[w].pc # "idle" =>
        /\ thread[w].bank \in Banks /\ thread[w].key \in Keys /\ thread[w].key # k
        /\ (Canonical(thread[w].bank, thread[w].key))' = Canonical(thread[w].bank, thread[w].key)
  <2>1. ASSUME NEW w \in Workers, w # t, thread[w].pc # "idle"
        PROVE  /\ thread[w].bank \in Banks /\ thread[w].key \in Keys /\ thread[w].key # k
    BY <1>0, <1>4, <2>1 DEF Holds, HotTypes
  <2>2. ASSUME NEW w \in Workers, w # t, thread[w].pc # "idle"
        PROVE  (Canonical(thread[w].bank, thread[w].key))' = Canonical(thread[w].bank, thread[w].key)
    <3>1. thread'[w] = thread[w]
      BY <1>5, <2>2
    <3> QED
      BY <1>6, <2>1, <2>2, <3>1
  <2> QED
    BY <2>1, <2>2
<1>8. (Canonical(thread[t].bank, thread[t].key))' = a
  BY SMT, <1>5, <1>6
<1> HIDE DEF s
<1>9. OnOpenBanks'
  BY SMT, <1>3, <1>5 DEF LoadsInv, OnOpenBanks
<1>10. OneHolder'
  <2>1. \A w \in Workers, j \in Keys : Holds(w, j)' => Holds(w, j)
    BY SMT, <1>1, <1>2, <1>5 DEF Holds
  <2> QED
    BY <2>1 DEF LoadsInv, OneHolder
<1>11. ReadsAgree'
  <2>1. ASSUME NEW w \in Workers, w # t, thread'[w].pc \in {"refill", "publish"}
        PROVE  thread'[w].value = (Canonical(thread[w].bank, thread[w].key))'
    <3>1. thread'[w] = thread[w] /\ thread[w].pc \in {"refill", "publish"}
      BY <1>5, <2>1
    <3>2. thread[w].value = Canonical(thread[w].bank, thread[w].key)
      BY <3>1 DEF LoadsInv, ReadsAgree
    <3> QED
      BY <1>7, <2>1, <3>1, <3>2
  <2>2. thread'[t].value = (Canonical(thread[t].bank, thread[t].key))'
    BY <1>5, <1>8
  <2> QED
    BY <2>1, <2>2 DEF ReadsAgree
<1>12. LoadsMatchStorage'
  <2>1. SUFFICES ASSUME NEW w \in Workers, thread'[w].pc = "loaded"
                 PROVE  thread'[w].value = (Visible(Canonical(thread[w].bank, thread[w].key)))'
    BY DEF LoadsMatchStorage
  <2>2. w # t /\ thread'[w] = thread[w] /\ thread[w].pc = "loaded"
    BY SMT, <1>5, <2>1
  <2>3. thread[w].value = Visible(Canonical(thread[w].bank, thread[w].key))
    BY <2>2 DEF LoadsInv, LoadsMatchStorage
  <2> QED
    BY <1>7, <2>2, <2>3 DEF Visible
<1>13. ASSUME NEW c \in OpenBanks, NEW j \in Cached'
       PROVE  \/ content'[j] = (Canonical(c, j))'
              \/ \E w \in Workers : Holds(w, j)' /\ thread'[w].pc = "publish"
  <2>1. CASE j = k
    BY <1>5, <2>1 DEF Holds
  <2>2. CASE j # k
    <3>1. c \in Banks /\ j \in Keys /\ j \in Cached
      <4>1. order \in Seq(Keys)
        BY <1>0 DEF LruTypes
      <4>2. Cached \subseteq Keys
        BY <4>1 DEF Cached, Range
      <4> QED
        BY <1>1, <4>2 DEF OpenBanks
    <3>2. CASE content[j] = Canonical(c, j)
      BY <1>1, <1>6, <2>2, <3>1, <3>2
    <3>3. CASE \E w \in Workers : Holds(w, j) /\ thread[w].pc = "publish"
      BY <1>1, <1>5, <3>3 DEF Holds
    <3> QED
      BY <3>1, <3>2, <3>3 DEF LoadsInv, CacheAgrees
  <2> QED
    BY <2>1, <2>2
<1>14. RefillsExist'
  <2>1. RefillsExist
    BY DEF LoadsInv
  <2>2. thread'[t].pc = "publish"
    BY SMT, <1>5
  <2> QED
    BY ONLY <1>5, <2>1, <2>2 DEF RefillsExist
<1>15. CacheAgrees'
  BY <1>13 DEF CacheAgrees
<1> QED
  BY <1>9, <1>10, <1>11, <1>12, <1>14, <1>15 DEF LoadsInv

LEMMA LoadsNext ==
  ASSUME OneFork
  PROVE  HotTypes /\ LoadsInv /\ [HotNext]_hotVars => LoadsInv'
<1> SUFFICES ASSUME HotTypes, LoadsInv, [HotNext]_hotVars PROVE LoadsInv'
  OBVIOUS
<1>0. /\ LruTypes /\ Threads = Workers /\ thread \in [Workers -> ThreadStates]
      /\ \A b, c \in OpenBanks : b = c
  BY DEF HotTypes, Threads, OneFork
<1>1. ASSUME NEW t \in Workers, NEW b \in Banks, NEW k \in Keys, LoadHit(t, b, k)
      PROVE  LoadsInv'
  <2> DEFINE s == [pc |-> "loaded", bank |-> b, key |-> k, value |-> Visible(content[k])]
  <2>1. Cached' = Cached /\ content' = content /\ k \in Cached
    BY <1>0, <1>1, CacheOperations DEF LoadHit, LruGet
  <2>2. /\ b \in OpenBanks /\ Unlocked(b, k) /\ thread[t].pc = "idle"
        /\ thread' = [thread EXCEPT ![t] = s] /\ UNCHANGED stored
    BY <1>1 DEF LoadHit, MayStart, Move
  <2>3. \A w \in Workers : ~ Holds(w, k)
    BY <1>0, <2>2 DEF Unlocked, Holds, LoadsInv, OnOpenBanks
  <2>4. content[k] = Canonical(b, k)
    BY <2>1, <2>2, <2>3 DEF LoadsInv, CacheAgrees
  <2>5. s \in ThreadStates
    BY <1>0, <2>1 DEF LruTypes, ThreadStates, Visible
  <2>6. s.pc = "loaded" /\ s.bank = b /\ s.key = k /\ s.value = Visible(Canonical(b, k))
    BY <2>4
  <2> HIDE DEF s
  <2> QED
    BY <2>1, <2>2, <2>3, <2>5, <2>6, MoveKeeps
<1>2. ASSUME NEW t \in Workers, NEW b \in Banks, NEW k \in Keys, LoadMiss(t, b, k)
      PROVE  LoadsInv'
  <2> DEFINE s == [pc |-> "missed", bank |-> b, key |-> k, value |-> None]
  <2>1. Cached' = Cached /\ content' = content
    BY <1>2 DEF LoadMiss, Cached
  <2>2. /\ b \in OpenBanks /\ Unlocked(b, k) /\ thread[t].pc = "idle"
        /\ thread' = [thread EXCEPT ![t] = s] /\ UNCHANGED stored
    BY <1>2 DEF LoadMiss, MayStart, Move
  <2>3. \A w \in Workers : ~ Holds(w, k)
    BY <1>0, <2>2 DEF Unlocked, Holds, LoadsInv, OnOpenBanks
  <2>5. s \in ThreadStates
    BY <2>2 DEF ThreadStates
  <2>6. s.pc = "missed" /\ s.bank = b /\ s.key = k
    OBVIOUS
  <2> HIDE DEF s
  <2> QED
    BY <2>1, <2>2, <2>3, <2>5, <2>6, MoveKeeps
<1>3. ASSUME NEW t \in Workers, ReadStorage(t)
      PROVE  LoadsInv'
  BY <1>3, ReadKeeps
<1>4. ASSUME NEW t \in Workers, Refill(t) \/ Publish(t)
      PROVE  LoadsInv'
  BY <1>4, InsertKeeps
<1>5. ASSUME NEW t \in Workers, Finish(t)
      PROVE  LoadsInv'
  <2>1. /\ Cached' = Cached /\ content' = content /\ thread[t].pc = "loaded"
        /\ thread' = [thread EXCEPT ![t] = Idle] /\ UNCHANGED stored
    BY <1>5 DEF Finish, Cached
  <2>2. Idle \in ThreadStates /\ Idle.pc = "idle"
    BY DEF Idle, ThreadStates
  <2> QED
    BY <2>1, <2>2, MoveKeeps
<1>6. ASSUME NEW t \in Workers, NEW a \in Accounts, Store(t, a)
      PROVE  LoadsInv'
  BY <1>6, StoreKeeps
<1>7. CASE Maintain \/ Stop \/ UNCHANGED hotVars
  <2>1. UNCHANGED <<stored, thread>> /\ Cached' \subseteq Cached /\ \A j \in Cached' : content'[j] = content[j]
    <3>1. CASE LruEvict /\ UNCHANGED <<stored, thread>>
      BY <1>0, <3>1, CacheOperations
    <3>2. CASE UNCHANGED <<order, content, stored, thread>>
      BY <3>2 DEF Cached
    <3> QED
      BY <1>7, <3>1, <3>2 DEF Maintain, Stop, hotVars
  <2>2. \A b, k : Canonical(b, k)' = Canonical(b, k)
    BY <2>1, CanonicalKept
  <2> QED
    <3>1. OnOpenBanks' /\ OneHolder' /\ RefillsExist'
      BY <2>1 DEF LoadsInv, OnOpenBanks, OneHolder, RefillsExist, Holds
    <3>2. ReadsAgree' /\ LoadsMatchStorage'
      BY <2>1, <2>2 DEF LoadsInv, ReadsAgree, LoadsMatchStorage, Visible
    <3>3. CacheAgrees'
      BY <2>1, <2>2 DEF LoadsInv, CacheAgrees, Holds
    <3> QED
      BY <3>1, <3>2, <3>3 DEF LoadsInv
<1> QED
  BY <1>0, <1>1, <1>2, <1>3, <1>4, <1>5, <1>6, <1>7 DEF HotNext

\* On one fork, with every load under the account locks, the one hot cache that
\* serves every bank changes nothing a transaction sees, whatever is evicted
\* when (do_load, store_accounts_unfrozen).  Without OneFork this is false.
THEOREM LoadsAreCanonical == OneFork => (HotSpec => []LoadsMatchStorage)
<1> SUFFICES ASSUME OneFork PROVE HotSpec => []LoadsMatchStorage
  OBVIOUS
<1>1. LoadsInv => LoadsMatchStorage
  BY DEF LoadsInv
<1>2. HotTypes /\ LoadsInv /\ [HotNext]_hotVars => LoadsInv'
  BY LoadsNext
<1> QED
  BY HotTypesInit, HotTypesNext, LoadsInit, <1>1, <1>2, PTL DEF HotSpec

-----------------------------------------------------------------------------
(* Governance.  The inductive invariant is GovInv: the shape of the state,  *)
(* the ways into the timelock, and the ids.                                *)

GovInv == GovTypeOK /\ PassedByVoteOrAuthority /\ IdsAreUnique

Configs == [ready: {TRUE}, active: BOOLEAN, authority: Signers,
            settings: {s \in Settings : Valid(s)}, nextId: 0..GovU64Max]

\* NoProposal is told apart from every proposal by its status.
LEMMA NoProposalStatus ==
  /\ NoProposal.status = Unset
  /\ \A x \in ProposalType : x # NoProposal /\ x.status # Unset
  <1>1. NoProposal.status = Unset BY DEF NoProposal
  <1>2. \A x \in ProposalType : x.status # Unset BY DEF ProposalType, Final, Unset
  <1> QED BY <1>1, <1>2

\* A proposal account that holds anything holds a proposal.
LEMMA ProposalHolds ==
  ASSUME GovTypeOK, NEW p \in Proposals, proposals[p] # NoProposal
  PROVE  proposals[p] \in ProposalType
  BY DEF GovTypeOK

\* Once a proposal exists, so does the configuration.
LEMMA ExistingNeedsConfig ==
  ASSUME GovTypeOK, IdsAreUnique, NEW p \in Proposals, proposals[p] # NoProposal
  PROVE  config \in Configs
  <1>1. proposals[p].id < config.nextId /\ proposals[p].id \in Nat
    BY ProposalHolds DEF IdsAreUnique, Open, ProposalType
  <1>2. config # NoConfig BY <1>1 DEF NoConfig
  <1> QED BY <1>2 DEF GovTypeOK, Configs

\* A configuration that is ready is a configuration.
LEMMA Ready ==
  ASSUME GovTypeOK, config.ready PROVE config \in Configs
  <1>1. config # NoConfig BY DEF NoConfig
  <1> QED BY <1>1 DEF GovTypeOK, Configs

\* The weight of a stake is a natural number.
LEMMA PowerIsNat ==
  ASSUME NEW s \in Stakes PROVE Power(s) \in Nat
  <1>1. Amount[s] \in Nat /\ Weight[s] \in Nat /\ Bps \in Nat /\ Bps > 0
    BY SMT, GovernanceAssumption
  <1>2. Amount[s] * Weight[s] \in Nat BY <1>1
  <1>3. \A n, d \in Nat : d > 0 => n \div d \in Nat OBVIOUS
  <1>4. (Amount[s] * Weight[s]) \div Bps \in Nat BY <1>1, <1>2, <1>3
  <1> QED BY <1>4 DEF Power

\* Before InitializeGovernance the invariant holds: there is no proposal.
LEMMA InitGov == GovInit => GovInv
  <1> SUFFICES ASSUME GovInit PROVE GovInv OBVIOUS
  <1>1. GovTypeOK BY DEF GovInit, GovTypeOK
  <1>2. \A p \in Proposals : proposals[p] = NoProposal BY DEF GovInit
  <1>3. PassedByVoteOrAuthority
    BY <1>2, NoProposalStatus DEF PassedByVoteOrAuthority, Justified, Unset
  <1>4. IdsAreUnique BY <1>2 DEF IdsAreUnique, Open
  <1> QED BY <1>1, <1>3, <1>4 DEF GovInv

\* A step that rewrites one proposal, keeping its id, keeps the invariant when
\* what it writes is justified.
LEMMA OneProposalChanges ==
  ASSUME GovInv, NEW p \in Proposals, proposals[p] \in ProposalType,
         NEW new \in ProposalType, new.id = proposals[p].id, Justified(new),
         proposals' = [proposals EXCEPT ![p] = new],
         config' = config, epoch' = epoch
  PROVE  GovInv'
  <1> USE DEF GovInv
  <1>1. GovTypeOK' BY DEF GovTypeOK
  <1>2. PassedByVoteOrAuthority'
    <2> SUFFICES ASSUME NEW q \in Proposals PROVE Justified(proposals[q])'
      BY DEF PassedByVoteOrAuthority
    <2>1. proposals'[q] = IF q = p THEN new ELSE proposals[q] BY DEF GovTypeOK
    <2>2. Justified(proposals[q]) BY DEF PassedByVoteOrAuthority
    <2> QED BY <2>1, <2>2 DEF Justified
  <1>3. IdsAreUnique'
    <2>1. \A q \in Proposals :
            /\ proposals'[q].id = proposals[q].id
            /\ proposals'[q] = NoProposal <=> proposals[q] = NoProposal
      BY NoProposalStatus DEF GovTypeOK
    <2> QED BY <2>1 DEF IdsAreUnique, Open
  <1> QED BY <1>1, <1>2, <1>3

\* A step that changes only the configuration keeps the invariant when it
\* keeps the authority and the counter.
LEMMA ConfigChanges ==
  ASSUME GovInv, config \in Configs, config' \in Configs,
         config'.authority = config.authority, config'.nextId = config.nextId,
         proposals' = proposals, epoch' = epoch
  PROVE  GovInv'
  <1> USE DEF GovInv
  <1>1. GovTypeOK' BY DEF GovTypeOK, Configs
  <1>2. PassedByVoteOrAuthority' BY DEF PassedByVoteOrAuthority, Justified
  <1>3. IdsAreUnique' BY DEF IdsAreUnique, Open
  <1> QED BY <1>1, <1>2, <1>3

\* CreateProposal: a fresh id, and a timelock only for the authority.
LEMMA CreateKeeps ==
  ASSUME GovInv, NEW p \in Proposals, NEW who \in Signers, NEW stake \in Stakes,
         NEW type \in Types, CreateProposal(p, who, stake, type)
  PROVE  GovInv'
  <1> USE DEF GovInv
  <1> DEFINE new == NewProposal(who, type)
  <1>1. config \in Configs BY Ready DEF CreateProposal
  <1>2. config.settings \in Settings /\ config.nextId \in 0..GovU64Max BY <1>1 DEF Configs
  <1>3. config.settings.period \in Nat /\ config.settings.timelock \in Nat
    BY <1>2, GovernanceAssumption
  <1>4. epoch \in Nat /\ 0 \in 0..GovU64Max BY GovernanceAssumption DEF GovTypeOK
  <1>5. new \in ProposalType
    <2> DEFINE status == IF config.active THEN "Active" ELSE "Timelocked"
               ends == epoch + config.settings.period
               execution == epoch + config.settings.period + config.settings.timelock
               votes == [c \in VoteChoices |-> 0]
    <2>1. votes \in [VoteChoices -> 0..GovU64Max] BY <1>4
    <2>2. ends \in Nat /\ execution \in Nat BY <1>3, <1>4
    <2>3. config.nextId \in Nat BY <1>2
    <2>4. status \in {"Active", "Timelocked"} \cup Final OBVIOUS
    <2>5. new = [status |-> status, id |-> config.nextId, proposer |-> who, type |-> type,
                 ends |-> ends, execution |-> execution, votes |-> votes]
      BY DEF NewProposal
    <2> HIDE DEF new, status, ends, execution, votes
    <2> QED BY <2>1, <2>2, <2>3, <2>4, <2>5 DEF ProposalType
  <1>6. new.id = config.nextId BY DEF NewProposal
  <1>7. proposals' = [proposals EXCEPT ![p] = new] /\ epoch' = epoch /\ proposals[p] = NoProposal
    BY DEF CreateProposal
  <1>8. config' = [config EXCEPT !.nextId = @ + 1] /\ config.nextId + 1 <= GovU64Max
    BY DEF CreateProposal
  <1>9. config' \in Configs /\ config'.nextId = config.nextId + 1
          /\ config'.authority = config.authority
    <2>1. config' = [ready |-> TRUE, active |-> config.active, authority |-> config.authority,
                     settings |-> config.settings, nextId |-> config.nextId + 1]
      BY <1>1, <1>8 DEF Configs
    <2>2. config.nextId + 1 \in 0..GovU64Max BY <1>2, <1>8, GovernanceAssumption
    <2>3. config.active \in BOOLEAN /\ config.authority \in Signers
            /\ config.settings \in {s \in Settings : Valid(s)}
      BY <1>1 DEF Configs
    <2> QED BY <2>1, <2>2, <2>3 DEF Configs
  <1>10. Justified(new)
    <2>1. new.status = (IF config.active THEN "Active" ELSE "Timelocked") /\ new.proposer = who
            /\ new.votes = [c \in VoteChoices |-> 0]
      BY DEF NewProposal
    <2>2. CASE config.active BY <2>1, <2>2 DEF Justified
    <2>3. CASE ~config.active
      <3>1. who = config.authority BY <2>3 DEF CreateProposal, MayPropose
      <3>2. Total(new) = 0 BY <2>1 DEF Total, VoteChoices
      <3> QED BY <2>1, <2>3, <3>1, <3>2 DEF Justified
    <2> QED BY <2>2, <2>3
  <1> HIDE DEF new
  <1>11. GovTypeOK' BY <1>5, <1>7, <1>9 DEF GovTypeOK, Configs
  <1>12. PassedByVoteOrAuthority'
    <2> SUFFICES ASSUME NEW q \in Proposals PROVE Justified(proposals[q])'
      BY DEF PassedByVoteOrAuthority
    <2>1. proposals'[q] = IF q = p THEN new ELSE proposals[q] BY <1>7 DEF GovTypeOK
    <2>2. Justified(proposals[q]) BY DEF PassedByVoteOrAuthority
    <2> QED BY <2>1, <2>2, <1>7, <1>9, <1>10 DEF Justified
  <1>13. IdsAreUnique'
    <2>1. \A q \in Proposals : proposals'[q] = IF q = p THEN new ELSE proposals[q]
      BY <1>7 DEF GovTypeOK
    <2>2. \A q \in Open' : q # p => q \in Open /\ proposals'[q] = proposals[q]
      BY <2>1 DEF Open
    <2>3. \A q \in Open : proposals[q].id \in Nat /\ proposals[q].id < config.nextId
      BY ProposalHolds DEF IdsAreUnique, Open, ProposalType
    <2>4. proposals'[p].id = config.nextId BY <2>1, <1>6
    <2>5. \A q \in Open' : q # p => proposals'[q].id \in Nat /\ proposals'[q].id < config.nextId
      BY <2>2, <2>3
    <2>6. \A q \in Open' : proposals'[q].id < config'.nextId
      BY <2>4, <2>5, <1>2, <1>9
    <2>7. \A q, r \in Open' : proposals'[q].id = proposals'[r].id => q = r
      <3> SUFFICES ASSUME NEW q \in Open', NEW r \in Open',
                          proposals'[q].id = proposals'[r].id, q # r
                   PROVE FALSE
        OBVIOUS
      <3>1. CASE q = p BY <3>1, <2>4, <2>5, <1>2
      <3>2. CASE r = p BY <3>2, <2>4, <2>5, <1>2
      <3>3. CASE q # p /\ r # p BY <3>3, <2>2 DEF IdsAreUnique
      <3> QED BY <3>1, <3>2, <3>3
    <2> QED BY <2>6, <2>7 DEF IdsAreUnique
  <1> QED BY <1>11, <1>12, <1>13

\* CastVote: only an Active proposal changes, and a tally that still fits.
LEMMA VoteKeeps ==
  ASSUME GovInv, NEW p \in Proposals, NEW stake \in Stakes, NEW r \in Records,
         NEW choice \in VoteChoices, CastVote(p, stake, r, choice)
  PROVE  GovInv'
  <1> DEFINE old == proposals[p]
             new == [old EXCEPT !.votes[choice] = @ + Power(stake)]
  <1>1. old.status = "Active" BY DEF CastVote
  <1>2. old \in ProposalType
    BY <1>1, ProposalHolds, NoProposalStatus DEF GovInv, Unset
  <1>3. Power(stake) \in Nat BY PowerIsNat
  <1>4. old.votes[choice] + Power(stake) \in 0..GovU64Max
    BY SMT, <1>2, <1>3 DEF CastVote, ProposalType
  <1>5. new \in ProposalType BY <1>2, <1>4 DEF ProposalType
  <1>6. new.id = old.id /\ new.status = "Active" BY <1>1, <1>2 DEF ProposalType
  <1>7. Justified(new) BY <1>6 DEF Justified
  <1>8. proposals' = [proposals EXCEPT ![p] = new] /\ config' = config /\ epoch' = epoch
    BY DEF CastVote
  <1> QED BY <1>2, <1>5, <1>6, <1>7, <1>8, OneProposalChanges

\* A step that only assigns the status of a proposal.
LEMMA StatusChanges ==
  ASSUME GovInv, NEW p \in Proposals, proposals[p] # NoProposal,
         NEW status \in {"Active", "Timelocked"} \cup Final,
         Justified([proposals[p] EXCEPT !.status = status]),
         proposals' = [proposals EXCEPT ![p].status = status],
         config' = config, epoch' = epoch
  PROVE  GovInv'
  <1> DEFINE new == [proposals[p] EXCEPT !.status = status]
  <1>1. proposals[p] \in ProposalType BY ProposalHolds DEF GovInv
  <1>2. new \in ProposalType /\ new.id = proposals[p].id BY <1>1 DEF ProposalType
  <1>3. proposals' = [proposals EXCEPT ![p] = new] OBVIOUS
  <1> QED BY <1>1, <1>2, <1>3, OneProposalChanges

\* CountVotes: the tally that leads to the timelock met the threshold in force.
LEMMA CountKeeps ==
  ASSUME GovInv, NEW p \in Proposals, NEW who \in Signers, CountVotes(p, who)
  PROVE  GovInv'
  <1> DEFINE old == proposals[p]
             new == [old EXCEPT !.status = "Timelocked"]
             share == Share(old.votes["For"], Decisive(old))
  <1>1. old.status = "Active" /\ epoch >= old.ends /\ config.ready
          /\ config' = config /\ epoch' = epoch
    BY DEF CountVotes, MayExecute
  <1>2. old # NoProposal /\ old \in ProposalType
    BY <1>1, ProposalHolds, NoProposalStatus DEF GovInv, Unset
  <1>3. CASE Outcome(old) = "Timelocked"
    <2>1. proposals' = [proposals EXCEPT ![p].status = "Timelocked"] BY <1>3 DEF CountVotes
    <2>2. Total(old) # 0 /\ Decisive(old) # 0 /\ ~(share < PassThreshold(old))
      <3>1. Total(old) \in Nat BY <1>2 DEF Total, ProposalType, VoteChoices
      <3> QED BY <1>3, <3>1 DEF Outcome
    <2>3. Decisive(old) \in Nat /\ old.votes["For"] \in Nat /\ old.type \in Types
      BY SMT, <1>2 DEF Decisive, ProposalType, VoteChoices
    <2>4. Decisive(old) > 0 BY <2>2, <2>3
    <2>5. share \in Nat
      <3>1. old.votes["For"] * Bps \in Nat BY <2>3, GovernanceAssumption
      <3>2. \A n, d \in Nat : d > 0 => n \div d \in Nat OBVIOUS
      <3> QED BY <2>3, <2>4, <3>1, <3>2 DEF Share
    <2>6. config.settings \in Settings /\ Valid(config.settings)
      BY <1>1, Ready DEF GovInv, Configs
    <2>7. config.settings.pass \in Nat /\ EmergencyPass \in Nat
      BY SMT, <2>6, GovernanceAssumption
    <2>8. new.status = "Timelocked" /\ new.votes = old.votes /\ new.ends = old.ends
            /\ new.type = old.type
      BY <1>2 DEF ProposalType
    <2>9. Decisive(new) = Decisive(old) /\ Share(new.votes["For"], Decisive(new)) = share
      BY <2>8 DEF Decisive
    <2>10. old.type = "EmergencyUnlock" => share >= EmergencyPass
      BY SMT, <2>2, <2>5, <2>7 DEF PassThreshold
    <2>11. old.type # "EmergencyUnlock" => share >= config.settings.pass
      BY <2>2, <2>5, <2>7 DEF PassThreshold
    <2> HIDE DEF new, share
    <2>12. Justified(new)
      BY <1>1, <2>4, <2>6, <2>8, <2>9, <2>10, <2>11 DEF Justified
    <2> QED BY <1>1, <1>2, <2>1, <2>12, StatusChanges DEF new
  <1>4. CASE Outcome(old) # "Timelocked"
    <2>1. proposals' = proposals BY <1>4 DEF CountVotes
    <2> QED BY <1>1, <2>1 DEF GovInv, GovTypeOK, PassedByVoteOrAuthority, Justified, IdsAreUnique, Open
  <1> QED BY <1>3, <1>4

\* Execute: a justified proposal past its execution epoch.
LEMMA ExecuteKeeps ==
  ASSUME GovInv, NEW p \in Proposals, NEW who \in Signers, Execute(p, who)
  PROVE  GovInv'
  <1> DEFINE old == proposals[p]
             new == [old EXCEPT !.status = "Executed"]
  <1>1. old.status = "Timelocked" /\ epoch >= old.execution /\ old # NoProposal
          /\ config' = config /\ epoch' = epoch
          /\ proposals' = [proposals EXCEPT ![p].status = "Executed"]
    BY DEF Execute, MayExecute
  <1>2. old \in ProposalType BY <1>1, ProposalHolds DEF GovInv
  <1>3. new.proposer = old.proposer /\ new.votes = old.votes /\ new.ends = old.ends
          /\ new.type = old.type /\ new.execution = old.execution /\ new.status = "Executed"
    BY <1>2 DEF ProposalType
  <1>4. Total(new) = Total(old) /\ Decisive(new) = Decisive(old) BY <1>3 DEF Total, Decisive
  <1>5. Justified(old) BY DEF GovInv, PassedByVoteOrAuthority
  <1> HIDE DEF new
  <1>6. Justified(new) BY <1>1, <1>3, <1>4, <1>5 DEF Justified
  <1> QED BY <1>1, <1>6, StatusChanges DEF new, Final

\* CancelProposal and VetoProposal assign a status that needs no reason.
LEMMA StopKeeps ==
  ASSUME GovInv, NEW p \in Proposals,
         VetoProposal(p) \/ \E who \in Signers : CancelProposal(p, who)
  PROVE  GovInv'
  <1>1. PICK status \in {"Vetoed", "Cancelled"} :
          /\ proposals[p].status \in {"Active", "Timelocked"}
          /\ proposals' = [proposals EXCEPT ![p].status = status]
          /\ config' = config /\ epoch' = epoch
    BY DEF VetoProposal, CancelProposal
  <1>2. proposals[p] # NoProposal BY <1>1, NoProposalStatus DEF Unset
  <1>3. proposals[p] \in ProposalType BY <1>2, ProposalHolds DEF GovInv
  <1>4. [proposals[p] EXCEPT !.status = status].status = status BY <1>3 DEF ProposalType
  <1>5. Justified([proposals[p] EXCEPT !.status = status]) BY <1>4 DEF Justified
  <1> QED BY <1>1, <1>2, <1>5, StatusChanges DEF Final

\* InitializeGovernance happens before any proposal exists.
LEMMA InitializeKeeps ==
  ASSUME GovInv, NEW authority \in Authorities, NEW settings \in Settings,
         InitializeGovernance(authority, settings)
  PROVE  GovInv'
  <1>1. ~config.ready /\ Valid(settings) /\ proposals' = proposals /\ epoch' = epoch
    BY DEF InitializeGovernance
  <1>2. \A p \in Proposals : proposals[p] = NoProposal
    BY <1>1, ExistingNeedsConfig DEF GovInv, Configs
  <1>3. authority \in Signers /\ 0 \in 0..GovU64Max BY GovernanceAssumption
  <1>4. config' \in Configs BY <1>1, <1>3 DEF InitializeGovernance, Configs
  <1>5. GovTypeOK' BY <1>1, <1>4 DEF GovInv, GovTypeOK, Configs
  <1>6. PassedByVoteOrAuthority'
    BY <1>1, <1>2, NoProposalStatus DEF PassedByVoteOrAuthority, Justified, Unset
  <1>7. IdsAreUnique' BY <1>1, <1>2 DEF IdsAreUnique, Open
  <1> QED BY <1>5, <1>6, <1>7 DEF GovInv

\* ActivateGovernance and UpdateConfig keep the authority and the counter.
LEMMA ConfigKeeps ==
  ASSUME GovInv, NEW who \in Signers,
         ActivateGovernance(who) \/ \E s \in Settings : UpdateConfig(who, s)
  PROVE  GovInv'
  <1>1. config \in Configs /\ proposals' = proposals /\ epoch' = epoch
    BY Ready DEF GovInv, ActivateGovernance, UpdateConfig
  <1>2. PICK active \in BOOLEAN, s \in Settings :
          Valid(s) /\ config' = [ready |-> TRUE, active |-> active, authority |-> config.authority,
                                 settings |-> s, nextId |-> config.nextId]
    <2>1. CASE ActivateGovernance(who)
      <3>1. config' = [config EXCEPT !.active = TRUE] BY <2>1 DEF ActivateGovernance
      <3>2. config' = [ready |-> TRUE, active |-> TRUE, authority |-> config.authority,
                       settings |-> config.settings, nextId |-> config.nextId]
        BY <1>1, <3>1 DEF Configs
      <3>3. config.settings \in Settings /\ Valid(config.settings) BY <1>1 DEF Configs
      <3> QED BY <3>2, <3>3
    <2>2. ASSUME NEW s \in Settings, UpdateConfig(who, s)
          PROVE  Valid(s) /\ config' = [ready |-> TRUE, active |-> config.active,
                                        authority |-> config.authority,
                                        settings |-> s, nextId |-> config.nextId]
      BY <1>1, <2>2 DEF UpdateConfig, Configs
    <2>3. config.active \in BOOLEAN BY <1>1 DEF Configs
    <2> QED BY <2>1, <2>2, <2>3
  <1>3. config' \in Configs BY <1>1, <1>2 DEF Configs
  <1> QED BY <1>1, <1>2, <1>3, ConfigChanges

\* NextEpoch: what was late enough stays late enough.
LEMMA EpochKeeps ==
  ASSUME GovInv, NextEpoch PROVE GovInv'
  <1>1. epoch' = epoch + 1 /\ proposals' = proposals /\ config' = config /\ epoch \in Nat
    BY DEF NextEpoch, GovInv, GovTypeOK
  <1>2. GovTypeOK'
    <2>1. epoch' \in Nat BY <1>1
    <2>2. GovTypeOK BY DEF GovInv
    <2> QED BY <1>1, <2>1, <2>2 DEF GovTypeOK
  <1>3. PassedByVoteOrAuthority'
    <2> SUFFICES ASSUME NEW q \in Proposals PROVE Justified(proposals[q])'
      BY DEF PassedByVoteOrAuthority
    <2>1. Justified(proposals[q]) BY DEF GovInv, PassedByVoteOrAuthority
    <2>2. CASE proposals[q] = NoProposal
      BY <1>1, <2>2, NoProposalStatus DEF Justified, Unset
    <2>3. CASE proposals[q] # NoProposal
      <3>1. proposals[q].ends \in Nat /\ proposals[q].execution \in Nat
        BY <2>3, ProposalHolds DEF GovInv, ProposalType
      <3> QED BY <1>1, <2>1, <3>1 DEF Justified
    <2> QED BY <2>2, <2>3
  <1>4. IdsAreUnique' BY <1>1 DEF GovInv, IdsAreUnique, Open
  <1> QED BY <1>2, <1>3, <1>4 DEF GovInv

\* The inductive invariant of the program: one step per instruction.
LEMMA GovInvHolds == GovSpec => []GovInv
  <1>1. GovInv /\ [GovNext]_govVars => GovInv'
    <2> SUFFICES ASSUME GovInv, [GovNext]_govVars PROVE GovInv' OBVIOUS
    <2>1. CASE UNCHANGED govVars
      BY <2>1 DEF govVars, GovInv, GovTypeOK, PassedByVoteOrAuthority, Justified, IdsAreUnique, Open
    <2>2. CASE GovNext
      BY <2>2, InitializeKeeps, CreateKeeps, VoteKeeps, CountKeeps, ExecuteKeeps, StopKeeps,
         ConfigKeeps, EpochKeeps DEF GovNext
    <2> QED BY <2>1, <2>2
  <1> QED BY <1>1, InitGov, PTL DEF GovSpec

\* No proposal reaches the timelock, or is executed, but by a vote that met the
\* threshold or by the authority before activation (process_create_proposal,
\* process_execute_proposal), for any sequence of UpdateConfig.
THEOREM PassingIsJustified == GovSpec => []PassedByVoteOrAuthority
  BY GovInvHolds, PTL DEF GovInv

\* Every proposal has its own id (process_create_proposal's counter).
THEOREM ProposalIdsAreUnique == GovSpec => []IdsAreUnique
  BY GovInvHolds, PTL DEF GovInv

\* One proposal over one step: what DecisionsAreFinal says of it.
FinalStep(p) ==
  /\ proposals[p].status \in Final => proposals'[p] = proposals[p]
  /\ proposals[p].status # "Active" \/ epoch >= proposals[p].ends
       => proposals'[p].votes = proposals[p].votes

\* An instruction leaves the other proposals alone, so only the one it names
\* has to be looked at.
LEMMA OneNamed ==
  ASSUME GovTypeOK, NEW p \in Proposals, NEW new, proposals' = [proposals EXCEPT ![p] = new],
         FinalStep(p), NEW q \in Proposals
  PROVE  FinalStep(q)
  <1>1. q # p => proposals'[q] = proposals[q] BY DEF GovTypeOK
  <1> QED BY <1>1 DEF FinalStep

Assigns(p, status) == proposals' = [proposals EXCEPT ![p].status = status]

\* A step that only assigns the status of an undecided proposal.
LEMMA UndecidedStep ==
  ASSUME GovTypeOK, NEW p \in Proposals, NEW q \in Proposals, NEW status,
         proposals[p].status = "Active" \/ proposals[p].status = "Timelocked",
         Assigns(p, status)
  PROVE  FinalStep(q)
  <1> DEFINE new == [proposals[p] EXCEPT !.status = status]
  <1>1. proposals[p] \in ProposalType BY ProposalHolds, NoProposalStatus DEF Unset
  <1>2. new.votes = proposals[p].votes BY <1>1 DEF ProposalType
  <1>3. proposals' = [proposals EXCEPT ![p] = new] BY DEF Assigns
  <1>4. proposals'[p] = new BY <1>3 DEF GovTypeOK
  <1> HIDE DEF new
  <1>5. FinalStep(p) BY <1>2, <1>4 DEF FinalStep, Final
  <1> QED BY <1>3, <1>5, OneNamed

\* No instruction changes a decided proposal or a closed tally.
LEMMA StepsAreFinal ==
  ASSUME GovInv, GovNext, NEW q \in Open PROVE FinalStep(q)
  <1>0. GovTypeOK /\ q \in Proposals /\ proposals[q] # NoProposal BY DEF GovInv, Open
  <1>1. ASSUME proposals' = proposals PROVE FinalStep(q) BY <1>1 DEF FinalStep
  <1>2. ASSUME NEW p \in Proposals, NEW a \in Signers, NEW s \in Stakes, NEW t \in Types,
               CreateProposal(p, a, s, t)
        PROVE  FinalStep(q)
    <2>1. proposals[p] = NoProposal /\ proposals' = [proposals EXCEPT ![p] = NewProposal(a, t)]
      BY <1>2 DEF CreateProposal
    <2>2. proposals'[q] = proposals[q] BY <1>0, <2>1 DEF GovTypeOK
    <2> QED BY <2>2 DEF FinalStep
  <1>3. ASSUME NEW p \in Proposals, NEW s \in Stakes, NEW r \in Records,
               NEW c \in VoteChoices, CastVote(p, s, r, c)
        PROVE  FinalStep(q)
    <2>1. PICK new : proposals' = [proposals EXCEPT ![p] = new] BY <1>3 DEF CastVote
    <2>2. proposals[p].status = "Active" /\ epoch < proposals[p].ends BY <1>3 DEF CastVote
    <2>3. proposals[p] \in ProposalType
      BY <1>0, <2>2, ProposalHolds, NoProposalStatus DEF Unset
    <2>4. epoch \in Nat /\ proposals[p].ends \in Nat BY <1>0, <2>3 DEF GovTypeOK, ProposalType
    <2>5. FinalStep(p) BY <2>2, <2>4 DEF FinalStep, Final
    <2> QED BY <1>0, <2>1, <2>5, OneNamed
  <1>5. ASSUME NEW p \in Proposals, NEW a \in Signers,
               CountVotes(p, a) \/ Execute(p, a) \/ CancelProposal(p, a)
        PROVE  FinalStep(q)
    <2>1. \/ proposals[p].status = "Active" \/ proposals[p].status = "Timelocked"
      BY <1>5 DEF CountVotes, Execute, CancelProposal
    <2>2. \/ proposals' = proposals
          \/ Assigns(p, "Timelocked")
          \/ Assigns(p, "Executed")
          \/ Assigns(p, "Cancelled")
      BY <1>5 DEF Assigns, CountVotes, Execute, CancelProposal
    <2> QED BY <1>0, <1>1, <2>1, <2>2, UndecidedStep
  <1>6. ASSUME NEW p \in Proposals, VetoProposal(p) PROVE FinalStep(q)
    <2>1. proposals[p].status = "Active" \/ proposals[p].status = "Timelocked"
      BY <1>6 DEF VetoProposal
    <2>2. Assigns(p, "Vetoed") BY <1>6 DEF Assigns, VetoProposal
    <2> QED BY <1>0, <2>1, <2>2, UndecidedStep
  <1>7. ASSUME \/ \E a \in Authorities, s \in Settings : InitializeGovernance(a, s)
               \/ \E a \in Signers : ActivateGovernance(a)
               \/ \E a \in Signers, s \in Settings : UpdateConfig(a, s)
               \/ NextEpoch
        PROVE  FinalStep(q)
    <2>1. proposals' = proposals
      BY <1>7 DEF InitializeGovernance, ActivateGovernance, UpdateConfig, NextEpoch
    <2> QED BY <1>1, <2>1
  <1> QED BY <1>2, <1>3, <1>5, <1>6, <1>7 DEF GovNext

\* A decided proposal never changes, and votes are counted only while the
\* voting period lasts (the status and epoch checks of the four handlers).
THEOREM FinalDecisions == GovSpec => DecisionsAreFinal
  <1>1. GovInv /\ [GovNext]_govVars => [\A p \in Open : FinalStep(p)]_govVars
    BY StepsAreFinal
  <1>2. [\A p \in Open : FinalStep(p)]_govVars =>
          [\A p \in Open :
             /\ proposals[p].status \in Final => proposals'[p] = proposals[p]
             /\ proposals[p].status # "Active" \/ epoch >= proposals[p].ends
                  => proposals'[p].votes = proposals[p].votes]_govVars
    BY DEF FinalStep
  <1> QED BY <1>1, <1>2, GovInvHolds, PTL DEF GovSpec, DecisionsAreFinal

\* The tallies need, besides GovInv, that votes name proposals that exist.
VoteRecords == [proposal : Proposals, vote : VoteChoices, weight : Nat]

TallyInv ==
  /\ GovInv
  /\ records \in [Records -> {NoRecord} \cup VoteRecords]
  /\ \A r \in Records : records[r] # NoRecord => records[r].proposal \in Open
  /\ TalliesMatchRecords

\* What the votes of choice c for p weigh.
Weighed(p, c) == SumOver([r \in Ballots(p, c) |-> records[r].weight], Ballots(p, c))

\* A vote record is told apart from an account without one.
LEMMA NoVote ==
  ASSUME NEW v \in VoteRecords PROVE v # NoRecord
<1>1. DOMAIN v = {"proposal", "vote", "weight"} /\ DOMAIN NoRecord = {"proposal"}
  BY DEF VoteRecords, NoRecord
<1>2. "vote" # "proposal"
  OBVIOUS
<1> QED
  BY <1>1, <1>2

\* Instructions that keep the tallies and the records keep the invariant.
LEMMA TalliesUnchanged ==
  ASSUME TallyInv, GovInv', records' = records,
         \A p \in Proposals : proposals'[p] # NoProposal =>
           proposals[p] # NoProposal /\ proposals'[p].votes = proposals[p].votes,
         \A p \in Proposals : proposals[p] # NoProposal => proposals'[p] # NoProposal
  PROVE  TallyInv'
<1>1. Open' = Open
  BY DEF Open
<1>2. \A p, c : Ballots(p, c)' = Ballots(p, c)
  BY DEF Ballots
<1>3. TalliesMatchRecords'
  <2> SUFFICES ASSUME NEW p \in Open, NEW c \in VoteChoices
               PROVE  proposals'[p].votes[c] = Weighed(p, c)'
    BY <1>1 DEF TalliesMatchRecords, Weighed
  <2>1. Weighed(p, c)' = Weighed(p, c)
    BY <1>2 DEF Weighed
  <2>2. proposals'[p].votes = proposals[p].votes
    BY <1>1 DEF Open
  <2>3. proposals[p].votes[c] = Weighed(p, c)
    BY DEF TallyInv, TalliesMatchRecords, Weighed
  <2> QED
    BY <2>1, <2>2, <2>3
<1> QED
  BY <1>1, <1>3 DEF TallyInv

\* CreateProposal: no vote names the new proposal yet.
LEMMA CreateTallies ==
  ASSUME TallyInv, GovInv', NEW p \in Proposals, NEW who \in Signers, NEW stake \in Stakes,
         NEW type \in Types, CreateProposal(p, who, stake, type)
  PROVE  TallyInv'
<1> DEFINE new == NewProposal(who, type)
<1>1. proposals' = [proposals EXCEPT ![p] = new] /\ records' = records /\ proposals[p] = NoProposal
  BY DEF CreateProposal
<1>2. DOMAIN proposals = Proposals
  BY DEF TallyInv, GovInv, GovTypeOK
<1>3. proposals'[p] = new /\ \A q \in Proposals : q # p => proposals'[q] = proposals[q]
  BY <1>1, <1>2
<1>4. new.votes = [c \in VoteChoices |-> 0] /\ new.status # Unset
  BY DEF NewProposal, Unset
<1> HIDE DEF new
<1>5. new # NoProposal
  BY <1>4, NoProposalStatus
<1>6. Open' = Open \cup {p} /\ p \notin Open
  BY <1>1, <1>3, <1>5 DEF Open
<1>7. \A q, c : Ballots(q, c)' = Ballots(q, c)
  BY <1>1 DEF Ballots
<1>8. \A q, c : Weighed(q, c)' = Weighed(q, c)
  BY <1>1, <1>7 DEF Weighed
<1>9. TalliesMatchRecords'
  <2> SUFFICES ASSUME NEW q \in Open', NEW c \in VoteChoices
               PROVE  proposals'[q].votes[c] = Weighed(q, c)
    BY <1>8 DEF TalliesMatchRecords, Weighed
  <2>1. CASE q = p
    <3>1. Ballots(p, c) = {}
      BY <1>6 DEF TallyInv, Ballots
    <3>2. Weighed(p, c) = 0
      BY <3>1, SumEmpty DEF Weighed
    <3> QED
      BY <1>3, <1>4, <2>1, <3>2
  <2>2. CASE q # p
    <3>1. q \in Open /\ q \in Proposals
      BY <1>6, <2>2 DEF Open
    <3>2. proposals[q].votes[c] = Weighed(q, c)
      BY <3>1 DEF TallyInv, TalliesMatchRecords, Weighed
    <3> QED
      BY <1>3, <2>2, <3>1, <3>2
  <2> QED
    BY <2>1, <2>2
<1>10. \A r \in Records : records'[r] # NoRecord => records'[r].proposal \in Open'
  BY <1>1, <1>6 DEF TallyInv
<1>11. records' \in [Records -> {NoRecord} \cup VoteRecords]
  BY <1>1 DEF TallyInv
<1> QED
  BY <1>9, <1>10, <1>11 DEF TallyInv

\* CastVote: the record that is written weighs what the tally gains.
LEMMA VoteTallies ==
  ASSUME TallyInv, GovInv', NEW p \in Proposals, NEW stake \in Stakes, NEW r \in Records,
         NEW choice \in VoteChoices, CastVote(p, stake, r, choice)
  PROVE  TallyInv'
<1> DEFINE vote == [proposal |-> p, vote |-> choice, weight |-> Power(stake)]
<1>1. /\ proposals[p].status = "Active" /\ records[r] = NoRecord
      /\ proposals' = [proposals EXCEPT ![p].votes[choice] = @ + Power(stake)]
      /\ records' = [records EXCEPT ![r] = vote]
  BY DEF CastVote
<1>2. Power(stake) \in Nat
  BY PowerIsNat
<1>3. vote \in VoteRecords /\ vote # NoRecord
  <2>1. vote \in VoteRecords
    BY <1>2 DEF VoteRecords
  <2> QED
    BY <2>1, NoVote
<1>4. vote.proposal = p /\ vote.vote = choice /\ vote.weight = Power(stake)
  OBVIOUS
<1> HIDE DEF vote
<1>5. /\ records \in [Records -> {NoRecord} \cup VoteRecords]
      /\ records' \in [Records -> {NoRecord} \cup VoteRecords]
      /\ records'[r] = vote /\ \A x \in Records : x # r => records'[x] = records[x]
  BY <1>1, <1>3 DEF TallyInv
<1>6. proposals[p] \in ProposalType /\ p \in Open
  BY <1>1, ProposalHolds, NoProposalStatus DEF TallyInv, GovInv, Unset, Open
<1>7. /\ proposals'[p].votes = [proposals[p].votes EXCEPT ![choice] = @ + Power(stake)]
      /\ proposals'[p].status = "Active"
      /\ \A q \in Proposals : q # p => proposals'[q] = proposals[q]
  <2>1. DOMAIN proposals = Proposals
    BY DEF TallyInv, GovInv, GovTypeOK
  <2> QED
    BY <1>1, <1>6, <2>1 DEF ProposalType
<1>8. Open' = Open
  BY <1>6, <1>7, NoProposalStatus DEF Open, Unset
<1>9. \A q, c : Ballots(q, c)' = IF q = p /\ c = choice THEN Ballots(q, c) \cup {r}
                                ELSE Ballots(q, c)
  BY <1>1, <1>3, <1>4, <1>5 DEF Ballots
<1>10. ASSUME NEW q, NEW c
       PROVE  /\ IsFiniteSet(Ballots(q, c)) /\ r \notin Ballots(q, c)
              /\ \A x \in Ballots(q, c) : /\ records[x].weight \in Int
                                         /\ records'[x] = records[x]
  <2>1. Ballots(q, c) \subseteq Records /\ r \notin Ballots(q, c)
    BY <1>1 DEF Ballots
  <2>2. IsFiniteSet(Ballots(q, c))
    BY <2>1, GovernanceAssumption, FS_Subset
  <2>3. \A x \in Ballots(q, c) : records[x] \in VoteRecords
    BY <1>5 DEF Ballots
  <2> QED
    BY SMT, <1>5, <2>1, <2>2, <2>3 DEF VoteRecords
<1>11. ASSUME NEW q, NEW c, ~(q = p /\ c = choice)
       PROVE  Weighed(q, c)' = Weighed(q, c)
  <2> DEFINE B == Ballots(q, c)
             f == [x \in B |-> records[x].weight]
             g == [x \in B |-> records'[x].weight]
  <2>1. IsFiniteSet(B) /\ (\A x \in B : f[x] \in Int) /\ \A x \in B : g[x] = f[x]
    BY <1>10
  <2>2. Weighed(q, c) = SumOver(f, B)
    BY DEF Weighed
  <2>3. Weighed(q, c)' = SumOver(g, B)
    BY <1>9, <1>11 DEF Weighed
  <2> HIDE DEF B, f, g
  <2>4. SumOver(g, B) = SumOver(f, B)
    BY ONLY <2>1, SumSame
  <2> QED
    BY <2>2, <2>3, <2>4
<1>12. Weighed(p, choice)' = Weighed(p, choice) + Power(stake)
  <2> DEFINE B == Ballots(p, choice)
             f == [x \in B |-> records[x].weight]
             g == [x \in B \cup {r} |-> records'[x].weight]
  <2>1. /\ IsFiniteSet(B) /\ r \notin B
        /\ \A x \in B : f[x] \in Int
        /\ \A x \in B : g[x] = f[x]
    BY <1>10
  <2>2. Weighed(p, choice) = SumOver(f, B)
    BY DEF Weighed
  <2>3. Weighed(p, choice)' = SumOver(g, B \cup {r})
    BY <1>9 DEF Weighed
  <2>4. g[r] = Power(stake)
    BY <1>4, <1>5
  <2> HIDE DEF B, f, g
  <2>5. SumOver(g, B) = SumOver(f, B)
    BY ONLY <2>1, SumSame
  <2>6. (\A x \in B : g[x] \in Int) /\ g[r] \in Int
    BY SMT, <1>2, <2>1, <2>4
  <2>7. SumOver(g, B \cup {r}) = SumOver(g, B) + g[r]
    BY ONLY <2>1, <2>6, SumAdd
  <2> QED
    BY <2>2, <2>3, <2>4, <2>5, <2>7
<1>13. TalliesMatchRecords'
  <2> SUFFICES ASSUME NEW q \in Open, NEW c \in VoteChoices
               PROVE  proposals'[q].votes[c] = Weighed(q, c)'
    BY <1>8 DEF TalliesMatchRecords, Weighed
  <2>1. proposals[q].votes[c] = Weighed(q, c) /\ q \in Proposals
    BY DEF TallyInv, TalliesMatchRecords, Weighed, Open
  <2>2. CASE q = p /\ c = choice
    <3>1. proposals'[p].votes[choice] = proposals[p].votes[choice] + Power(stake)
      BY <1>6, <1>7 DEF ProposalType
    <3> QED
      BY <1>12, <2>1, <2>2, <3>1
  <2>3. CASE ~(q = p /\ c = choice)
    <3>1. proposals'[q].votes[c] = proposals[q].votes[c]
      BY <1>6, <1>7, <2>1, <2>3 DEF ProposalType
    <3> QED
      BY <1>11, <2>1, <2>3, <3>1
  <2> QED
    BY <2>2, <2>3
<1>14. \A x \in Records : records'[x] # NoRecord => records'[x].proposal \in Open'
  BY <1>4, <1>5, <1>6, <1>8 DEF TallyInv
<1> QED
  BY <1>5, <1>13, <1>14 DEF TallyInv

\* A new status keeps the tallies.
LEMMA StatusTallies ==
  ASSUME TallyInv, GovInv', NEW p \in Proposals, NEW status,
         proposals[p].status = "Active" \/ proposals[p].status = "Timelocked",
         status # Unset, Assigns(p, status), records' = records
  PROVE  TallyInv'
<1>1. proposals[p] \in ProposalType /\ proposals[p] # NoProposal
  BY ProposalHolds, NoProposalStatus DEF TallyInv, GovInv, Unset
<1>2. DOMAIN proposals = Proposals
  BY DEF TallyInv, GovInv, GovTypeOK
<1>3. /\ proposals'[p].votes = proposals[p].votes /\ proposals'[p].status = status
      /\ \A q \in Proposals : q # p => proposals'[q] = proposals[q]
  BY <1>1, <1>2 DEF Assigns, ProposalType
<1>4. proposals'[p] # NoProposal
  BY <1>3, NoProposalStatus
<1> QED
  BY <1>1, <1>3, <1>4, TalliesUnchanged

\* Every instruction keeps the tallies and the records together.
LEMMA TallyStep ==
  ASSUME TallyInv, GovInv', GovNext PROVE TallyInv'
<1>1. ASSUME proposals' = proposals, records' = records PROVE TallyInv'
  BY <1>1, TalliesUnchanged
<1>2. CASE \E p \in Proposals, a \in Signers, s \in Stakes, t \in Types : CreateProposal(p, a, s, t)
  BY <1>2, CreateTallies
<1>3. CASE \E p \in Proposals, s \in Stakes, r \in Records, c \in VoteChoices :
             CastVote(p, s, r, c)
  BY <1>3, VoteTallies
<1>4. ASSUME NEW p \in Proposals, NEW a \in Signers,
             CountVotes(p, a) \/ Execute(p, a) \/ CancelProposal(p, a)
      PROVE  TallyInv'
  <2>1. proposals[p].status = "Active" \/ proposals[p].status = "Timelocked"
    BY <1>4 DEF CountVotes, Execute, CancelProposal
  <2>2. /\ records' = records
        /\ \/ proposals' = proposals
           \/ Assigns(p, "Timelocked") \/ Assigns(p, "Executed") \/ Assigns(p, "Cancelled")
    BY <1>4 DEF Assigns, CountVotes, Execute, CancelProposal
  <2> QED
    BY <1>1, <2>1, <2>2, StatusTallies DEF Unset
<1>5. ASSUME NEW p \in Proposals, VetoProposal(p) PROVE TallyInv'
  <2>1. proposals[p].status = "Active" \/ proposals[p].status = "Timelocked"
    BY <1>5 DEF VetoProposal
  <2>2. Assigns(p, "Vetoed") /\ records' = records
    BY <1>5 DEF Assigns, VetoProposal
  <2> QED
    BY <2>1, <2>2, StatusTallies DEF Unset
<1>6. CASE \/ \E a \in Authorities, s \in Settings : InitializeGovernance(a, s)
           \/ \E a \in Signers : ActivateGovernance(a)
           \/ \E a \in Signers, s \in Settings : UpdateConfig(a, s)
           \/ NextEpoch
  <2>1. proposals' = proposals /\ records' = records
    BY <1>6 DEF InitializeGovernance, ActivateGovernance, UpdateConfig, NextEpoch
  <2> QED
    BY <1>1, <2>1
<1> QED
  BY <1>2, <1>3, <1>4, <1>5, <1>6 DEF GovNext

\* The tallies of a proposal are the weights of the votes recorded for it:
\* process_cast_vote writes the record once and adds what it wrote.
THEOREM TalliesAreTheVotes == GovSpec => []TalliesMatchRecords
<1>1. GovInit /\ GovInv => TallyInv
  BY DEF GovInit, TallyInv, TalliesMatchRecords, Open
<1>2. TallyInv /\ GovInv' /\ [GovNext]_govVars => TallyInv'
  <2> SUFFICES ASSUME TallyInv, GovInv', UNCHANGED govVars PROVE TallyInv'
    BY TallyStep
  <2>1. proposals' = proposals /\ records' = records
    BY DEF govVars
  <2> QED
    BY <2>1, TalliesUnchanged
<1>3. TallyInv => TalliesMatchRecords
  BY DEF TallyInv
<1> QED
  BY <1>1, <1>2, <1>3, GovInvHolds, PTL DEF GovSpec
=============================================================================
