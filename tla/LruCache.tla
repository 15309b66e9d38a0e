------------------------------ MODULE LruCache ------------------------------
(***************************************************************************)
(* What the hot account cache promises: a map from keys to accounts, with  *)
(* the keys in order of their last use, from which the least recently used *)
(* accounts are taken when the cache is too large.  AccountCache is the    *)
(* arena-allocated list that implements it.                                *)
(***************************************************************************)
EXTENDS Sequences, Sums

CONSTANTS Keys,        \* account public keys
          Accounts,    \* account contents
          MemorySize,  \* MemorySize[a]: bytes the cache charges for a
          Watermark,   \* bytes above which accounts are evicted
          BatchSize    \* most accounts evicted at once

VARIABLES order,       \* cached keys, the most recently used first
          content      \* content[k]: the account cached for k

lruVars == <<order, content>>

Cached == Range(order)

\* The bytes the first n keys of the order account for.
Bytes(n) ==
  SumOver([k \in DOMAIN content |-> MemorySize[content[k]]], {order[i] : i \in 1..n})

\* How many keys are left when accounts are dropped from the end one by one
\* until the rest fits or the batch is full.
Kept ==
  LET lengths == {n \in 0..Len(order) : Len(order) - n <= BatchSize}
      fitting == {n \in lengths : Bytes(n) <= Watermark}
  IN IF fitting # {} THEN Max(fitting) ELSE Min(lengths)

\* The order without k.
Without(k) ==
  IF k \in Cached
  THEN LET i == CHOOSE i \in DOMAIN order : order[i] = k
       IN SubSeq(order, 1, i - 1) \o SubSeq(order, i + 1, Len(order))
  ELSE order

ToFront(k) == <<k>> \o Without(k)

LruInit == order = <<>> /\ content = [k \in {} |-> 0]

LruGet(k) ==
  /\ k \in Cached
  /\ order' = ToFront(k)
  /\ UNCHANGED content

LruInsert(k, a) ==
  /\ order' = ToFront(k)
  /\ content' = [j \in Cached \cup {k} |-> IF j = k THEN a ELSE content[j]]

LruRemove(k) ==
  /\ order' = Without(k)
  /\ content' = [j \in Cached \ {k} |-> content[j]]

LruEvict ==
  /\ order' = SubSeq(order, 1, Kept)
  /\ content' = [j \in Range(SubSeq(order, 1, Kept)) |-> content[j]]

LruNext ==
  \/ \E k \in Keys : LruGet(k) \/ LruRemove(k)
  \/ \E k \in Keys, a \in Accounts : LruInsert(k, a)
  \/ LruEvict

LruSpec == LruInit /\ [][LruNext]_lruVars
=============================================================================
