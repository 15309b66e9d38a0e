---------------------------- MODULE CacheProofs -----------------------------
(***************************************************************************)
(* Proofs about the arena of the hot cache, for any keys, accounts, sizes  *)
(* and policies: it is never corrupted, an eviction takes the least        *)
(* recently used entry, and it implements LruCache (AccountCache).         *)
(***************************************************************************)
EXTENDS AccountCache, CommonProofs

\* How a leaf is tried: Zenon for a second, which is cheap, then the SMT solver
\* and Zenon in turn, and the SMT solver once more with more time.
USE ZenonT(1), SMT, Zenon, Z3T(20)

-----------------------------------------------------------------------------
(* The arena of the hot cache: its links.                                  *)

\* Nodes of an arena with N slots, and caches over it.
NodeRecs(N) == [key : CacheKeys, account : CacheAccounts, access : 1..MaxAccess,
                next : 0..N, prev : 0..N]
Maps(N) == UNION {[K -> 1..N] : K \in SUBSET CacheKeys}
CacheRecs(N) ==
  [map : Maps(N), nodes : [1..N -> NodeRecs(N)], free : Seq(1..N),
   head : 0..N, tail : 0..N, size : Nat]

\* Two arenas hold the same entries: they differ in links only.
SameEntries(c, d, N) ==
  \A j \in 1..N : /\ d.nodes[j].key = c.nodes[j].key
                  /\ d.nodes[j].account = c.nodes[j].account
                  /\ d.nodes[j].access = c.nodes[j].access

\* unlink, field by field.
Unlinked(c, u, i, N) ==
  LET prev == c.nodes[i].prev
      next == c.nodes[i].next
  IN /\ u \in CacheRecs(N)
     /\ u.map = c.map /\ u.free = c.free /\ u.size = c.size
     /\ u.head = (IF prev = NIL THEN next ELSE c.head)
     /\ u.tail = (IF next = NIL THEN prev ELSE c.tail)
     /\ \A j \in 1..N :
          /\ u.nodes[j].prev = IF j = i THEN NIL
                               ELSE IF j # prev /\ j = next THEN prev ELSE c.nodes[j].prev
          /\ u.nodes[j].next = IF j = i THEN NIL
                               ELSE IF j = prev THEN next ELSE c.nodes[j].next
     /\ SameEntries(c, u, N)

\* unlink changes the links of the slot and of its neighbours, and nothing else.
LEMMA UnlinkFields ==
  ASSUME NEW N \in Nat, NEW c \in CacheRecs(N), NEW i \in 1..N
  PROVE  Unlinked(c, Unlink(c, i), i, N)
<1> DEFINE prev == c.nodes[i].prev
           next == c.nodes[i].next
           nodes == [j \in 1..N |->
                       IF j = i THEN [c.nodes[j] EXCEPT !.prev = NIL, !.next = NIL]
                       ELSE IF j = prev THEN [c.nodes[j] EXCEPT !.next = next]
                       ELSE IF j = next THEN [c.nodes[j] EXCEPT !.prev = prev] ELSE c.nodes[j]]
           head == IF prev = NIL THEN next ELSE c.head
           tail == IF next = NIL THEN prev ELSE c.tail
<1>1. /\ c.nodes \in [1..N -> NodeRecs(N)] /\ c.head \in 0..N /\ c.tail \in 0..N
      /\ c.map \in Maps(N) /\ c.free \in Seq(1..N) /\ c.size \in Nat
  BY DEF CacheRecs
<1>2. prev \in 0..N /\ next \in 0..N /\ NIL \in 0..N
  <2>1. c.nodes[i] \in NodeRecs(N)
    BY Zenon, <1>1
  <2>2. prev \in 0..N /\ next \in 0..N
    BY <2>1 DEF NodeRecs
  <2>3. NIL \in 0..N
    BY SMT DEF NIL
  <2> QED
    BY Zenon, <2>2, <2>3
<1>3. Unlink(c, i) = [c EXCEPT !.nodes = nodes, !.head = head, !.tail = tail]
  BY <1>1 DEF Unlink
<1>4. ASSUME NEW j \in 1..N
      PROVE  /\ nodes[j] \in NodeRecs(N)
             /\ nodes[j].prev = IF j = i THEN NIL
                                ELSE IF j # prev /\ j = next THEN prev ELSE c.nodes[j].prev
             /\ nodes[j].next = IF j = i THEN NIL ELSE IF j = prev THEN next ELSE c.nodes[j].next
             /\ nodes[j].key = c.nodes[j].key /\ nodes[j].account = c.nodes[j].account
             /\ nodes[j].access = c.nodes[j].access
  <2>1. c.nodes[j] \in NodeRecs(N)
    BY <1>1
  <2> QED
    BY <1>2, <2>1 DEF NodeRecs
<1>5. nodes \in [1..N -> NodeRecs(N)]
  BY <1>4
<1>6. head \in 0..N /\ tail \in 0..N
  BY <1>1, <1>2
<1> HIDE DEF nodes, head, tail, prev, next
<1>7. /\ Unlink(c, i) \in CacheRecs(N)
      /\ Unlink(c, i).map = c.map /\ Unlink(c, i).free = c.free /\ Unlink(c, i).size = c.size
      /\ Unlink(c, i).head = head /\ Unlink(c, i).tail = tail /\ Unlink(c, i).nodes = nodes
  BY <1>1, <1>3, <1>5, <1>6 DEF CacheRecs
<1> QED
  BY <1>4, <1>7 DEF Unlinked, SameEntries, head, tail, prev, next

\* push_head, field by field.
Pushed(c, p, i, N) ==
  /\ p \in CacheRecs(N)
  /\ p.map = c.map /\ p.free = c.free /\ p.size = c.size
  /\ p.head = i /\ p.tail = (IF c.tail = NIL THEN i ELSE c.tail)
  /\ \A j \in 1..N :
       /\ p.nodes[j].prev = IF j = i THEN NIL ELSE IF j = c.head THEN i ELSE c.nodes[j].prev
       /\ p.nodes[j].next = IF j = i THEN c.head ELSE c.nodes[j].next
  /\ SameEntries(c, p, N)

\* push_head changes the links of the slot and of the old head, and nothing else.
LEMMA PushHeadFields ==
  ASSUME NEW N \in Nat, NEW c \in CacheRecs(N), NEW i \in 1..N
  PROVE  Pushed(c, PushHead(c, i), i, N)
<1> DEFINE nodes == [j \in 1..N |->
                       IF j = i THEN [c.nodes[j] EXCEPT !.prev = NIL, !.next = c.head]
                       ELSE IF j = c.head THEN [c.nodes[j] EXCEPT !.prev = i] ELSE c.nodes[j]]
           tail == IF c.tail = NIL THEN i ELSE c.tail
<1>1. /\ c.nodes \in [1..N -> NodeRecs(N)] /\ c.head \in 0..N /\ c.tail \in 0..N
      /\ c.map \in Maps(N) /\ c.free \in Seq(1..N) /\ c.size \in Nat /\ NIL \in 0..N /\ i \in 0..N
  BY SMT DEF CacheRecs, NIL
<1>2. PushHead(c, i) = [c EXCEPT !.nodes = nodes, !.head = i, !.tail = tail]
  BY <1>1 DEF PushHead
<1>3. ASSUME NEW j \in 1..N
      PROVE  /\ nodes[j] \in NodeRecs(N)
             /\ nodes[j].prev = IF j = i THEN NIL ELSE IF j = c.head THEN i ELSE c.nodes[j].prev
             /\ nodes[j].next = IF j = i THEN c.head ELSE c.nodes[j].next
             /\ nodes[j].key = c.nodes[j].key /\ nodes[j].account = c.nodes[j].account
             /\ nodes[j].access = c.nodes[j].access
  <2>1. c.nodes[j] \in NodeRecs(N)
    BY <1>1
  <2> QED
    BY <1>1, <2>1 DEF NodeRecs
<1>4. nodes \in [1..N -> NodeRecs(N)]
  BY <1>3
<1>6. tail \in 0..N
  BY <1>1
<1> HIDE DEF nodes, tail
<1>5. /\ PushHead(c, i) \in CacheRecs(N)
      /\ PushHead(c, i).map = c.map /\ PushHead(c, i).free = c.free /\ PushHead(c, i).size = c.size
      /\ PushHead(c, i).head = i /\ PushHead(c, i).tail = tail /\ PushHead(c, i).nodes = nodes
  BY <1>1, <1>2, <1>4, <1>6 DEF CacheRecs
<1> QED
  BY <1>3, <1>5 DEF Pushed, SameEntries, tail

\* The functions of the next and of the previous slot of a cache.
NextOf(c) == [j \in DOMAIN c.nodes |-> c.nodes[j].next]
PrevOf(c) == [j \in DOMAIN c.nodes |-> c.nodes[j].prev]

\* What Linked says of a cache is what Chain says of its links.
LEMMA LinkedIsChain ==
  ASSUME NEW c, NEW P, DOMAIN c.nodes = P, NEW s \in Seq(P)
  PROVE  Linked(c, s) <=> Chain(c.head, c.tail, NextOf(c), PrevOf(c), s)
<1> DEFINE L == Len(s)
<1>1. L \in Nat /\ \A m \in 1..L : s[m] \in P
  BY SMT
<1>2. \A j \in P : NextOf(c)[j] = c.nodes[j].next /\ PrevOf(c)[j] = c.nodes[j].prev
  BY DEF NextOf, PrevOf
<1>3. \A m \in 1..(L - 1) : m \in 1..L /\ m + 1 \in 1..L
  BY SMT, <1>1
<1>4. L # 0 => 1 \in 1..L /\ L \in 1..L
  BY SMT, <1>1
<1> HIDE DEF L
<1>5. \A m \in 1..L : NextOf(c)[s[m]] = c.nodes[s[m]].next /\ PrevOf(c)[s[m]] = c.nodes[s[m]].prev
  BY <1>1, <1>2
<1>6. ASSUME NEW m \in 1..(L - 1)
      PROVE  /\ NextOf(c)[s[m]] = c.nodes[s[m]].next
             /\ PrevOf(c)[s[m + 1]] = c.nodes[s[m + 1]].prev
  BY <1>3, <1>5
<1>7. L # 0 => PrevOf(c)[s[1]] = c.nodes[s[1]].prev /\ NextOf(c)[s[L]] = c.nodes[s[L]].next
  BY <1>4, <1>5
<1> QED
  BY <1>6, <1>7 DEF Linked, Chain, L, NIL, NoSlot

\* unlink takes a slot out of the list.
LEMMA UnlinkLinked ==
  ASSUME NEW N \in Nat, NEW c \in CacheRecs(N), NEW s \in Seq(1..N), Distinct(s),
         Linked(c, s), NEW n \in 1..Len(s)
  PROVE  Linked(Unlink(c, s[n]), TakeOut(s, n))
<1> DEFINE i == s[n]
           u == Unlink(c, i)
           r == TakeOut(s, n)
           P == 1..N
<1>1. i \in P /\ NoSlot \notin P /\ NoSlot = NIL
  BY SMT DEF NIL, NoSlot
<1>2. DOMAIN c.nodes = P /\ r \in Seq(P)
  BY TakeOutFacts DEF CacheRecs
<1>3. Unlinked(c, u, i, N)
  BY <1>1, UnlinkFields
<1>4. DOMAIN u.nodes = P
  BY <1>3 DEF Unlinked, CacheRecs
<1> HIDE DEF i, u, r
<1>5. /\ \A j \in P : NextOf(c)[j] = c.nodes[j].next /\ PrevOf(c)[j] = c.nodes[j].prev
      /\ \A j \in P : NextOf(u)[j] = u.nodes[j].next /\ PrevOf(u)[j] = u.nodes[j].prev
  BY <1>2, <1>4 DEF NextOf, PrevOf
<1>6. /\ u.head = BypassedEnd(PrevOf(c)[i], NextOf(c)[i], c.head)
      /\ u.tail = BypassedEnd(NextOf(c)[i], PrevOf(c)[i], c.tail)
  BY <1>1, <1>3, <1>5 DEF Unlinked, BypassedEnd, NIL, NoSlot
<1>7. Bypassed(NextOf(c), PrevOf(c), NextOf(u), PrevOf(u), i, P)
  <2> DEFINE prev == c.nodes[i].prev
             next == c.nodes[i].next
  <2>1. \A j \in P :
          /\ u.nodes[j].prev = IF j = i THEN NIL
                               ELSE IF j # prev /\ j = next THEN prev ELSE c.nodes[j].prev
          /\ u.nodes[j].next = IF j = i THEN NIL
                               ELSE IF j = prev THEN next ELSE c.nodes[j].next
    BY Zenon, <1>3 DEF Unlinked
  <2>2. NextOf(c)[i] = next /\ PrevOf(c)[i] = prev
    BY Zenon, <1>1, <1>5
  <2> HIDE DEF prev, next, P
  <2>3. ASSUME NEW j \in P, j # i
        PROVE  /\ NextOf(u)[j] = IF j = prev THEN next ELSE NextOf(c)[j]
               /\ PrevOf(u)[j] = IF j # prev /\ j = next THEN prev ELSE PrevOf(c)[j]
    BY <1>5, <2>1, <2>3
  <2> QED
    BY Zenon, <2>2, <2>3 DEF Bypassed
<1>8. Chain(c.head, c.tail, NextOf(c), PrevOf(c), s)
  BY <1>2, LinkedIsChain
<1> HIDE DEF P
<1>9. Chain(u.head, u.tail, NextOf(u), PrevOf(u), r)
  BY <1>1, <1>6, <1>7, <1>8, ChainUnlink DEF P, i, r
<1> QED
  BY <1>2, <1>4, <1>9, LinkedIsChain DEF u, r, i

\* push_head puts a slot in front of the list.
LEMMA PushLinked ==
  ASSUME NEW N \in Nat, NEW c \in CacheRecs(N), NEW s \in Seq(1..N), Distinct(s),
         Linked(c, s), NEW i \in 1..N, i \notin Range(s)
  PROVE  Linked(PushHead(c, i), <<i>> \o s)
<1> DEFINE p == PushHead(c, i)
           r == <<i>> \o s
           P == 1..N
<1>1. i \in P /\ NoSlot \notin P /\ NoSlot = NIL
  BY SMT DEF NIL, NoSlot
<1>2. DOMAIN c.nodes = P /\ r \in Seq(P)
  BY InFrontFacts DEF CacheRecs
<1>3. /\ p \in CacheRecs(N)
      /\ p.head = i /\ p.tail = (IF c.tail = NIL THEN i ELSE c.tail)
      /\ \A j \in P :
           /\ p.nodes[j].prev = IF j = i THEN NIL ELSE IF j = c.head THEN i ELSE c.nodes[j].prev
           /\ p.nodes[j].next = IF j = i THEN c.head ELSE c.nodes[j].next
  BY SMT, <1>1, PushHeadFields DEF Pushed
<1>4. DOMAIN p.nodes = P
  BY <1>3 DEF CacheRecs
<1> HIDE DEF p, r, P
<1>5. /\ \A j \in P : NextOf(c)[j] = c.nodes[j].next /\ PrevOf(c)[j] = c.nodes[j].prev
      /\ \A j \in P : NextOf(p)[j] = p.nodes[j].next /\ PrevOf(p)[j] = p.nodes[j].prev
  BY <1>2, <1>4 DEF NextOf, PrevOf
<1>6. Fronted(NextOf(c), PrevOf(c), NextOf(p), PrevOf(p), i, c.head, P)
  <2>1. NextOf(p)[i] = c.head /\ PrevOf(p)[i] = NoSlot
    <3>1. p.nodes[i].next = c.head /\ p.nodes[i].prev = NIL
      BY <1>1, <1>3
    <3> QED
      BY <1>1, <1>5, <3>1
  <2>2. ASSUME NEW j \in P, j # i PROVE NextOf(p)[j] = NextOf(c)[j]
    <3>1. NextOf(p)[j] = p.nodes[j].next /\ NextOf(c)[j] = c.nodes[j].next
      BY Zenon, <1>5
    <3>2. p.nodes[j].next = c.nodes[j].next
      BY Zenon, <1>3, <2>2
    <3> QED
      BY Zenon, <3>1, <3>2
  <2>3. ASSUME NEW j \in P, j # i PROVE PrevOf(p)[j] = IF j = c.head THEN i ELSE PrevOf(c)[j]
    <3>1. PrevOf(p)[j] = p.nodes[j].prev /\ PrevOf(c)[j] = c.nodes[j].prev
      BY Zenon, <1>5
    <3>2. p.nodes[j].prev = IF j = c.head THEN i ELSE c.nodes[j].prev
      BY Zenon, <1>3, <2>3
    <3> QED
      BY Zenon, <3>1, <3>2
  <2> QED
    BY Zenon, <2>1, <2>2, <2>3 DEF Fronted
<1>7. Chain(c.head, c.tail, NextOf(c), PrevOf(c), s)
  BY <1>2, LinkedIsChain DEF P
<1>8. Chain(p.head, p.tail, NextOf(p), PrevOf(p), r)
  <2>1. p.head = i /\ p.tail = BypassedEnd(c.tail, i, c.tail)
    BY Zenon, <1>1, <1>3 DEF BypassedEnd
  <2>2. s \in Seq(P) /\ i \in P /\ NoSlot \notin P
    BY Zenon, <1>1 DEF P
  <2>3. Chain(i, BypassedEnd(c.tail, i, c.tail), NextOf(p), PrevOf(p), <<i>> \o s)
    BY <1>6, <1>7, <2>2, ChainPush
  <2> QED
    BY Zenon, <2>1, <2>3 DEF r
<1> QED
  BY <1>2, <1>4, <1>8, LinkedIsChain DEF p, r

\* Two caches with the same entries on the same slots, up to the links.
Relinked(c, d, N) ==
  /\ d \in CacheRecs(N) /\ SameEntries(c, d, N)
  /\ d.map = c.map /\ d.free = c.free /\ d.size = c.size

\* Links may be changed in several steps.
LEMMA RelinkedTwice ==
  ASSUME NEW c, NEW d, NEW e, NEW N, Relinked(c, d, N), Relinked(d, e, N)
  PROVE  Relinked(c, e, N)
BY DEF Relinked, SameEntries

\* move_to_head moves a slot to the front of the list.
LEMMA MoveToHeadLinked ==
  ASSUME NEW N \in Nat, NEW c \in CacheRecs(N), NEW s \in Seq(1..N), Distinct(s),
         Linked(c, s), NEW n \in 1..Len(s)
  PROVE  Linked(MoveToHead(c, s[n]), MovedUp(s, n)) /\ Relinked(c, MoveToHead(c, s[n]), N)
<1>1. s[n] \in 1..N /\ c.head = s[1] /\ 1 \in 1..Len(s)
  <2>1. s[n] \in 1..N /\ 1 \in 1..Len(s) /\ Len(s) # 0
    BY SMT
  <2> QED
    BY Zenon, <2>1 DEF Linked
<1>2. s[n] = s[1] <=> n = 1
  BY <1>1 DEF Distinct
<1>3. CASE n = 1
  <2>1. MoveToHead(c, s[n]) = c
    BY <1>1, <1>3 DEF MoveToHead
  <2>2. MovedUp(s, n) = s
    BY <1>3, MovedUpFacts
  <2> QED
    BY <2>1, <2>2 DEF Relinked, SameEntries
<1>4. CASE n # 1
  <2> DEFINE u == Unlink(c, s[n])
             r == TakeOut(s, n)
  <2>1. MoveToHead(c, s[n]) = PushHead(u, s[n])
    BY <1>1, <1>2, <1>4 DEF MoveToHead
  <2>2. Linked(u, r)
    BY UnlinkLinked
  <2>3. Unlinked(c, u, s[n], N)
    BY <1>1, UnlinkFields
  <2>4. r \in Seq(1..N) /\ Distinct(r) /\ Range(r) = Range(s) \ {s[n]}
    BY SMT, TakeOutFacts
  <2>5. u \in CacheRecs(N) /\ s[n] \notin Range(r)
    BY <2>3, <2>4 DEF Unlinked
  <2> HIDE DEF u, r
  <2>6. Linked(PushHead(u, s[n]), <<s[n]>> \o r)
    BY <1>1, <2>2, <2>4, <2>5, PushLinked
  <2>7. Pushed(u, PushHead(u, s[n]), s[n], N)
    BY <1>1, <2>5, PushHeadFields
  <2>8. Relinked(c, PushHead(u, s[n]), N)
    <3>1. Relinked(c, u, N)
      BY Zenon, <2>3 DEF Unlinked, Relinked
    <3>2. Relinked(u, PushHead(u, s[n]), N)
      BY Zenon, <2>7 DEF Pushed, Relinked
    <3> QED
      BY Zenon, <3>1, <3>2, RelinkedTwice
  <2> QED
    BY <2>1, <2>6, <2>8 DEF MovedUp, r
<1> QED
  BY <1>3, <1>4

-----------------------------------------------------------------------------
(* The arena of the hot cache: its slots, its map and its size.            *)

\* The map and the listed slots point at each other.
Mapped(c, s) ==
  /\ \A k \in DOMAIN c.map : c.map[k] \in Range(s) /\ c.nodes[c.map[k]].key = k
  /\ \A i \in Range(s) : c.nodes[i].key \in DOMAIN c.map /\ c.map[c.nodes[i].key] = i

\* The cache c over N slots is sound, with list s.
Sound(c, N, s) ==
  /\ N \in Nat /\ c \in CacheRecs(N)
  /\ s \in Seq(1..N) /\ Distinct(s) /\ Linked(c, s) /\ Distinct(c.free)
  /\ Range(s) \cap Range(c.free) = {} /\ Range(s) \cup Range(c.free) = 1..N
  /\ Mapped(c, s)
  /\ IsFiniteSet(DOMAIN c.map) /\ c.size = Charged(c)

\* The bytes of each mapped account.
Weighed(c) == [k \in DOMAIN c.map |-> SizeAt(c, c.map[k])]

\* The charged size as a sum over the mapped keys.
LEMMA ChargedIs == \A c : Charged(c) = SumOver(Weighed(c), DOMAIN c.map)
  BY DEF Charged, Weighed

\* The mapped slots are slots, and their accounts have sizes.
LEMMA MappedTypes ==
  ASSUME NEW N \in Nat, NEW c \in CacheRecs(N)
  PROVE  /\ DOMAIN c.map \subseteq CacheKeys
         /\ \A k \in DOMAIN c.map : c.map[k] \in 1..N
         /\ \A j \in 1..N : c.nodes[j] \in NodeRecs(N)
         /\ \A k \in DOMAIN c.map : Weighed(c)[k] \in Nat /\ Weighed(c)[k] = SizeAt(c, c.map[k])
<1>1. PICK K \in SUBSET CacheKeys : c.map \in [K -> 1..N]
  BY DEF CacheRecs, Maps
<1>2. DOMAIN c.map = K /\ \A k \in K : c.map[k] \in 1..N
  BY <1>1
<1>3. \A j \in 1..N : c.nodes[j] \in NodeRecs(N)
  BY DEF CacheRecs
<1>4. \A j \in 1..N : SizeAt(c, j) \in Nat
  BY <1>3, CacheAssumption DEF NodeRecs, SizeAt
<1>5. \A k \in K : Weighed(c)[k] = SizeAt(c, c.map[k])
  BY <1>2 DEF Weighed
<1>6. \A k \in K : Weighed(c)[k] \in Nat
  BY Zenon, <1>2, <1>4, <1>5
<1> QED
  BY Zenon, <1>2, <1>3, <1>5, <1>6

\* The charged size covers each account.
LEMMA SizeCovers ==
  ASSUME NEW N, NEW c, NEW s, Sound(c, N, s), NEW k \in DOMAIN c.map
  PROVE  /\ c.size = SatSub(c.size, SizeAt(c, c.map[k])) + SizeAt(c, c.map[k])
         /\ SatSub(c.size, SizeAt(c, c.map[k])) \in Nat
         /\ SatSub(c.size, SizeAt(c, c.map[k])) = SumOver(Weighed(c), DOMAIN c.map \ {k})
<1> DEFINE D == DOMAIN c.map
           w == Weighed(c)
           rest == SumOver(w, D \ {k})
<1>1. N \in Nat /\ c \in CacheRecs(N) /\ IsFiniteSet(D) /\ c.size = SumOver(w, D)
  BY ChargedIs DEF Sound
<1>2. (\A j \in D : w[j] \in Nat) /\ w[k] = SizeAt(c, c.map[k])
  BY <1>1, MappedTypes
<1>3. IsFiniteSet(D \ {k}) /\ \A j \in D \ {k} : w[j] \in Nat
  BY <1>1, <1>2, FS_RemoveElement
<1> HIDE DEF w, D
<1>4. \A j \in D : w[j] \in Int
  BY SMT, <1>2
<1>5. SumOver(w, D) = w[k] + rest
  BY <1>1, <1>4, SumRemove DEF D
<1>6. rest \in Nat
  BY <1>3, SumNatural
<1>7. w[k] \in Nat
  BY <1>2 DEF D
<1> HIDE DEF rest
<1>8. SatSub(c.size, SizeAt(c, c.map[k])) = rest
  BY SMT, <1>1, <1>2, <1>5, <1>6, <1>7 DEF SatSub
<1>9. c.size = rest + w[k]
  <2>1. c.size = w[k] + rest
    BY Zenon, <1>1, <1>5
  <2> QED
    BY <1>6, <1>7, <2>1
<1> QED
  BY Zenon, <1>2, <1>6, <1>8, <1>9 DEF w, D, rest

\* Changing links only: a sound cache stays sound, and caches the same.
LEMMA RelinkKeeps ==
  ASSUME NEW N, NEW c, NEW s, Sound(c, N, s), NEW d, Relinked(c, d, N),
         NEW t \in Seq(1..N), Distinct(t), Range(t) = Range(s), Linked(d, t)
  PROVE  Sound(d, N, t) /\ Content(d) = Content(c)
<1>1. N \in Nat /\ c \in CacheRecs(N) /\ d \in CacheRecs(N) /\ d.map = c.map
  BY DEF Sound, Relinked
<1>2. \A k \in DOMAIN c.map : c.map[k] \in 1..N
  BY <1>1, MappedTypes
<1>3. Content(d) = Content(c) /\ Weighed(d) = Weighed(c)
  BY <1>1, <1>2 DEF Relinked, SameEntries, Content, Weighed, SizeAt
<1>4. d.size = Charged(d)
  BY <1>1, <1>3, ChargedIs DEF Sound, Relinked
<1>5. Range(s) \subseteq 1..N
  BY DEF Sound
<1>6. Mapped(d, t)
  <2>1. \A j \in 1..N : d.nodes[j].key = c.nodes[j].key
    BY DEF Relinked, SameEntries
  <2>2. Mapped(c, s)
    BY DEF Sound
  <2>3. \A k \in DOMAIN d.map : d.map[k] \in Range(t) /\ d.nodes[d.map[k]].key = k
    BY ZenonT(60), <1>1, <1>2, <2>1, <2>2 DEF Mapped
  <2>4. \A i \in Range(t) : d.nodes[i].key \in DOMAIN d.map /\ d.map[d.nodes[i].key] = i
    BY Zenon, <1>1, <1>5, <2>1, <2>2 DEF Mapped
  <2> QED
    BY Zenon, <2>3, <2>4 DEF Mapped
<1> QED
  BY <1>1, <1>3, <1>4, <1>6 DEF Sound, Relinked

\* The list depends on the ends and on the links of its slots only.
LEMMA SameLinks ==
  ASSUME NEW P, NEW s \in Seq(P), NEW c, NEW d, Linked(c, s),
         d.head = c.head, d.tail = c.tail,
         \A j \in P : d.nodes[j].next = c.nodes[j].next /\ d.nodes[j].prev = c.nodes[j].prev
  PROVE  Linked(d, s)
<1>1. Len(s) \in Nat /\ \A m \in 1..Len(s) : s[m] \in P
  BY SMT
<1>2. Len(s) # 0 => /\ 1 \in 1..Len(s) /\ Len(s) \in 1..Len(s)
                    /\ c.head = s[1] /\ c.tail = s[Len(s)]
  BY SMT, <1>1 DEF Linked
<1>3. \A m \in 1..(Len(s) - 1) : m \in 1..Len(s) /\ m + 1 \in 1..Len(s)
  BY SMT, <1>1
<1>4. Len(s) # 0 => d.nodes[d.head].prev = NIL /\ d.nodes[d.tail].next = NIL
  BY <1>1, <1>2 DEF Linked
<1>5. \A m \in 1..(Len(s) - 1) :
        d.nodes[s[m]].next = s[m + 1] /\ d.nodes[s[m + 1]].prev = s[m]
  BY <1>1, <1>3 DEF Linked
<1> QED
  BY <1>2, <1>4, <1>5 DEF Linked

\* d is c with account a in slot i.
Rewritten(c, d, i, a, N) ==
  /\ d \in CacheRecs(N) /\ d.map = c.map /\ d.free = c.free
  /\ d.head = c.head /\ d.tail = c.tail
  /\ \A j \in 1..N : /\ d.nodes[j].key = c.nodes[j].key
                     /\ d.nodes[j].next = c.nodes[j].next
                     /\ d.nodes[j].prev = c.nodes[j].prev
                     /\ d.nodes[j].account = IF j = i THEN a ELSE c.nodes[j].account

\* Replacing a cached account, and its charge.
LEMMA RewriteKeeps ==
  ASSUME NEW N, NEW c, NEW s, Sound(c, N, s), NEW k \in DOMAIN c.map, NEW a \in CacheAccounts,
         NEW d, Rewritten(c, d, c.map[k], a, N),
         d.size = SatSub(c.size, SizeAt(c, c.map[k])) + CacheMemory[a]
  PROVE  Sound(d, N, s) /\ Content(d) = [Content(c) EXCEPT ![k] = a]
<1> DEFINE D == DOMAIN c.map
           i == c.map[k]
<1>1. /\ N \in Nat /\ c \in CacheRecs(N) /\ d \in CacheRecs(N) /\ d.map = c.map
      /\ IsFiniteSet(D) /\ Mapped(c, s) /\ s \in Seq(1..N) /\ Range(s) \subseteq 1..N
  BY DEF Sound, Rewritten
<1>2. \A j \in D : c.map[j] \in 1..N /\ (c.map[j] = i <=> j = k)
  BY <1>1, MappedTypes DEF Mapped
<1>3. Linked(d, s)
  <2>1. /\ Linked(c, s) /\ d.head = c.head /\ d.tail = c.tail
        /\ \A j \in 1..N : d.nodes[j].next = c.nodes[j].next /\ d.nodes[j].prev = c.nodes[j].prev
    BY DEF Sound, Rewritten
  <2> HIDE DEF D, i
  <2> QED
    BY SMT, <1>1, <2>1, SameLinks
<1>4. Mapped(d, s)
  <2>1. \A j \in 1..N : d.nodes[j].key = c.nodes[j].key
    BY DEF Rewritten
  <2>2. \A j \in D : c.map[j] \in Range(s) /\ d.nodes[c.map[j]].key = j
    BY <1>1, <1>2, <2>1 DEF Mapped
  <2>3. \A j \in Range(s) : d.nodes[j].key \in D /\ c.map[d.nodes[j].key] = j
    BY <1>1, <2>1 DEF Mapped
  <2> QED
    BY <1>1, <2>2, <2>3 DEF Mapped
<1>5. \A j \in D : d.nodes[d.map[j]].account = IF j = k THEN a ELSE c.nodes[c.map[j]].account
  BY SMT, <1>1, <1>2 DEF Rewritten
<1>6. Content(d) = [Content(c) EXCEPT ![k] = a]
  BY <1>1, <1>5 DEF Content
<1>7. d.size = Charged(d)
  <2> DEFINE w == Weighed(c)
             v == Weighed(d)
             rest == SumOver(w, D \ {k})
  <2>1. /\ \A j \in D : w[j] \in Nat /\ w[j] = SizeAt(c, c.map[j])
        /\ \A j \in D : v[j] \in Nat /\ v[j] = SizeAt(d, d.map[j])
    BY <1>1, MappedTypes
  <2>2. v[k] = CacheMemory[a] /\ \A j \in D \ {k} : v[j] = w[j]
    <3>1. \A j \in D : /\ v[j] = CacheMemory[d.nodes[d.map[j]].account]
                       /\ w[j] = CacheMemory[c.nodes[c.map[j]].account]
      BY Zenon, <2>1 DEF SizeAt
    <3> HIDE DEF v, w
    <3>2. d.nodes[d.map[k]].account = a
      BY Zenon, <1>5
    <3>3. ASSUME NEW j \in D, j # k PROVE d.nodes[d.map[j]].account = c.nodes[c.map[j]].account
      BY Zenon, <1>5, <3>3
    <3>4. v[k] = CacheMemory[a]
      BY Zenon, <3>1, <3>2
    <3>5. ASSUME NEW j \in D \ {k} PROVE v[j] = w[j]
      BY Zenon, <3>1, <3>3
    <3> QED
      BY Zenon, <3>4, <3>5
  <2>3. rest \in Nat /\ d.size = rest + CacheMemory[a]
    BY SizeCovers
  <2>4. IsFiniteSet(D \ {k})
    BY <1>1, FS_RemoveElement
  <2> HIDE DEF w, v, D, rest
  <2>5. \A j \in D : w[j] \in Int /\ v[j] \in Int
    BY SMT, <2>1
  <2>6. SumOver(v, D) = v[k] + SumOver(v, D \ {k})
    BY <1>1, <2>5, SumRemove DEF D
  <2>7. SumOver(v, D \ {k}) = SumOver(w, D \ {k})
    BY <2>2, <2>4, <2>5, SumSame
  <2>8. Charged(d) = SumOver(v, D)
    BY <1>1, ChargedIs DEF v, D
  <2>9. v[k] \in Nat
    BY <2>1 DEF D
  <2> QED
    BY <2>2, <2>3, <2>6, <2>7, <2>8, <2>9 DEF rest
<1> QED
  BY <1>1, <1>3, <1>4, <1>6, <1>7 DEF Sound, Rewritten

\* Moving a slot of a sound cache to the front.
LEMMA MoveKeepsSound ==
  ASSUME NEW N, NEW c, NEW s, Sound(c, N, s), NEW n \in 1..Len(s)
  PROVE  /\ Sound(MoveToHead(c, s[n]), N, MovedUp(s, n))
         /\ Content(MoveToHead(c, s[n])) = Content(c)
         /\ MoveToHead(c, s[n]).map = c.map
<1>1. N \in Nat /\ c \in CacheRecs(N) /\ s \in Seq(1..N) /\ Distinct(s) /\ Linked(c, s)
  BY DEF Sound
<1>2. Linked(MoveToHead(c, s[n]), MovedUp(s, n)) /\ Relinked(c, MoveToHead(c, s[n]), N)
  BY <1>1, MoveToHeadLinked
<1>3. MovedUp(s, n) \in Seq(1..N) /\ Distinct(MovedUp(s, n)) /\ Range(MovedUp(s, n)) = Range(s)
  BY <1>1, MovedUpFacts
<1>4. MoveToHead(c, s[n]).map = c.map
  BY <1>2 DEF Relinked
<1> QED
  BY <1>2, <1>3, <1>4, RelinkKeeps

\* The size without the entry of a slot.
LEMMA SlotSize ==
  ASSUME NEW N, NEW c, NEW s, Sound(c, N, s), NEW i, NEW k \in DOMAIN c.map, c.map[k] = i
  PROVE  /\ SatSub(c.size, SizeAt(c, i)) \in Nat
         /\ SatSub(c.size, SizeAt(c, i)) = SumOver(Weighed(c), DOMAIN c.map \ {k})
  BY SizeCovers

\* A mapped key has a place in the list.
LEMMA MappedPlace ==
  ASSUME NEW N, NEW c, NEW s, Sound(c, N, s), NEW k \in DOMAIN c.map
  PROVE  \E n \in 1..Len(s) : s[n] = c.map[k]
<1>1. c.map[k] \in Range(s) /\ s \in Seq(1..N)
  BY DEF Sound, Mapped
<1> QED
  BY SMT, <1>1 DEF Range

\* A hit moves the key's slot to the front (get).
LEMMA GetSound ==
  ASSUME NEW N, NEW c, NEW s, Sound(c, N, s), NEW k \in DOMAIN c.map,
         c.nodes[c.map[k]].access < MaxAccess
  PROVE  \E n \in 1..Len(s) : /\ s[n] = c.map[k] /\ Sound(GetIn(c, k), N, MovedUp(s, n))
                              /\ Content(GetIn(c, k)) = Content(c)
                              /\ GetIn(c, k).map = c.map
<1> DEFINE i == c.map[k]
           d == [c EXCEPT !.nodes[i].access = @ + 1]
           a == c.nodes[i].account
<1>1. N \in Nat /\ c \in CacheRecs(N) /\ s \in Seq(1..N) /\ i \in 1..N /\ MaxAccess \in Nat
  BY MappedTypes, CacheAssumption DEF Sound
<1>2. /\ c.nodes \in [1..N -> NodeRecs(N)] /\ c.nodes[i] \in NodeRecs(N)
      /\ a \in CacheAccounts /\ c.nodes[i].access + 1 \in 1..MaxAccess
  <2>1. c.nodes \in [1..N -> NodeRecs(N)]
    BY <1>1 DEF CacheRecs
  <2>2. c.nodes[i] \in NodeRecs(N)
    BY <1>1, <2>1
  <2>3. a \in CacheAccounts /\ c.nodes[i].access \in 1..MaxAccess
    BY <2>2 DEF NodeRecs
  <2>4. c.nodes[i].access + 1 \in 1..MaxAccess
    <3>1. ASSUME NEW x \in 1..MaxAccess, x < MaxAccess PROVE x + 1 \in 1..MaxAccess
      <4>1. MaxAccess \in Nat
        BY Zenon, <1>1
      <4> HIDE DEF i, d, a
      <4> QED
        BY SMT, <3>1, <4>1
    <3> QED
      BY Zenon, <2>3, <3>1
  <2> QED
    BY Zenon, <2>1, <2>2, <2>3, <2>4
<1>3. [c.nodes[i] EXCEPT !.access = @ + 1] \in NodeRecs(N)
  BY <1>2 DEF NodeRecs
<1>4. d = [c EXCEPT !.nodes = [c.nodes EXCEPT ![i] = [c.nodes[i] EXCEPT !.access = @ + 1]]]
  BY <1>1, <1>2 DEF CacheRecs
<1>5. [c.nodes EXCEPT ![i] = [c.nodes[i] EXCEPT !.access = @ + 1]] \in [1..N -> NodeRecs(N)]
  BY <1>1, <1>2, <1>3
<1>6. /\ d \in CacheRecs(N) /\ d.map = c.map /\ d.free = c.free /\ d.head = c.head
      /\ d.tail = c.tail /\ d.size = c.size
      /\ d.nodes = [c.nodes EXCEPT ![i] = [c.nodes[i] EXCEPT !.access = @ + 1]]
  BY <1>1, <1>4, <1>5 DEF CacheRecs
<1> HIDE DEF d
<1>7. ASSUME NEW j \in 1..N
      PROVE  /\ d.nodes[j].key = c.nodes[j].key /\ d.nodes[j].next = c.nodes[j].next
             /\ d.nodes[j].prev = c.nodes[j].prev /\ d.nodes[j].account = c.nodes[j].account
  <2>1. d.nodes[j] = IF j = i THEN [c.nodes[i] EXCEPT !.access = @ + 1] ELSE c.nodes[j]
    BY <1>2, <1>6
  <2> QED
    BY <1>2, <2>1 DEF NodeRecs
<1>8. Rewritten(c, d, i, a, N)
  BY <1>6, <1>7 DEF Rewritten
<1>9. d.size = SatSub(c.size, SizeAt(c, i)) + CacheMemory[a]
  <2>1. c.size = SatSub(c.size, SizeAt(c, i)) + SizeAt(c, i)
    BY SizeCovers
  <2>2. SizeAt(c, i) = CacheMemory[a]
    BY DEF SizeAt
  <2> QED
    BY <1>6, <2>1, <2>2
<1>10. Sound(d, N, s) /\ Content(d) = [Content(c) EXCEPT ![k] = a]
  BY SMT, <1>2, <1>8, <1>9, RewriteKeeps
<1>11. Content(d) = Content(c)
  BY <1>10 DEF Content
<1>12. PICK n \in 1..Len(s) : s[n] = i
  BY ONLY Sound(c, N, s), k \in DOMAIN c.map, MappedPlace
<1>13. GetIn(c, k) = MoveToHead(d, i)
  BY DEF GetIn, d
<1> QED
  BY SMT, <1>6, <1>10, <1>11, <1>12, <1>13, MoveKeepsSound

\* Inserting a cached key replaces its account and moves it to the front.
LEMMA InsertOldSound ==
  ASSUME NEW N, NEW c, NEW s, Sound(c, N, s), NEW k \in DOMAIN c.map, NEW a \in CacheAccounts
  PROVE  \E n \in 1..Len(s) : /\ s[n] = c.map[k] /\ Sound(InsertIn(c, k, a), N, MovedUp(s, n))
                              /\ Content(InsertIn(c, k, a)) = [Content(c) EXCEPT ![k] = a]
                              /\ InsertIn(c, k, a).map = c.map
<1> DEFINE i == c.map[k]
           z == SatSub(c.size, SizeAt(c, i)) + CacheMemory[a]
           node == [c.nodes[i] EXCEPT !.account = a, !.access = 1]
           d == [c EXCEPT !.nodes[i].account = a, !.nodes[i].access = 1, !.size = z]
<1>1. /\ N \in Nat /\ c \in CacheRecs(N) /\ s \in Seq(1..N) /\ i \in 1..N
      /\ 1 \in 1..MaxAccess /\ CacheMemory[a] \in Nat
  BY SMT, MappedTypes, CacheAssumption DEF Sound
<1>2. c.nodes \in [1..N -> NodeRecs(N)] /\ c.nodes[i] \in NodeRecs(N)
  BY <1>1 DEF CacheRecs
<1>3. /\ node \in NodeRecs(N) /\ node.key = c.nodes[i].key /\ node.next = c.nodes[i].next
      /\ node.prev = c.nodes[i].prev /\ node.account = a
  BY <1>1, <1>2 DEF NodeRecs
<1>4. z \in Nat
  <2>1. SatSub(c.size, SizeAt(c, i)) \in Nat
    BY SizeCovers
  <2> QED
    BY SMT, <1>1, <2>1
<1> HIDE DEF z
<1>5. d = [c EXCEPT !.nodes = [c.nodes EXCEPT ![i] = node], !.size = z]
  BY <1>1, <1>2 DEF CacheRecs
<1> HIDE DEF node, d
<1>6. [c.nodes EXCEPT ![i] = node] \in [1..N -> NodeRecs(N)]
  BY <1>1, <1>2, <1>3
<1>7. /\ d \in CacheRecs(N) /\ d.map = c.map /\ d.free = c.free /\ d.head = c.head
      /\ d.tail = c.tail /\ d.size = z /\ d.nodes = [c.nodes EXCEPT ![i] = node]
  BY <1>1, <1>4, <1>5, <1>6 DEF CacheRecs
<1>8. Rewritten(c, d, i, a, N)
  <2>1. \A j \in 1..N : d.nodes[j] = IF j = i THEN node ELSE c.nodes[j]
    BY <1>2, <1>7
  <2> QED
    BY <1>3, <1>7, <2>1 DEF Rewritten
<1>9. Sound(d, N, s) /\ Content(d) = [Content(c) EXCEPT ![k] = a]
  BY <1>7, <1>8, RewriteKeeps DEF z
<1>10. PICK n \in 1..Len(s) : s[n] = i
  BY ONLY Sound(c, N, s), k \in DOMAIN c.map, MappedPlace
<1>11. InsertIn(c, k, a) = MoveToHead(d, i)
  BY DEF InsertIn, d, z
<1>12. /\ Sound(MoveToHead(d, s[n]), N, MovedUp(s, n))
       /\ Content(MoveToHead(d, s[n])) = Content(d)
       /\ MoveToHead(d, s[n]).map = c.map
  <2>1. Sound(d, N, s)
    BY ONLY <1>9
  <2>2. d.map = c.map
    BY <1>7
  <2> QED
    BY ONLY <2>1, <2>2, n \in 1..Len(s), MoveKeepsSound
<1> QED
  BY Zenon, <1>9, <1>10, <1>11, <1>12

\* The map without the key of slot i.
Unmapped(c, i) == Restrict(c.map, DOMAIN c.map \ {c.nodes[i].key})

\* Dropping a slot: unmapped, off the list, on the free list and uncharged
\* (remove, and each eviction).
LEMMA ReleaseSound ==
  ASSUME NEW N, NEW c, NEW s, Sound(c, N, s), NEW n \in 1..Len(s)
  PROVE  /\ Sound(Release(c, s[n]), N, TakeOut(s, n))
         /\ SameEntries(c, Release(c, s[n]), N)
         /\ Release(c, s[n]).map = Unmapped(c, s[n])
<1> DEFINE i == s[n]
           k == c.nodes[i].key
           D == DOMAIN c.map
           u == Unlink(c, i)
           z == SatSub(c.size, SizeAt(c, i))
           m == Restrict(c.map, D \ {k})
           f == Append(c.free, i)
           d == Release(c, i)
           t == TakeOut(s, n)
<1>1. /\ N \in Nat /\ c \in CacheRecs(N) /\ s \in Seq(1..N) /\ Distinct(s) /\ Linked(c, s)
      /\ Mapped(c, s) /\ IsFiniteSet(D) /\ i \in 1..N /\ c.free \in Seq(1..N)
  BY DEF Sound, CacheRecs
<1>2. i \in Range(s)
  <2>1. n \in DOMAIN s
    BY SMT, <1>1
  <2> QED
    BY Zenon, <2>1 DEF Range
<1>3. k \in D /\ c.map[k] = i
  BY <1>1, <1>2 DEF Mapped
<1>4. Unlinked(c, u, i, N) /\ Linked(u, t)
  BY <1>1, UnlinkFields, UnlinkLinked
<1>5. t \in Seq(1..N) /\ Distinct(t) /\ Range(t) = Range(s) \ {i}
  BY SMT, <1>1, TakeOutFacts
<1>6. z \in Nat /\ z = SumOver(Weighed(c), D \ {k})
  BY Zenon, <1>3, SlotSize
<1>7. m \in Maps(N) /\ DOMAIN m = D \ {k} /\ \A j \in D \ {k} : m[j] = c.map[j]
  <2>1. D \subseteq CacheKeys /\ \A j \in D : c.map[j] \in 1..N
    BY <1>1, MappedTypes
  <2>2. m \in [D \ {k} -> 1..N]
    BY <2>1 DEF Restrict
  <2> QED
    BY <2>1, <2>2 DEF Restrict, Maps
<1>8. f \in Seq(1..N) /\ Distinct(f) /\ Range(f) = Range(c.free) \cup {i}
  <2>1. Distinct(c.free) /\ i \notin Range(c.free)
    BY <1>2 DEF Sound
  <2>2. c.free \in Seq(1..N) /\ i \in 1..N
    BY Zenon, <1>1
  <2>3. OneMore(f, c.free, i, 1..N)
    BY Zenon, <2>1, <2>2, AppendFresh
  <2> QED
    BY Zenon, <2>3 DEF OneMore
<1>9. d = [u EXCEPT !.map = m, !.free = f, !.size = z]
  BY <1>4 DEF Release, Unlinked, CacheRecs
<1> HIDE DEF u, z, m, f, d, t
<1>10. /\ d \in CacheRecs(N) /\ d.map = m /\ d.free = f /\ d.size = z
       /\ d.head = u.head /\ d.tail = u.tail /\ d.nodes = u.nodes
  BY <1>4, <1>6, <1>7, <1>8, <1>9 DEF Unlinked, CacheRecs
<1>11. SameEntries(c, d, N)
  BY Zenon, <1>4, <1>10 DEF Unlinked, SameEntries
<1>12. Linked(d, t)
  BY <1>4, <1>10 DEF Linked
<1>13. Mapped(d, t)
  <2>1. \A j \in 1..N : d.nodes[j].key = c.nodes[j].key
    BY <1>11 DEF SameEntries
  <2>2. \A j \in D : c.map[j] \in 1..N
    BY <1>1, MappedTypes
  <2>3. Range(s) \subseteq 1..N
    BY DEF Sound
  <2>4. DOMAIN d.map = D \ {k} /\ \A j \in D \ {k} : d.map[j] = c.map[j]
    BY <1>7, <1>10
  <2>5. /\ \A j \in D : c.map[j] \in Range(s) /\ c.nodes[c.map[j]].key = j
        /\ \A j \in Range(s) : c.nodes[j].key \in D /\ c.map[c.nodes[j].key] = j
    BY <1>1 DEF Mapped
  <2> HIDE DEF D
  <2>6. ASSUME NEW j \in DOMAIN d.map PROVE d.map[j] \in Range(t) /\ d.nodes[d.map[j]].key = j
    <3>1. j \in D /\ j # k /\ d.map[j] = c.map[j]
      BY Zenon, <2>4, <2>6
    <3>2. c.map[j] \in 1..N /\ c.map[j] \in Range(s) /\ c.nodes[c.map[j]].key = j
      BY Zenon, <2>2, <2>5, <3>1
    <3>3. c.map[j] # i
      BY Zenon, <3>1, <3>2
    <3>4. d.nodes[c.map[j]].key = j
      BY Zenon, <2>1, <3>2
    <3> QED
      BY Zenon, <1>5, <3>1, <3>2, <3>3, <3>4
  <2>7. ASSUME NEW j \in Range(t)
        PROVE  d.nodes[j].key \in DOMAIN d.map /\ d.map[d.nodes[j].key] = j
    <3>1. j \in Range(s) /\ j # i /\ j \in 1..N
      BY Zenon, <1>5, <2>3, <2>7
    <3>2. c.nodes[j].key \in D /\ c.map[c.nodes[j].key] = j
      BY Zenon, <2>5, <3>1
    <3>3. c.nodes[j].key # k
      BY Zenon, <1>3, <3>1, <3>2
    <3>4. d.nodes[j].key = c.nodes[j].key
      BY Zenon, <2>1, <3>1
    <3> QED
      BY Zenon, <2>4, <3>2, <3>3, <3>4
  <2> QED
    BY <2>6, <2>7 DEF Mapped
<1>14. IsFiniteSet(DOMAIN d.map) /\ d.size = Charged(d)
  <2>1. IsFiniteSet(D \ {k})
    BY <1>1, FS_RemoveElement
  <2>2. \A j \in D \ {k} : Weighed(c)[j] \in Int
    BY SMT, <1>1, MappedTypes
  <2>3. \A j \in D \ {k} : c.map[j] \in 1..N /\ Weighed(c)[j] = SizeAt(c, c.map[j])
    BY <1>1, MappedTypes
  <2>4. \A j \in D \ {k} : Weighed(d)[j] = SizeAt(d, d.map[j])
    BY <1>7, <1>10 DEF Weighed
  <2>5. ASSUME NEW j \in D \ {k} PROVE Weighed(d)[j] = Weighed(c)[j]
    <3>1. d.map[j] = c.map[j] /\ c.map[j] \in 1..N
      BY Zenon, <1>7, <1>10, <2>3
    <3>2. d.nodes[c.map[j]].account = c.nodes[c.map[j]].account
      BY Zenon, <1>11, <3>1 DEF SameEntries
    <3>3. SizeAt(d, d.map[j]) = SizeAt(c, c.map[j])
      BY Zenon, <3>1, <3>2 DEF SizeAt
    <3> QED
      BY Zenon, <2>3, <2>4, <3>3
  <2> HIDE DEF D, k
  <2>6. SumOver(Weighed(d), D \ {k}) = SumOver(Weighed(c), D \ {k})
    BY <2>1, <2>2, <2>5, SumSame
  <2> QED
    BY <1>6, <1>7, <1>10, <2>1, <2>6, ChargedIs
<1>15. /\ Range(s) \cap Range(c.free) = {} /\ Range(s) \cup Range(c.free) = 1..N
  BY DEF Sound
<1>16. /\ Range(t) \cap Range(d.free) = {} /\ Range(t) \cup Range(d.free) = 1..N
  BY <1>2, <1>5, <1>8, <1>10, <1>15
<1>17. Sound(d, N, t)
  BY <1>1, <1>5, <1>8, <1>10, <1>12, <1>13, <1>14, <1>16 DEF Sound
<1> QED
  BY <1>10, <1>11, <1>17 DEF d, t, m, Unmapped

\* alloc_node: the arena c with node in the slot i, which was free or new.
Allocated(c, d, i, node, N, M, s) ==
  /\ M \in Nat /\ N <= M /\ i \in 1..M /\ i \notin Range(s)
  /\ d \in CacheRecs(M) /\ d.map = c.map /\ d.head = c.head /\ d.tail = c.tail
  /\ d.size = c.size /\ Distinct(d.free)
  /\ Range(d.free) = (1..M) \ (Range(s) \cup {i})
  /\ d.nodes[i] = node /\ \A j \in 1..N : j # i => d.nodes[j] = c.nodes[j]

\* More slots: what fits in N slots fits in M.
LEMMA MoreSlots ==
  ASSUME NEW N \in Nat, NEW M \in Nat, N <= M
  PROVE  NodeRecs(N) \subseteq NodeRecs(M) /\ Maps(N) \subseteq Maps(M)
<1>1. 0..N \subseteq 0..M /\ 1..N \subseteq 1..M
  BY SMT
<1>2. NodeRecs(N) \subseteq NodeRecs(M)
  BY <1>1 DEF NodeRecs
<1>3. ASSUME NEW f \in Maps(N) PROVE f \in Maps(M)
  <2>1. PICK K \in SUBSET CacheKeys : f \in [K -> 1..N]
    BY DEF Maps
  <2>2. f \in [K -> 1..M]
    BY <1>1, <2>1
  <2> QED
    BY <2>1, <2>2 DEF Maps
<1> QED
  BY <1>2, <1>3

\* A slot from the free list.
LEMMA AllocFree ==
  ASSUME NEW N, NEW c, NEW s, Sound(c, N, s), NEW node \in NodeRecs(N), c.free # <<>>
  PROVE  Allocated(c, AllocNode(c, node), AllocIndex(c), node, N, N, s)
<1> DEFINE F == Len(c.free)
           i == c.free[F]
           f == SubSeq(c.free, 1, F - 1)
           nodes == [c.nodes EXCEPT ![i] = node]
           d == AllocNode(c, node)
<1>1. /\ N \in Nat /\ c \in CacheRecs(N) /\ c.free \in Seq(1..N) /\ c.nodes \in [1..N -> NodeRecs(N)]
      /\ Distinct(c.free)
      /\ Range(s) \cap Range(c.free) = {} /\ Range(s) \cup Range(c.free) = 1..N
  BY DEF Sound, CacheRecs
<1>2. /\ i \in 1..N /\ i \in Range(c.free)
      /\ f \in Seq(1..N) /\ Distinct(f) /\ Range(f) = Range(c.free) \ {i}
  BY Zenon, <1>1, DropLast
<1>3. AllocIndex(c) = i
  BY DEF AllocIndex
<1>4. /\ nodes \in [1..N -> NodeRecs(N)] /\ nodes[i] = node
      /\ \A j \in 1..N : j # i => nodes[j] = c.nodes[j]
  BY <1>1, <1>2
<1>5. d = [c EXCEPT !.nodes = nodes, !.free = f]
  BY <1>1, <1>3 DEF AllocNode, CacheRecs
<1> HIDE DEF nodes, f, d, i
<1>6. /\ d \in CacheRecs(N) /\ d.map = c.map /\ d.head = c.head /\ d.tail = c.tail
      /\ d.size = c.size /\ d.free = f /\ d.nodes = nodes
  BY <1>1, <1>2, <1>4, <1>5 DEF CacheRecs
<1>7. i \notin Range(s) /\ Range(f) = (1..N) \ (Range(s) \cup {i})
  BY Zenon, <1>1, <1>2
<1>8. N <= N
  <2>1. N \in Nat
    BY Zenon, <1>1
  <2> QED
    BY ONLY <2>1
<1> QED
  BY <1>1, <1>2, <1>3, <1>4, <1>6, <1>7, <1>8 DEF Allocated, d

\* A new slot at the end of the arena.
LEMMA AllocNew ==
  ASSUME NEW N, NEW c, NEW s, Sound(c, N, s), NEW node \in NodeRecs(N + 1), c.free = <<>>
  PROVE  Allocated(c, AllocNode(c, node), AllocIndex(c), node, N, N + 1, s)
<1> DEFINE M == N + 1
           nodes == Append(c.nodes, node)
           d == AllocNode(c, node)
<1>1. /\ N \in Nat /\ c \in CacheRecs(N) /\ c.nodes \in [1..N -> NodeRecs(N)]
      /\ c.map \in Maps(N) /\ c.head \in 0..N /\ c.tail \in 0..N /\ c.size \in Nat
      /\ Range(s) \cup Range(c.free) = 1..N
  BY DEF Sound, CacheRecs
<1>2. M \in Nat /\ N <= M /\ M \in 1..M /\ ~ (M \in 1..N) /\ 0..N \subseteq 0..M
  BY SMT, <1>1
<1>3. NodeRecs(N) \subseteq NodeRecs(M) /\ Maps(N) \subseteq Maps(M)
  BY <1>1, <1>2, MoreSlots
<1>4. c.nodes \in [1..N -> NodeRecs(M)]
  BY <1>1, <1>3
<1>5. c.nodes \in Seq(NodeRecs(M)) /\ Len(c.nodes) = N
  BY SMT, <1>1, <1>4
<1>6. AllocIndex(c) = M
  BY <1>5 DEF AllocIndex
<1>7. /\ nodes \in [1..M -> NodeRecs(M)] /\ nodes[M] = node
      /\ \A j \in 1..N : nodes[j] = c.nodes[j]
  <2>1. nodes \in Seq(NodeRecs(M)) /\ Len(nodes) = M
    BY SMT, <1>5
  <2>2. nodes[M] = node /\ \A j \in 1..N : nodes[j] = c.nodes[j]
    BY SMT, <1>5
  <2> HIDE DEF nodes, M
  <2>3. nodes \in [1..Len(nodes) -> NodeRecs(M)]
    BY SMT, <2>1
  <2> QED
    BY Zenon, <2>1, <2>2, <2>3
<1>8. d = [c EXCEPT !.nodes = nodes]
  BY DEF AllocNode
<1> HIDE DEF nodes, d, M
<1>9. c.free \in Seq(1..M) /\ Range(c.free) = {} /\ Distinct(c.free)
  <2>1. <<>> \in Seq(1..M) /\ Range(<<>>) = {} /\ Distinct(<<>>)
    BY ONLY TRUE DEF Range, Distinct
  <2> QED
    BY Zenon, <2>1
<1>10. /\ d \in CacheRecs(M) /\ d.map = c.map /\ d.head = c.head /\ d.tail = c.tail
       /\ d.size = c.size /\ d.free = c.free /\ d.nodes = nodes
  BY <1>1, <1>2, <1>3, <1>7, <1>8, <1>9 DEF CacheRecs
<1>11. M \notin Range(s) /\ Range(c.free) = (1..M) \ (Range(s) \cup {M})
  <2>1. Range(s) = 1..N
    BY <1>1, <1>9
  <2>2. 1..M = (1..N) \cup {M}
    BY SMT, <1>1 DEF M
  <2> QED
    BY <1>2, <1>9, <2>1, <2>2
<1> QED
  BY <1>2, <1>6, <1>7, <1>9, <1>10, <1>11 DEF Allocated, d, M

\* alloc_node, from a sound cache.
LEMMA AllocSlot ==
  ASSUME NEW N, NEW c, NEW s, Sound(c, N, s), NEW k \in CacheKeys, NEW a \in CacheAccounts
  PROVE  \E M : Allocated(c, AllocNode(c, Node(k, a)), AllocIndex(c), Node(k, a), N, M, s)
<1>1. N \in Nat /\ 1 \in 1..MaxAccess
  <2>1. N \in Nat
    BY Zenon DEF Sound
  <2>2. 1 \in 1..MaxAccess
    BY SMT, CacheAssumption
  <2> QED
    BY Zenon, <2>1, <2>2
<1>2. \A M \in Nat : Node(k, a) \in NodeRecs(M)
  BY <1>1 DEF Node, NodeRecs, NIL
<1>3. CASE c.free # <<>>
  BY <1>1, <1>2, <1>3, AllocFree
<1>4. CASE c.free = <<>>
  <2>1. N + 1 \in Nat
    BY <1>1
  <2>2. Node(k, a) \in NodeRecs(N + 1)
    BY Zenon, <1>2, <2>1
  <2> QED
    BY <1>4, <2>2, AllocNew
<1> QED
  BY <1>3, <1>4

\* The cache e, with list t, is the cache c, with list s, and the key k mapped to
\* the slot i, which holds account a.
Extended(c, e, k, a, i, N, M, s, t) ==
  /\ M \in Nat /\ i \in 1..M /\ i \notin Range(s) /\ Range(t) = Range(s) \cup {i}
  /\ e \in CacheRecs(M) /\ DOMAIN e.map = DOMAIN c.map \cup {k} /\ e.map[k] = i
  /\ \A j \in DOMAIN c.map : e.map[j] = c.map[j]
  /\ e.nodes[i].key = k /\ e.nodes[i].account = a
  /\ \A j \in 1..N : j # i => /\ e.nodes[j].key = c.nodes[j].key
                              /\ e.nodes[j].account = c.nodes[j].account
  /\ e.size = c.size + CacheMemory[a]

\* The map, the charge and the accounts of the cache that Extended describes.
Grown(c, e, k, a, t) ==
  /\ Mapped(e, t) /\ IsFiniteSet(DOMAIN e.map) /\ e.size = Charged(e)
  /\ Content(e) = [j \in DOMAIN c.map \cup {k} |-> IF j = k THEN a ELSE Content(c)[j]]

\* Mapping a new key to a slot: the map and the charge.
LEMMA ExtendKeeps ==
  ASSUME NEW N, NEW c, NEW s, Sound(c, N, s), NEW k \in CacheKeys, k \notin DOMAIN c.map,
         NEW a \in CacheAccounts, NEW M, NEW i, NEW e, NEW t,
         Extended(c, e, k, a, i, N, M, s, t)
  PROVE  Grown(c, e, k, a, t)
<1> DEFINE D == DOMAIN c.map
<1>0. M \in Nat /\ i \in 1..M /\ i \notin Range(s) /\ Range(t) = Range(s) \cup {i}
  BY DEF Extended
<1>1. /\ N \in Nat /\ c \in CacheRecs(N) /\ IsFiniteSet(D) /\ c.size = Charged(c)
      /\ Range(s) \subseteq 1..N /\ CacheMemory[a] \in Nat /\ e \in CacheRecs(M)
  BY CacheAssumption DEF Sound, Extended
<1>2. /\ \A j \in D : c.map[j] \in Range(s) /\ c.nodes[c.map[j]].key = j
      /\ \A j \in Range(s) : c.nodes[j].key \in D /\ c.map[c.nodes[j].key] = j
  BY DEF Sound, Mapped
<1>3. /\ DOMAIN e.map = D \cup {k} /\ e.map[k] = i /\ \A j \in D : e.map[j] = c.map[j]
      /\ e.nodes[i].key = k /\ e.nodes[i].account = a /\ e.size = c.size + CacheMemory[a]
  BY DEF Extended
<1>4. \A j \in 1..N : j # i => /\ e.nodes[j].key = c.nodes[j].key
                              /\ e.nodes[j].account = c.nodes[j].account
  BY DEF Extended
<1> HIDE DEF D
<1>5. \A j \in D : /\ c.map[j] \in 1..N /\ c.map[j] # i /\ j # k
                   /\ e.nodes[e.map[j]].key = j
                   /\ e.nodes[e.map[j]].account = c.nodes[c.map[j]].account
  <2> SUFFICES ASSUME NEW j \in D
               PROVE  /\ c.map[j] \in 1..N /\ c.map[j] # i /\ j # k
                      /\ e.nodes[e.map[j]].key = j
                      /\ e.nodes[e.map[j]].account = c.nodes[c.map[j]].account
    BY Zenon
  <2>1. c.map[j] \in Range(s) /\ c.nodes[c.map[j]].key = j /\ e.map[j] = c.map[j]
    BY Zenon, <1>2, <1>3
  <2>2. c.map[j] \in 1..N /\ c.map[j] # i /\ j # k
    BY Zenon, <1>0, <1>1, <2>1 DEF D
  <2>3. /\ e.nodes[c.map[j]].key = c.nodes[c.map[j]].key
        /\ e.nodes[c.map[j]].account = c.nodes[c.map[j]].account
    BY Zenon, <1>4, <2>2
  <2> QED
    BY Zenon, <2>1, <2>2, <2>3
<1>6. Mapped(e, t)
  <2>1. ASSUME NEW j \in DOMAIN e.map PROVE e.map[j] \in Range(t) /\ e.nodes[e.map[j]].key = j
    BY <1>0, <1>2, <1>3, <1>5
  <2>2. ASSUME NEW j \in Range(t)
        PROVE  e.nodes[j].key \in DOMAIN e.map /\ e.map[e.nodes[j].key] = j
    <3>1. CASE j = i
      BY <1>3, <3>1
    <3>2. CASE j # i
      <4>1. j \in Range(s) /\ j \in 1..N
        BY <1>0, <1>1, <3>2
      <4> QED
        BY <1>2, <1>3, <1>4, <3>2, <4>1
    <3> QED
      BY <3>1, <3>2
  <2> QED
    BY <2>1, <2>2 DEF Mapped
<1>7. IsFiniteSet(D \cup {k})
  BY <1>1, FS_AddElement
<1>8. Content(e) = [j \in D \cup {k} |-> IF j = k THEN a ELSE Content(c)[j]]
  <2>1. \A j \in D : Content(c)[j] = c.nodes[c.map[j]].account
    BY DEF Content, D
  <2>2. ASSUME NEW j \in D \cup {k}
        PROVE  e.nodes[e.map[j]].account = IF j = k THEN a ELSE Content(c)[j]
    BY <1>3, <1>5, <2>1
  <2> QED
    BY <1>3, <2>2 DEF Content
<1>9. e.size = Charged(e)
  <2> DEFINE w == Weighed(c)
             v == Weighed(e)
  <2>1. \A j \in D : w[j] \in Nat /\ w[j] = SizeAt(c, c.map[j])
    BY <1>1, MappedTypes DEF D
  <2>2. \A j \in D \cup {k} : v[j] = SizeAt(e, e.map[j])
    BY <1>3 DEF Weighed
  <2>3. v[k] = CacheMemory[a] /\ \A j \in D : v[j] = w[j]
    BY SMT, <1>3, <1>5, <2>1, <2>2 DEF SizeAt
  <2>4. Charged(e) = SumOver(v, D \cup {k}) /\ c.size = SumOver(w, D)
    BY <1>1, <1>3, ChargedIs DEF D
  <2> HIDE DEF w, v
  <2>5. (\A j \in D : v[j] \in Int /\ w[j] \in Int) /\ v[k] \in Int
    BY SMT, <1>1, <2>1, <2>3
  <2>6. k \notin D
    BY DEF D
  <2>7. SumOver(v, D \cup {k}) = SumOver(v, D) + v[k]
    BY <1>1, <2>5, <2>6, SumAdd
  <2>8. SumOver(v, D) = SumOver(w, D)
    BY <1>1, <2>3, <2>5, SumSame
  <2> QED
    BY <1>3, <2>3, <2>4, <2>7, <2>8
<1> QED
  BY <1>3, <1>6, <1>7, <1>8, <1>9 DEF Grown, D

\* e is the cache c, with list s, with the key k and its account a in front.
Inserted(c, e, k, a, s, M) ==
  /\ Sound(e, M, <<AllocIndex(c)>> \o s) /\ AllocIndex(c) \notin Range(s)
  /\ Content(e) = [j \in DOMAIN c.map \cup {k} |-> IF j = k THEN a ELSE Content(c)[j]]
  /\ e.map[k] = AllocIndex(c) /\ \A j \in DOMAIN c.map : e.map[j] = c.map[j]

\* Inserting a key that is not cached puts a slot with it in front.
LEMMA InsertNewSound ==
  ASSUME NEW N, NEW c, NEW s, Sound(c, N, s), NEW k \in CacheKeys, k \notin DOMAIN c.map,
         NEW a \in CacheAccounts
  PROVE  \E M : Inserted(c, InsertIn(c, k, a), k, a, s, M)
<1> DEFINE i == AllocIndex(c)
           D == DOMAIN c.map
           d == AllocNode(c, Node(k, a))
           p == PushHead(d, i)
           m == [j \in D \cup {k} |-> IF j = k THEN i ELSE c.map[j]]
           z == c.size + CacheMemory[a]
           e == InsertIn(c, k, a)
           t == <<i>> \o s
<1>1. /\ N \in Nat /\ c \in CacheRecs(N) /\ s \in Seq(1..N) /\ Distinct(s) /\ Linked(c, s)
      /\ Range(s) \subseteq 1..N /\ CacheMemory[a] \in Nat /\ c.size \in Nat
  BY CacheAssumption DEF Sound, CacheRecs
<1>2. PICK M : Allocated(c, d, i, Node(k, a), N, M, s)
  BY AllocSlot
<1>3. /\ M \in Nat /\ N <= M /\ i \in 1..M /\ i \notin Range(s) /\ 1..N \subseteq 1..M
      /\ d \in CacheRecs(M) /\ d.map = c.map /\ d.head = c.head /\ d.tail = c.tail
      /\ d.size = c.size /\ Distinct(d.free)
      /\ Range(d.free) = (1..M) \ (Range(s) \cup {i})
  BY SMT, <1>1, <1>2 DEF Allocated
<1>4. d.nodes[i] = Node(k, a) /\ \A j \in 1..N : j # i => d.nodes[j] = c.nodes[j]
  BY <1>2 DEF Allocated
<1> HIDE DEF d, i
<1>5. s \in Seq(1..M) /\ s \in Seq(Range(s))
  BY SMT, <1>1, <1>3, SeqMono, SeqOfRange
<1>6. \A j \in Range(s) : d.nodes[j] = c.nodes[j]
  BY <1>1, <1>3, <1>4
<1>7. Linked(d, s)
  BY <1>1, <1>3, <1>5, <1>6, SameLinks
<1>8. Linked(p, t) /\ Pushed(d, p, i, M)
  BY <1>1, <1>3, <1>5, <1>7, PushLinked, PushHeadFields
<1>9. t \in Seq(1..M) /\ Distinct(t) /\ Range(t) = Range(s) \cup {i}
  BY SMT, <1>1, <1>3, <1>5, InFrontFacts
<1>10. m \in Maps(M)
  <2>1. D \subseteq CacheKeys /\ \A j \in D : c.map[j] \in 1..N
    BY <1>1, MappedTypes
  <2>2. m \in [D \cup {k} -> 1..M] /\ D \cup {k} \in SUBSET CacheKeys
    BY <1>3, <2>1
  <2> QED
    BY <2>2 DEF Maps
<1>11. e = [p EXCEPT !.map = m, !.size = z]
  <2>1. p \in CacheRecs(M) /\ p.map = c.map /\ p.size = c.size
    BY <1>3, <1>8 DEF Pushed
  <2>2. e = [p EXCEPT !.map = [j \in DOMAIN @ \cup {k} |-> IF j = k THEN i ELSE @[j]],
                      !.size = @ + CacheMemory[a]]
    BY DEF InsertIn, d, i
  <2> HIDE DEF p, e
  <2> QED
    BY <2>1, <2>2 DEF CacheRecs
<1> HIDE DEF p, e, t, m, z
<1>12. z \in Nat
  <2>1. c.size \in Nat /\ CacheMemory[a] \in Nat
    BY Zenon, <1>1
  <2> QED
    BY ONLY <2>1 DEF z
<1>13. /\ e \in CacheRecs(M) /\ e.map = m /\ e.size = z /\ e.free = d.free
       /\ e.head = p.head /\ e.tail = p.tail /\ e.nodes = p.nodes
  BY <1>8, <1>10, <1>11, <1>12 DEF CacheRecs, Pushed
<1>14. Linked(e, t)
  BY <1>8, <1>13 DEF Linked
<1>15. \A j \in 1..M : e.nodes[j].key = d.nodes[j].key /\ e.nodes[j].account = d.nodes[j].account
  <2>1. SameEntries(d, p, M)
    BY Zenon, <1>8 DEF Pushed
  <2> QED
    BY Zenon, <1>13, <2>1 DEF SameEntries
<1>16. DOMAIN m = D \cup {k} /\ m[k] = i /\ \A j \in D : m[j] = c.map[j]
  BY DEF m
<1>17. Extended(c, e, k, a, i, N, M, s, t)
  <2>1. Node(k, a).key = k /\ Node(k, a).account = a
    BY DEF Node
  <2>2. e.nodes[i].key = k /\ e.nodes[i].account = a
    BY <1>3, <1>4, <1>15, <2>1
  <2>3. \A j \in 1..N : j # i => /\ e.nodes[j].key = c.nodes[j].key
                                /\ e.nodes[j].account = c.nodes[j].account
    BY <1>3, <1>4, <1>15
  <2> QED
    BY <1>3, <1>9, <1>13, <1>16, <2>2, <2>3 DEF Extended, z
<1>18. /\ Mapped(e, t) /\ IsFiniteSet(DOMAIN e.map) /\ e.size = Charged(e)
       /\ Content(e) = [j \in DOMAIN c.map \cup {k} |-> IF j = k THEN a ELSE Content(c)[j]]
  <2>1. Grown(c, e, k, a, t)
    BY <1>17, ExtendKeeps
  <2> QED
    BY <2>1 DEF Grown
<1>19. Range(t) \cap Range(e.free) = {} /\ Range(t) \cup Range(e.free) = 1..M
  BY <1>1, <1>3, <1>9, <1>13
<1>20. Sound(e, M, t)
  BY <1>3, <1>9, <1>13, <1>14, <1>18, <1>19 DEF Sound
<1>21. Inserted(c, e, k, a, s, M)
  BY <1>3, <1>13, <1>16, <1>18, <1>20 DEF Inserted, t, i
<1> QED
  BY <1>21 DEF e

\* The list of a sound cache is the one its links stand for.
LEMMA ListIs ==
  ASSUME NEW N, NEW c, NEW s, Sound(c, N, s)
  PROVE  s \in Lists(c) /\ List(c) = s /\ Len(c.nodes) = N
<1>1. /\ N \in Nat /\ s \in Seq(1..N) /\ Distinct(s) /\ Linked(c, s)
      /\ c.nodes \in [1..N -> NodeRecs(N)] /\ Range(s) \subseteq 1..N
  BY DEF Sound, CacheRecs
<1>2. DOMAIN c.nodes = 1..N /\ Len(c.nodes) = N
  <2>1. c.nodes \in [1..N -> NodeRecs(N)] /\ N \in Nat
    BY Zenon, <1>1
  <2>2. c.nodes \in Seq(NodeRecs(N))
    BY ONLY <2>1
  <2> QED
    BY SMT, <2>1, <2>2
<1>3. Len(s) = N - Len(c.free)
  <2> DEFINE S == Range(s)
             F == Range(c.free)
  <2>1. /\ c.free \in Seq(1..N) /\ Distinct(c.free) /\ F \subseteq 1..N
        /\ S \cap F = {} /\ S \cup F = 1..N
    BY DEF Sound, CacheRecs
  <2>2. Cardinality(S) = Len(s) /\ Cardinality(F) = Len(c.free)
    BY <1>1, <2>1, DistinctLength
  <2>3. IsFiniteSet(1..N) /\ Cardinality(1..N) = N
    <3>1. N \in Nat
      BY Zenon, <1>1
    <3> QED
      BY ONLY <3>1, FS_Interval
  <2>4. IsFiniteSet(S) /\ IsFiniteSet(F)
    BY <1>1, <2>1, <2>3, FS_Subset
  <2> HIDE DEF S, F
  <2>5. Cardinality(S \cup F) = Cardinality(S) + Cardinality(F) - Cardinality(S \cap F)
    BY <2>4, FS_Union
  <2>6. N = Len(s) + Len(c.free) - 0
    BY <2>1, <2>2, <2>3, <2>5, FS_EmptySet
  <2>7. Len(s) \in Nat /\ Len(c.free) \in Nat
    <3>1. s \in Seq(1..N) /\ c.free \in Seq(1..N)
      BY Zenon, <1>1, <2>1
    <3> QED
      BY ONLY <3>1
  <2> QED
    BY SMT, <1>1, <2>6, <2>7
<1>4. s \in Lists(c)
  <2>1. s \in [1..Len(s) -> 1..N]
    <3>1. s \in Seq(1..N)
      BY Zenon, <1>1
    <3>2. ASSUME NEW P, s \in Seq(P) PROVE s \in [1..Len(s) -> P]
      BY ONLY <3>2
    <3> QED
      BY Zenon, <3>1, <3>2
  <2> QED
    BY Zenon, <1>2, <1>3, <2>1 DEF Lists
<1>5. ASSUME NEW t \in Lists(c), Linked(c, t) PROVE t = s
  <2> DEFINE n == Len(s)
  <2>1. t \in [1..n -> 1..N] /\ n \in Nat
    <3>1. s \in Seq(1..N)
      BY Zenon, <1>1
    <3>2. n \in Nat
      BY ONLY <3>1
    <3> QED
      BY Zenon, <1>2, <1>3, <3>2 DEF Lists
  <2> HIDE DEF n
  <2>2. t \in Seq(1..N) /\ NoSlot \notin 1..N
    <3>1. NoSlot \notin 1..N
      BY SMT, <1>1 DEF NoSlot
    <3>2. ASSUME NEW P, t \in [1..n -> P] PROVE t \in Seq(P)
      <4>1. n \in Nat
        BY Zenon, <2>1
      <4> QED
        BY ONLY <3>2, <4>1
    <3> QED
      BY Zenon, <2>1, <3>1, <3>2
  <2>6. /\ Chain(c.head, c.tail, NextOf(c), PrevOf(c), s)
        /\ Chain(c.head, c.tail, NextOf(c), PrevOf(c), t)
    BY <1>1, <1>2, <1>5, <2>2, LinkedIsChain
  <2>7. s \in Seq(1..N)
    BY <1>1
  <2>3. Len(s) <= Len(t) /\ \A j \in 1..Len(s) : s[j] = t[j]
    BY ONLY Zenon, <2>2, <2>6, <2>7, ChainUnique
  <2>4. Len(t) <= Len(s)
    BY ONLY Zenon, <2>2, <2>6, <2>7, ChainUnique
  <2>5. Len(s) = Len(t)
    <3>1. Len(s) \in Nat /\ Len(t) \in Nat
      BY SMT, <1>1, <2>2
    <3> QED
      BY SMT, <2>3, <2>4, <3>1
  <2> QED
    BY <1>1, <2>2, <2>3, <2>5, SameSequence
<1> QED
  BY <1>1, <1>2, <1>4, <1>5 DEF List

-----------------------------------------------------------------------------
(* The arena of the hot cache: eviction.                                   *)

\* One pass over the equation of evict_lfu's cursor.
Cursor(c, g) ==
  [n \in 0..ScanLimit(c) - 1 |->
     IF n = 0 THEN c.tail ELSE IF g[n - 1] = NIL THEN NIL ELSE c.nodes[g[n - 1]].next]

\* evict_lfu starts its scan at the tail and follows next, so it meets the tail
\* only.
LEMMA ScanMeetsTail ==
  ASSUME NEW c, c.tail # NIL, c.nodes[c.tail].next = NIL, ScanLimit(c) \in Nat \ {0}
  PROVE  /\ DOMAIN Scan(c) = 0..ScanLimit(c) - 1 /\ Scan(c)[0] = c.tail
         /\ \A n \in 0..ScanLimit(c) - 1 : n # 0 => Scan(c)[n] = NIL
<1> DEFINE K == ScanLimit(c)
           g == [n \in 0..K - 1 |-> IF n = 0 THEN c.tail ELSE NIL]
           f == Scan(c)
           Bad == {n \in Nat : n \in 0..K - 1 /\ n # 0 /\ f[n] # NIL}
<1>1. g = Cursor(c, g)
  <2>1. ASSUME NEW n \in 0..K - 1 PROVE g[n] = Cursor(c, g)[n]
    <3>1. CASE n = 0
      BY <3>1 DEF Cursor
    <3>2. CASE n # 0
      <4>1. n - 1 \in 0..K - 1
        BY SMT, <3>2
      <4>2. g[n - 1] = (IF n - 1 = 0 THEN c.tail ELSE NIL) /\ g[n] = NIL
        BY <3>2, <4>1
      <4>3. Cursor(c, g)[n] = IF g[n - 1] = NIL THEN NIL ELSE c.nodes[g[n - 1]].next
        BY <3>2 DEF Cursor
      <4> HIDE DEF g
      <4> QED
        BY <4>2, <4>3
    <3> QED
      BY <3>1, <3>2
  <2>2. DOMAIN g = 0..K - 1 /\ DOMAIN Cursor(c, g) = 0..K - 1
    BY DEF Cursor
  <2>3. g = [n \in 0..K - 1 |-> g[n]]
    BY <2>2
  <2>4. Cursor(c, g) = [n \in 0..K - 1 |-> Cursor(c, g)[n]]
    BY DEF Cursor
  <2> HIDE DEF g, K
  <2> QED
    BY <2>1, <2>3, <2>4
<1>2. f = Cursor(c, f)
  <2>1. f = CHOOSE h : h = Cursor(c, h)
    BY DEF Scan, Cursor
  <2> HIDE DEF f, g
  <2> QED
    BY Zenon, <1>1, <2>1
<1> HIDE DEF f
<1>3. DOMAIN f = 0..K - 1 /\ f[0] = c.tail
  BY SMT, <1>2 DEF Cursor
<1>4. ASSUME NEW n \in 0..K - 1, n # 0
      PROVE  f[n] = IF f[n - 1] = NIL THEN NIL ELSE c.nodes[f[n - 1]].next
  BY <1>2, <1>4 DEF Cursor
<1>5. Bad = {}
  <2>1. SUFFICES ASSUME Bad # {} PROVE FALSE
    OBVIOUS
  <2>2. PICK n \in Bad : \A m \in Bad : n <= m
    <3>1. Bad \subseteq Nat
      OBVIOUS
    <3> HIDE DEF Bad
    <3> QED
      BY <2>1, <3>1, LeastNatural
  <2>3. n \in Nat /\ n \in 0..K - 1 /\ n # 0 /\ f[n] # NIL
    OBVIOUS
  <2>4. CASE n = 1
    BY SMT, <1>3, <1>4, <2>3, <2>4
  <2>5. CASE n # 1
    <3>1. n - 1 \in Nat /\ n - 1 \in 0..K - 1 /\ n - 1 # 0 /\ ~ (n <= n - 1)
      <4> HIDE DEF Bad, g
      <4> QED
        BY SMT, <2>3, <2>5
    <3>2. n - 1 \notin Bad
      <4> HIDE DEF Bad
      <4> QED
        BY <2>2, <3>1
    <3>3. f[n - 1] = NIL
      BY <3>1, <3>2
    <3> QED
      BY <1>4, <2>3, <3>3
  <2> QED
    BY <2>4, <2>5
<1>6. ASSUME NEW n \in 0..K - 1, n # 0 PROVE f[n] = NIL
  <2>1. n \in Nat
    OBVIOUS
  <2> QED
    BY Zenon, <1>5, <1>6, <2>1
<1> QED
  BY Zenon, <1>3, <1>6 DEF f

\* Under every policy the victim is the least recently used entry.
LEMMA VictimIsTail ==
  ASSUME NEW N, NEW c, NEW s, Sound(c, N, s), c.tail # NIL, NEW p
  PROVE  Victim(c, p) = c.tail
<1> DEFINE scan == Scan(c)
           met == {n \in DOMAIN scan : scan[n] # NIL}
           Access(n) == c.nodes[scan[n]].access
           least == {n \in met : \A m \in met : Access(n) <= Access(m)}
<1>1. Len(s) # 0 /\ c.nodes[c.tail].next = NIL /\ c.tail \in 1..N
  BY SMT DEF Sound, CacheRecs, Linked, NIL
<1>2. ScanLimit(c) \in Nat \ {0}
  <2> DEFINE q == Cardinality(DOMAIN c.map) \div ScanDivisor
  <2>1. Cardinality(DOMAIN c.map) \in Nat /\ ScanDivisor \in Nat \ {0}
    BY CacheAssumption, FS_CardinalityType DEF Sound
  <2>2. q \in Nat
    BY SMT, <2>1
  <2> HIDE DEF q
  <2>3. \E x \in {1, q} : \A y \in {1, q} : x >= y
    BY SMT, <2>2
  <2>4. ScanLimit(c) = CHOOSE x \in {1, q} : \A y \in {1, q} : x >= y
    BY DEF ScanLimit, Max, q
  <2>5. ScanLimit(c) \in {1, q} /\ ScanLimit(c) >= 1
    BY <2>3, <2>4
  <2> QED
    BY SMT, <2>2, <2>5
<1>3. /\ DOMAIN scan = 0..ScanLimit(c) - 1 /\ scan[0] = c.tail
      /\ \A n \in 0..ScanLimit(c) - 1 : n # 0 => scan[n] = NIL
  BY <1>1, <1>2, ScanMeetsTail
<1>4. 0 \in DOMAIN scan
  BY SMT, <1>2, <1>3
<1>5. met = {0}
  <2> HIDE DEF scan
  <2> QED
    BY <1>3, <1>4
<1>6. Access(0) \in Nat
  <2>1. c.nodes[c.tail] \in NodeRecs(N)
    BY <1>1 DEF Sound, CacheRecs
  <2>2. c.nodes[c.tail].access \in 1..MaxAccess /\ MaxAccess \in Nat
    BY <2>1, CacheAssumption DEF NodeRecs
  <2> QED
    BY SMT, <1>3, <2>2
<1>7. least = {0}
  <2> HIDE DEF met, Access
  <2> QED
    BY SMT, <1>5, <1>6
<1>8. Min(least) = 0
  <2> HIDE DEF least
  <2> QED
    BY SMT, <1>7 DEF Min
<1>9. LeastUsed(c) = scan[Min(least)]
  BY DEF LeastUsed
<1> HIDE DEF least, scan
<1> QED
  BY <1>3, <1>8, <1>9 DEF Victim

\* d is the cache c, with list s, without its last m entries.
Dropped(c, d, N, s, m) ==
  m \in 0..Len(s) /\ Sound(d, N, SubSeq(s, 1, Len(s) - m)) /\ SameEntries(c, d, N)

\* The bytes of the first n entries.
BytesOf(c, s, n) == SumOver(Weighed(c), {c.nodes[s[j]].key : j \in 1..n})

\* Dropping entries leaves the others mapped as they were.
LEMMA DroppedMap ==
  ASSUME NEW N, NEW c, NEW s, Sound(c, N, s), NEW d, NEW m, Dropped(c, d, N, s, m)
  PROVE  /\ DOMAIN d.map = {c.nodes[s[j]].key : j \in 1..(Len(s) - m)}
         /\ DOMAIN d.map \subseteq DOMAIN c.map
         /\ \A k \in DOMAIN d.map : d.map[k] = c.map[k] /\ d.map[k] \in 1..N
<1> DEFINE L == Len(s) - m
           t == SubSeq(s, 1, L)
<1>1. /\ s \in Seq(1..N) /\ m \in 0..Len(s) /\ L \in Nat /\ L <= Len(s)
      /\ Mapped(c, s) /\ Mapped(d, t) /\ SameEntries(c, d, N) /\ d \in CacheRecs(N) /\ N \in Nat
  BY SMT DEF Sound, Dropped
<1>2. DOMAIN t = 1..L /\ \A j \in 1..L : t[j] = s[j]
  BY SMT, <1>1
<1>3. DOMAIN s = 1..Len(s) /\ \A j \in 1..L : j \in 1..Len(s)
  BY SMT, <1>1
<1>4. Range(t) = {s[j] : j \in 1..L} /\ Range(s) = {s[j] : j \in 1..Len(s)}
  <2> HIDE DEF t, L
  <2> QED
    BY <1>2, <1>3 DEF Range
<1> HIDE DEF t, L
<1>5. Range(t) \subseteq Range(s) /\ Range(s) \subseteq 1..N
  <2>1. Range(t) \subseteq Range(s)
    BY <1>3, <1>4
  <2> QED
    BY <2>1, <1>1, SeqOfRange
<1>6. \A i \in Range(t) : d.nodes[i].key = c.nodes[i].key
  BY <1>1, <1>5 DEF SameEntries
<1>7. DOMAIN d.map = {c.nodes[i].key : i \in Range(t)}
  <2>1. ASSUME NEW k \in DOMAIN d.map PROVE k \in {c.nodes[i].key : i \in Range(t)}
    BY SMT, <1>1, <1>6 DEF Mapped
  <2>2. ASSUME NEW i \in Range(t) PROVE c.nodes[i].key \in DOMAIN d.map
    BY <1>1, <1>6 DEF Mapped
  <2> QED
    BY <2>1, <2>2
<1>8. ASSUME NEW k \in DOMAIN d.map
      PROVE  k \in DOMAIN c.map /\ d.map[k] = c.map[k] /\ d.map[k] \in 1..N
  <2>1. d.map[k] \in Range(t) /\ d.nodes[d.map[k]].key = k
    BY <1>1 DEF Mapped
  <2>2. d.map[k] \in Range(s) /\ c.nodes[d.map[k]].key = k
    BY <1>5, <1>6, <2>1
  <2>3. k \in DOMAIN c.map /\ c.map[k] = d.map[k]
    BY Zenon, <1>1, <2>2 DEF Mapped
  <2> QED
    BY Zenon, <1>5, <2>2, <2>3
<1>9. {c.nodes[i].key : i \in Range(t)} = {c.nodes[s[j]].key : j \in 1..L}
  BY SMT, <1>4
<1> QED
  BY <1>7, <1>8, <1>9 DEF L

\* What is left is charged for what is left.
LEMMA DroppedSize ==
  ASSUME NEW N, NEW c, NEW s, Sound(c, N, s), NEW d, NEW m, Dropped(c, d, N, s, m)
  PROVE  d.size = BytesOf(c, s, Len(s) - m)
<1> DEFINE D == DOMAIN d.map
<1>1. /\ N \in Nat /\ c \in CacheRecs(N) /\ d \in CacheRecs(N) /\ IsFiniteSet(D)
      /\ d.size = Charged(d) /\ SameEntries(c, d, N)
  BY DEF Sound, Dropped
<1>2. /\ D = {c.nodes[s[j]].key : j \in 1..(Len(s) - m)} /\ D \subseteq DOMAIN c.map
      /\ \A k \in D : d.map[k] = c.map[k] /\ d.map[k] \in 1..N
  BY SMT, DroppedMap
<1>3. /\ \A k \in D : Weighed(d)[k] \in Nat /\ Weighed(d)[k] = SizeAt(d, d.map[k])
      /\ \A k \in DOMAIN c.map : Weighed(c)[k] \in Nat /\ Weighed(c)[k] = SizeAt(c, c.map[k])
  BY <1>1, MappedTypes
<1> HIDE DEF D
<1>4. ASSUME NEW k \in D PROVE Weighed(d)[k] = Weighed(c)[k] /\ Weighed(c)[k] \in Int
  <2>1. d.map[k] = c.map[k] /\ d.map[k] \in 1..N /\ k \in DOMAIN c.map
    BY Zenon, <1>2
  <2>2. d.nodes[d.map[k]].account = c.nodes[d.map[k]].account
    BY Zenon, <1>1, <2>1 DEF SameEntries
  <2>3. SizeAt(d, d.map[k]) = SizeAt(c, c.map[k])
    BY Zenon, <2>1, <2>2 DEF SizeAt
  <2>4. Weighed(d)[k] = Weighed(c)[k] /\ Weighed(c)[k] \in Nat
    BY Zenon, <1>3, <2>1, <2>3
  <2> QED
    BY SMT, <2>4
<1>5. SumOver(Weighed(d), D) = SumOver(Weighed(c), D)
  BY <1>1, <1>4, SumSame
<1>6. d.size = SumOver(Weighed(d), D)
  BY <1>1, ChargedIs DEF D
<1> QED
  BY <1>2, <1>5, <1>6 DEF BytesOf

\* One turn of the loop of evict_lru and evict_lfu: nothing when the rest fits or
\* nothing is left, else the last entry goes.
LEMMA EvictStep ==
  ASSUME NEW N, NEW c, NEW s, Sound(c, N, s), NEW d, NEW m, Dropped(c, d, N, s, m), NEW p
  PROVE  IF BytesOf(c, s, Len(s) - m) <= CacheWatermark \/ m = Len(s)
         THEN EvictOne(d, p) = d ELSE Dropped(c, EvictOne(d, p), N, s, m + 1)
<1> DEFINE L == Len(s) - m
           t == SubSeq(s, 1, L)
<1>1. /\ N \in Nat /\ s \in Seq(1..N) /\ Distinct(s) /\ m \in 0..Len(s) /\ Len(s) \in Nat
      /\ Sound(d, N, t) /\ SameEntries(c, d, N)
  BY SMT DEF Sound, Dropped
<1>2. d.size = BytesOf(c, s, L)
  BY SMT, DroppedSize
<1>3. Len(t) = L /\ L \in Nat
  BY SMT, <1>1
<1>4. d.tail = NIL <=> L = 0
  <2>1. Linked(d, t) /\ t \in Seq(1..N)
    BY <1>1 DEF Sound
  <2>2. L # 0 => t[L] \in 1..N /\ d.tail = t[L]
    BY SMT, <1>3, <2>1 DEF Linked
  <2>3. L = 0 => d.tail = NIL
    BY Zenon, <1>3, <2>1 DEF Linked
  <2>4. \A x \in 1..N : x # NIL
    BY SMT, <1>1 DEF NIL
  <2> QED
    BY Zenon, <2>2, <2>3, <2>4
<1>5. CASE BytesOf(c, s, L) <= CacheWatermark \/ m = Len(s)
  <2>1. L = 0 <=> m = Len(s)
    BY SMT, <1>1
  <2> HIDE DEF L
  <2>2. d.size <= CacheWatermark \/ d.tail = NIL
    BY <1>2, <1>4, <1>5, <2>1
  <2> QED
    BY <1>5, <2>2 DEF EvictOne, L
<1>6. CASE ~ (BytesOf(c, s, L) <= CacheWatermark \/ m = Len(s))
  <2>1. L # 0 /\ L \in 1..Len(s)
    BY <1>1, <1>6
  <2>2. ~ (d.size <= CacheWatermark \/ d.tail = NIL)
    BY <1>2, <1>4, <1>6, <2>1
  <2>3. EvictOne(d, p) = Release(d, d.tail)
    <3>1. EvictOne(d, p) = Release(d, Victim(d, p))
      BY <2>2 DEF EvictOne
    <3> QED
      BY <1>1, <2>2, <3>1, VictimIsTail
  <2>4. TakeOut(t, L) = SubSeq(s, 1, L - 1) /\ t[L] = s[L] /\ L \in 1..Len(t)
    <3> HIDE DEF L
    <3>1. TakeOut(t, L) = SubSeq(s, 1, L - 1) /\ Len(t) = L /\ t[L] = s[L]
      BY Zenon, <1>1, <2>1, TakeLast
    <3>2. L \in 1..L
      BY ONLY <1>3, <2>1
    <3> QED
      BY Zenon, <3>1, <3>2
  <2>5. d.tail = t[L]
    BY <1>1, <1>3, <2>1 DEF Sound, Linked
  <2> HIDE DEF t, L
  <2>6. Sound(Release(d, t[L]), N, TakeOut(t, L)) /\ SameEntries(d, Release(d, t[L]), N)
    BY <1>1, <2>4, ReleaseSound
  <2>7. SameEntries(c, Release(d, t[L]), N)
    BY <1>1, <2>6 DEF SameEntries
  <2>8. m + 1 \in 0..Len(s) /\ L - 1 = Len(s) - (m + 1)
    BY <1>1, <2>1 DEF L
  <2>9. Dropped(c, Release(d, t[L]), N, s, m + 1)
    BY <2>4, <2>6, <2>7, <2>8 DEF Dropped
  <2> QED
    BY <1>6, <2>3, <2>5, <2>9 DEF L
<1> QED
  BY <1>5, <1>6

\* After n turns: entries went from the end while the rest was too large, and the
\* loop stopped only when it fits, or nothing is left, or the turns are over.
Evicting(c, d, N, s, n, m) ==
  /\ Dropped(c, d, N, s, m) /\ m <= n
  /\ \A h \in 0..Len(s) : h > Len(s) - m => ~ (BytesOf(c, s, h) <= CacheWatermark)
  /\ m = n \/ m = Len(s) \/ BytesOf(c, s, Len(s) - m) <= CacheWatermark

\* A turn of the eviction loop keeps what Evicting says.
LEMMA EvictingNext ==
  ASSUME NEW N, NEW c, NEW s, Sound(c, N, s), NEW d, NEW n \in Nat, NEW p,
         NEW m, Evicting(c, d, N, s, n, m)
  PROVE  \E q : Evicting(c, EvictOne(d, p), N, s, n + 1, q)
<1> DEFINE stop == BytesOf(c, s, Len(s) - m) <= CacheWatermark \/ m = Len(s)
<1>1. Dropped(c, d, N, s, m) /\ m <= n /\ m \in 0..Len(s) /\ Len(s) \in Nat
  <2>1. s \in Seq(1..N)
    BY Zenon DEF Sound
  <2>2. Len(s) \in Nat
    BY ONLY <2>1
  <2> QED
    BY Zenon, <2>2 DEF Evicting, Dropped
<1>2. \A h \in 0..Len(s) : h > Len(s) - m => ~ (BytesOf(c, s, h) <= CacheWatermark)
  BY DEF Evicting
<1>3. IF stop THEN EvictOne(d, p) = d ELSE Dropped(c, EvictOne(d, p), N, s, m + 1)
  BY <1>1, EvictStep
<1>4. CASE stop
  <2>1. EvictOne(d, p) = d /\ m <= n + 1
    BY SMT, <1>1, <1>3, <1>4
  <2> QED
    BY <1>1, <1>2, <1>4, <2>1 DEF Evicting
<1>5. CASE ~ stop
  <2>1. Dropped(c, EvictOne(d, p), N, s, m + 1) /\ m = n
    BY <1>3, <1>5 DEF Evicting
  <2>2. ASSUME NEW h \in 0..Len(s), h > Len(s) - (m + 1)
        PROVE  ~ (BytesOf(c, s, h) <= CacheWatermark)
    <3>1. h = Len(s) - m \/ h > Len(s) - m
      BY SMT, <1>1, <2>2
    <3> QED
      BY <1>2, <1>5, <3>1
  <2>3. m + 1 <= n + 1
    BY SMT, <2>1
  <2>4. Evicting(c, EvictOne(d, p), N, s, n + 1, m + 1)
    BY <2>1, <2>2, <2>3 DEF Evicting
  <2> QED
    BY <2>4
<1> QED
  BY <1>4, <1>5

\* Nothing dropped yet.
LEMMA EvictingFirst ==
  ASSUME NEW N, NEW c, NEW s, Sound(c, N, s)
  PROVE  Evicting(c, c, N, s, 0, 0)
<1>1. s \in Seq(1..N) /\ Len(s) \in Nat
  BY SMT DEF Sound
<1>2. SubSeq(s, 1, Len(s)) = s /\ Len(s) - 0 = Len(s)
  BY SMT, <1>1
<1>3. Dropped(c, c, N, s, 0)
  <2>1. 0 \in 0..Len(s) /\ Sound(c, N, SubSeq(s, 1, Len(s) - 0))
    <3>1. 0 \in 0..Len(s)
      BY SMT, <1>1
    <3>2. SubSeq(s, 1, Len(s) - 0) = s
      BY Zenon, <1>2
    <3> QED
      BY Zenon, <3>1, <3>2
  <2>2. SameEntries(c, c, N)
    BY DEF SameEntries
  <2> QED
    BY <2>1, <2>2 DEF Dropped
<1>4. \A h \in 0..Len(s) : ~ (h > Len(s) - 0)
  BY SMT, <1>1
<1> QED
  BY SMT, <1>3, <1>4 DEF Evicting

\* One pass over the equation of the loop.
EvictPass(c, p, g) ==
  [n \in 0..CacheBatch |-> IF n = 0 THEN c ELSE EvictOne(g[n - 1], p)]

\* The loop: evict_to_warm drops entries from the end of the list until the rest
\* fits, nothing is left or the batch is full.
LEMMA EvictedSound ==
  ASSUME NEW N, NEW c, NEW s, Sound(c, N, s), NEW p
  PROVE  \E m : Evicting(c, Evicted(c, p), N, s, CacheBatch, m)
<1> DEFINE V == {d \in CacheRecs(N) : \E m \in Nat, n \in Nat : Evicting(c, d, N, s, n, m)}
           step == [x \in Nat \X V |-> EvictOne(x[2], p)]
           B == CacheBatch
<1>1. B \in Nat
  BY CacheAssumption
<1>2. \A d, n, m : Evicting(c, d, N, s, n, m) => d \in CacheRecs(N) /\ m \in Nat
  BY SMT DEF Evicting, Dropped, Sound
<1>3. c \in V
  BY <1>2, EvictingFirst
<1>4. ASSUME NEW d \in V PROVE EvictOne(d, p) \in V
  <2>1. PICK m \in Nat, n \in Nat : Evicting(c, d, N, s, n, m)
    OBVIOUS
  <2>2. PICK q : Evicting(c, EvictOne(d, p), N, s, n + 1, q)
    BY <2>1, EvictingNext
  <2>3. n + 1 \in Nat /\ q \in Nat /\ EvictOne(d, p) \in CacheRecs(N)
    BY SMT, <1>2, <2>2
  <2> QED
    BY <2>2, <2>3
<1> HIDE DEF V
<1>5. \A n \in Nat, d \in V : step[<<n, d>>] = EvictOne(d, p)
  OBVIOUS
<1>6. StaysIn(step, V)
  BY <1>4, <1>5 DEF StaysIn
<1> HIDE DEF step
<1>7. PICK g : Solves(g, c, step, B, V)
  BY <1>1, <1>3, <1>6, RecursionExists
<1>8. g \in [0..B -> V] /\ g = Recursion(c, step, B, g)
  BY <1>7 DEF Solves
<1>9. g = EvictPass(c, p, g)
  <2>1. ASSUME NEW n \in 0..B
        PROVE  g[n] = IF n = 0 THEN c ELSE EvictOne(g[n - 1], p)
    <3>1. g[n] = IF n = 0 THEN c ELSE step[<<n, g[n - 1]>>]
      BY <1>8 DEF Recursion
    <3>2. n # 0 => n \in Nat /\ g[n - 1] \in V
      BY SMT, <1>1, <1>8
    <3> QED
      BY <1>5, <3>1, <3>2
  <2>2. g = [n \in 0..B |-> g[n]]
    BY <1>8
  <2> QED
    BY <2>1, <2>2 DEF EvictPass
<1> DEFINE f == CHOOSE h : h = EvictPass(c, p, h)
<1>10. f = EvictPass(c, p, f)
  BY Zenon, <1>9
<1>11. Evicted(c, p) = f[B]
  BY DEF Evicted, EvictPass
<1> HIDE DEF f
<1>12. f[0] = c /\ \A n \in 0..B : n # 0 => f[n] = EvictOne(f[n - 1], p)
  <2>1. \A n \in 0..B : f[n] = EvictPass(c, p, f)[n]
    BY <1>10
  <2>2. \A n \in 0..B : f[n] = IF n = 0 THEN c ELSE EvictOne(f[n - 1], p)
    BY <2>1 DEF EvictPass
  <2> QED
    BY SMT, <1>1, <2>2
<1> DEFINE X == {n \in Nat : n <= B => \E m : Evicting(c, f[n], N, s, n, m)}
<1>13. 0 \in X
  BY <1>12, EvictingFirst
<1>14. ASSUME NEW n \in Nat, n \in X PROVE n + 1 \in X
  <2>1. SUFFICES ASSUME n + 1 <= B PROVE \E m : Evicting(c, f[n + 1], N, s, n + 1, m)
    BY SMT
  <2>2. n <= B /\ n + 1 \in 0..B /\ n + 1 # 0 /\ n + 1 - 1 = n
    BY SMT, <1>1, <2>1
  <2>3. PICK m : Evicting(c, f[n], N, s, n, m)
    BY <1>14, <2>2
  <2>4. f[n + 1] = EvictOne(f[n], p)
    BY SMT, <1>12, <2>2
  <2> QED
    BY SMT, <2>3, <2>4, EvictingNext
<1> HIDE DEF X
<1>15. Nat \subseteq X
  BY <1>13, <1>14, SetInduction
<1>16. B \in X /\ B <= B
  BY <1>1, <1>15
<1> QED
  BY <1>11, <1>16 DEF X

-----------------------------------------------------------------------------
(* The arena of the hot cache as a sequence of keys.                       *)

\* The keys of a sound cache: none twice, and the mapped ones.
LEMMA KeyOrderIs ==
  ASSUME NEW N, NEW c, NEW s, Sound(c, N, s)
  PROVE  /\ KeyOrder(c) = KeysOf(c, s) /\ KeysOf(c, s) \in Seq(CacheKeys)
         /\ Len(KeysOf(c, s)) = Len(s) /\ Distinct(KeysOf(c, s))
         /\ Range(KeysOf(c, s)) = DOMAIN c.map
         /\ \A n \in 1..Len(s) : KeysOf(c, s)[n] = c.nodes[s[n]].key
<1> DEFINE o == KeysOf(c, s)
<1>1. /\ N \in Nat /\ s \in Seq(1..N) /\ Distinct(s) /\ Mapped(c, s) /\ c \in CacheRecs(N)
      /\ Len(s) \in Nat /\ DOMAIN s = 1..Len(s)
  BY SMT DEF Sound
<1>2. KeyOrder(c) = o
  BY ListIs DEF KeyOrder, KeysOf
<1>3. \A n \in 1..Len(s) : s[n] \in Range(s) /\ s[n] \in 1..N
  <2>1. \A n \in 1..Len(s) : s[n] \in Range(s)
    BY Zenon, <1>1 DEF Range
  <2> QED
    BY SMT, <1>1, <2>1
<1>4. \A n \in 1..Len(s) : o[n] = c.nodes[s[n]].key /\ o[n] \in DOMAIN c.map /\ c.map[o[n]] = s[n]
  BY <1>1, <1>3 DEF Mapped, KeysOf
<1>5. DOMAIN c.map \subseteq CacheKeys
  BY <1>1, MappedTypes
<1>6. o \in [1..Len(s) -> CacheKeys]
  BY <1>4, <1>5 DEF KeysOf
<1> HIDE DEF o
<1>7. o \in Seq(CacheKeys) /\ Len(o) = Len(s) /\ DOMAIN o = 1..Len(s)
  <2>1. o \in Seq(CacheKeys) /\ DOMAIN o = 1..Len(s)
    BY SMT, <1>1, <1>6
  <2> QED
    BY SMT, <1>1, <2>1
<1>8. Distinct(o)
  <2> SUFFICES ASSUME NEW i \in 1..Len(s), NEW j \in 1..Len(s), o[i] = o[j] PROVE i = j
    BY Zenon, <1>7 DEF Distinct
  <2>1. s[i] = s[j]
    BY Zenon, <1>4
  <2> QED
    BY Zenon, <1>1, <2>1 DEF Distinct
<1>9. Range(o) = DOMAIN c.map
  <2>1. ASSUME NEW x \in Range(o) PROVE x \in DOMAIN c.map
    BY <1>4, <1>7 DEF Range
  <2>2. ASSUME NEW k \in DOMAIN c.map PROVE k \in Range(o)
    <3>1. PICK n \in 1..Len(s) : s[n] = c.map[k]
      BY ONLY Sound(c, N, s), k \in DOMAIN c.map, MappedPlace
    <3>2. o[n] = k
      BY <1>1, <1>4, <3>1 DEF Mapped
    <3>3. n \in DOMAIN o
      BY <1>7
    <3> QED
      BY Zenon, <3>2, <3>3 DEF Range
  <2> QED
    BY <2>1, <2>2
<1> QED
  BY <1>2, <1>4, <1>7, <1>8, <1>9 DEF o

\* A slot that keeps its place in the map keeps its key.
LEMMA KeysKept ==
  ASSUME NEW N, NEW c, NEW s, Sound(c, N, s), NEW M, NEW d, NEW t, Sound(d, M, t),
         NEW i \in Range(s), i \in Range(t),
         \A k \in DOMAIN c.map : c.map[k] \in Range(t) => k \in DOMAIN d.map /\ d.map[k] = c.map[k]
  PROVE  d.nodes[i].key = c.nodes[i].key
<1>1. c.nodes[i].key \in DOMAIN c.map /\ c.map[c.nodes[i].key] = i
  BY DEF Sound, Mapped
<1>2. c.nodes[i].key \in DOMAIN d.map /\ d.map[c.nodes[i].key] = i
  BY <1>1
<1> QED
  BY <1>2 DEF Sound, Mapped

\* Moving a slot to the front moves its key to the front.
LEMMA KeysMoved ==
  ASSUME NEW N, NEW c, NEW s, Sound(c, N, s), NEW n \in 1..Len(s),
         NEW d, Sound(d, N, MovedUp(s, n)), d.map = c.map
  PROVE  KeysOf(d, MovedUp(s, n)) = <<c.nodes[s[n]].key>> \o TakeOut(KeysOf(c, s), n)
<1> DEFINE r == TakeOut(s, n)
<1>1. s \in Seq(1..N) /\ Distinct(s) /\ N \in Nat /\ c \in CacheRecs(N)
  BY DEF Sound
<1>2. /\ r \in Seq(1..N) /\ Range(r) = Range(s) \ {s[n]} /\ Range(MovedUp(s, n)) = Range(s)
  BY SMT, <1>1, TakeOutFacts, MovedUpFacts
<1>3. s[n] \in Range(s) /\ s[n] \in 1..N
  <2>1. n \in DOMAIN s /\ s[n] \in 1..N
    BY SMT, <1>1
  <2> QED
    BY Zenon, <2>1 DEF Range
<1>4. ASSUME NEW i \in Range(s) PROVE d.nodes[i].key = c.nodes[i].key
  BY SMT, <1>2, KeysKept
<1>5. \A i \in Range(s) : c.nodes[i].key \in DOMAIN c.map
  BY DEF Sound, Mapped
<1>6. KeysOf(d, r) = TakeOut(KeysOf(c, s), n)
  BY <1>1, <1>4, <1>5, KeysTakeOut
<1>7. \A j \in Range(r) \cup {s[n]} : d.nodes[j].key \in DOMAIN c.map
  BY <1>2, <1>3, <1>4, <1>5
<1> HIDE DEF r
<1>8. KeysOf(d, <<s[n]>> \o r) = <<d.nodes[s[n]].key>> \o KeysOf(d, r)
  BY <1>2, <1>3, <1>7, KeysInFront
<1> QED
  BY <1>3, <1>4, <1>6, <1>8 DEF MovedUp, r

-----------------------------------------------------------------------------
(* The arena implements the abstract cache, one call at a time.            *)

\* The abstract cache uses the same sums.
LEMMA SameSum == \A f, S : Lru!SumOver(f, S) = SumOver(f, S)
<1> SUFFICES ASSUME NEW f, NEW S PROVE Lru!SumOver(f, S) = SumOver(f, S)
  OBVIOUS
<1>1. Lru!SumOver(f, S) = Totals(f, S)[S]
  BY DEF Lru!SumOver, Lru!MapThenSumSet, Lru!MapThenFoldSet, Totals, Unfolded, Pick
<1> QED
  BY <1>1, SumIsTotal

\* The keys of the abstract cache, and taking one out.
LEMMA AbstractKeys ==
  ASSUME NEW N, NEW s, Sound(cache, N, s)
  PROVE  /\ Lru!Cached = DOMAIN cache.map /\ DOMAIN Content(cache) = DOMAIN cache.map
         /\ \A k : k \notin DOMAIN cache.map => Lru!Without(k) = KeysOf(cache, s)
         /\ \A n \in 1..Len(s) :
              Lru!Without(cache.nodes[s[n]].key) = TakeOut(KeysOf(cache, s), n)
<1> DEFINE o == KeysOf(cache, s)
<1>1. /\ KeyOrder(cache) = o /\ o \in Seq(CacheKeys) /\ Len(o) = Len(s) /\ Distinct(o)
      /\ Range(o) = DOMAIN cache.map
      /\ \A n \in 1..Len(s) : o[n] = cache.nodes[s[n]].key
  BY SMT, KeyOrderIs
<1>2. Lru!Cached = DOMAIN cache.map
  BY <1>1 DEF Lru!Cached, Lru!Range, Range
<1>3. DOMAIN Content(cache) = DOMAIN cache.map
  BY DEF Content
<1>4. ASSUME NEW k, k \notin DOMAIN cache.map PROVE Lru!Without(k) = o
  BY <1>1, <1>2, <1>4 DEF Lru!Without
<1>5. ASSUME NEW n \in 1..Len(s) PROVE Lru!Without(cache.nodes[s[n]].key) = TakeOut(o, n)
  <2> DEFINE k == cache.nodes[s[n]].key
             i == CHOOSE i \in DOMAIN o : o[i] = k
  <2>1. o[n] = k /\ DOMAIN o = 1..Len(o) /\ n \in DOMAIN o
    BY SMT, <1>1
  <2>2. k \in Range(o)
    BY Zenon, <2>1 DEF Range
  <2> HIDE DEF o
  <2>3. i \in DOMAIN o /\ o[i] = k
    BY Zenon, <2>1
  <2>4. i = n
    BY SMT, <1>1, <2>1, <2>3 DEF Distinct
  <2>5. Lru!Without(k) = SubSeq(o, 1, i - 1) \o SubSeq(o, i + 1, Len(o))
    BY <1>1, <1>2, <2>2 DEF Lru!Without
  <2> HIDE DEF i
  <2> QED
    BY <2>4, <2>5 DEF TakeOut
<1> QED
  BY <1>2, <1>3, <1>4, <1>5 DEF o

\* get: a hit moves the key to the front and changes nothing else.
LEMMA GetRefines ==
  ASSUME NEW N, NEW s, Sound(cache, N, s), NEW k, CacheGet(k)
  PROVE  (\E M, t : Sound(cache', M, t)) /\ Lru!LruGet(k)
<1>1. k \in DOMAIN cache.map /\ cache' = GetIn(cache, k) /\ cache.nodes[cache.map[k]].access < MaxAccess
  BY DEF CacheGet
<1>2. PICK n \in 1..Len(s) : /\ s[n] = cache.map[k] /\ Sound(cache', N, MovedUp(s, n))
                             /\ Content(cache') = Content(cache) /\ cache'.map = cache.map
  BY <1>1, GetSound
<1>3. cache.nodes[s[n]].key = k
  BY <1>1, <1>2 DEF Sound, Mapped
<1>4. KeyOrder(cache') = <<k>> \o TakeOut(KeysOf(cache, s), n)
  <2>1. KeyOrder(cache') = KeysOf(cache', MovedUp(s, n))
    BY Zenon, <1>2, KeyOrderIs
  <2>2. KeysOf(cache', MovedUp(s, n)) = <<cache.nodes[s[n]].key>> \o TakeOut(KeysOf(cache, s), n)
    <3>1. Sound(cache', N, MovedUp(s, n)) /\ cache'.map = cache.map
      BY Zenon, <1>2
    <3> QED
      BY ONLY Sound(cache, N, s), n \in 1..Len(s), <3>1, KeysMoved
  <2> QED
    BY Zenon, <1>3, <2>1, <2>2
<1>5. Lru!Without(k) = TakeOut(KeysOf(cache, s), n) /\ Lru!Cached = DOMAIN cache.map
  BY <1>3, AbstractKeys
<1> QED
  BY <1>1, <1>2, <1>4, <1>5 DEF Lru!LruGet, Lru!ToFront

\* insert: the key goes to the front, with the new account.
LEMMA InsertRefines ==
  ASSUME NEW N, NEW s, Sound(cache, N, s), NEW k \in CacheKeys, NEW a \in CacheAccounts,
         CacheInsert(k, a)
  PROVE  (\E M, t : Sound(cache', M, t)) /\ Lru!LruInsert(k, a)
<1> DEFINE D == DOMAIN cache.map
           after == [j \in D \cup {k} |-> IF j = k THEN a ELSE Content(cache)[j]]
<1>1. cache' = InsertIn(cache, k, a)
  BY DEF CacheInsert
<1>2. Lru!Cached = D /\ DOMAIN Content(cache) = D
  BY AbstractKeys
<1>3. SUFFICES /\ \E M, t : Sound(cache', M, t)
               /\ KeyOrder(cache') = <<k>> \o Lru!Without(k)
               /\ Content(cache') = after
  BY <1>2, <1>3 DEF Lru!LruInsert, Lru!ToFront
<1>4. CASE k \in D
  <2>1. PICK n \in 1..Len(s) : /\ s[n] = cache.map[k] /\ Sound(cache', N, MovedUp(s, n))
                               /\ Content(cache') = [Content(cache) EXCEPT ![k] = a]
                               /\ cache'.map = cache.map
    BY SMT, <1>1, <1>4, InsertOldSound
  <2>2. cache.nodes[s[n]].key = k
    BY <1>4, <2>1 DEF Sound, Mapped
  <2>3. KeyOrder(cache') = <<k>> \o TakeOut(KeysOf(cache, s), n)
    BY SMT, <2>1, <2>2, KeyOrderIs, KeysMoved
  <2>4. Lru!Without(k) = TakeOut(KeysOf(cache, s), n)
    BY <2>2, AbstractKeys
  <2>5. Content(cache') = after
    <3>1. D \cup {k} = D
      BY <1>4
    <3> HIDE DEF D
    <3>2. Content(cache) = [j \in D |-> Content(cache)[j]]
      BY <1>2 DEF Content
    <3> QED
      BY <1>2, <1>4, <2>1, <3>1, <3>2
  <2> QED
    BY <2>1, <2>3, <2>4, <2>5
<1>5. CASE k \notin D
  <2> DEFINE i == AllocIndex(cache)
             t == <<i>> \o s
  <2>0. PICK M : Inserted(cache, cache', k, a, s, M)
    BY <1>1, <1>5, InsertNewSound
  <2>1. /\ Sound(cache', M, t) /\ i \notin Range(s) /\ Content(cache') = after
        /\ cache'.map[k] = i /\ \A j \in D : cache'.map[j] = cache.map[j]
    BY <2>0 DEF Inserted
  <2> HIDE DEF i, t
  <2>2. DOMAIN cache'.map = D \cup {k}
    <3>1. DOMAIN Content(cache') = D \cup {k}
      BY <2>1
    <3> QED
      BY <3>1 DEF Content
  <2>3. s \in Seq(1..N) /\ t \in Seq(1..M) /\ Distinct(s)
    BY <2>1 DEF Sound
  <2>4. s \in Seq(Range(s) \cup {i})
    <3>1. s \in Seq(Range(s))
      BY <2>3, SeqOfRange
    <3> QED
      BY <3>1, SeqMono
  <2>5. Range(t) = Range(s) \cup {i}
    BY SMT, <2>1, <2>3, <2>4, InFrontFacts DEF t
  <2>6. ASSUME NEW j \in Range(s) PROVE cache'.nodes[j].key = cache.nodes[j].key
    <3>1. j \in Range(t)
      BY <2>5
    <3>2. \A h \in D : h \in DOMAIN cache'.map /\ cache'.map[h] = cache.map[h]
      BY <2>1, <2>2
    <3> QED
      BY SMT, <2>1, <3>1, <3>2, KeysKept
  <2>7. cache'.nodes[i].key = k
    BY <2>1, <2>2 DEF Sound, Mapped
  <2>8. \A j \in Range(s) \cup {i} : cache'.nodes[j].key \in DOMAIN cache'.map
    BY <2>1, <2>5 DEF Sound, Mapped
  <2>9. KeysOf(cache', t) = <<k>> \o KeysOf(cache', s)
    <3>1. KeysOf(cache', <<i>> \o s) = <<cache'.nodes[i].key>> \o KeysOf(cache', s)
      <4>1. i \in Range(s) \cup {i}
        OBVIOUS
      <4> QED
        BY ONLY Zenon, <2>4, <2>8, <4>1, KeysInFront
    <3> QED
      BY <2>7, <3>1 DEF t
  <2>10. KeysOf(cache', s) = KeysOf(cache, s)
    <3>1. ASSUME NEW n \in 1..Len(s) PROVE cache'.nodes[s[n]].key = cache.nodes[s[n]].key
      <4>1. s \in Seq(1..N)
        BY Zenon, <2>3
      <4>2. DOMAIN s = 1..Len(s)
        BY ONLY <4>1
      <4>3. s[n] \in Range(s)
        BY Zenon, <4>2 DEF Range
      <4> QED
        BY Zenon, <2>6, <4>3
    <3> QED
      BY <3>1 DEF KeysOf
  <2>11. KeyOrder(cache') = <<k>> \o KeysOf(cache, s)
    BY <2>1, <2>9, <2>10, KeyOrderIs
  <2>12. Lru!Without(k) = KeysOf(cache, s)
    BY <1>5, AbstractKeys
  <2> QED
    BY <2>1, <2>11, <2>12
<1> QED
  BY <1>4, <1>5

\* remove: the key and its account go.
LEMMA RemoveRefines ==
  ASSUME NEW N, NEW s, Sound(cache, N, s), NEW k, CacheRemove(k)
  PROVE  (\E M, t : Sound(cache', M, t)) /\ Lru!LruRemove(k)
<1> DEFINE D == DOMAIN cache.map
<1>1. k \in D /\ cache' = Release(cache, cache.map[k])
  BY DEF CacheRemove, RemoveFrom
<1>2. PICK n \in 1..Len(s) : s[n] = cache.map[k]
  BY ONLY Sound(cache, N, s), <1>1, MappedPlace
<1>3. cache.nodes[s[n]].key = k
  BY <1>1, <1>2 DEF Sound, Mapped
<1>4. /\ Sound(cache', N, TakeOut(s, n)) /\ SameEntries(cache, cache', N)
      /\ cache'.map = Restrict(cache.map, D \ {k})
  <2>1. /\ Sound(Release(cache, s[n]), N, TakeOut(s, n)) /\ SameEntries(cache, Release(cache, s[n]), N)
        /\ Release(cache, s[n]).map = Unmapped(cache, s[n])
    BY ONLY ReleaseSound, Sound(cache, N, s), n \in 1..Len(s)
  <2>2. Unmapped(cache, s[n]) = Restrict(cache.map, D \ {k})
    BY <1>3 DEF Unmapped
  <2> QED
    BY Zenon, <1>1, <1>2, <1>3, <2>1, <2>2
<1>5. /\ s \in Seq(1..N) /\ Distinct(s) /\ N \in Nat /\ cache \in CacheRecs(N)
      /\ Range(s) \subseteq 1..N /\ \A i \in Range(s) : cache.nodes[i].key \in D
  BY DEF Sound, Mapped
<1>6. KeysOf(cache', TakeOut(s, n)) = TakeOut(KeysOf(cache, s), n)
  <2>1. \A i \in Range(s) \ {s[n]} : cache'.nodes[i].key = cache.nodes[i].key
    BY <1>4, <1>5 DEF SameEntries
  <2> HIDE DEF D
  <2> QED
    BY <1>5, <2>1, KeysTakeOut
<1>7. KeyOrder(cache') = Lru!Without(k)
  <2>1. Lru!Without(k) = TakeOut(KeysOf(cache, s), n)
    BY <1>3, AbstractKeys
  <2>2. KeyOrder(cache') = KeysOf(cache', TakeOut(s, n))
    BY <1>4, KeyOrderIs
  <2> QED
    BY <1>6, <2>1, <2>2
<1>8. Content(cache') = [j \in D \ {k} |-> Content(cache)[j]]
  <2>1. DOMAIN cache'.map = D \ {k} /\ \A j \in D \ {k} : cache'.map[j] = cache.map[j]
    BY <1>4 DEF Restrict
  <2>2. \A j \in D : cache.map[j] \in 1..N
    BY <1>5, MappedTypes
  <2>3. \A j \in D \ {k} : cache'.nodes[cache'.map[j]].account = cache.nodes[cache.map[j]].account
    BY <1>4, <2>1, <2>2 DEF SameEntries
  <2> QED
    BY <2>1, <2>3 DEF Content
<1>9. Lru!Cached = D
  BY AbstractKeys
<1> QED
  BY <1>4, <1>7, <1>8, <1>9 DEF Lru!LruRemove

\* The bytes of the first keys, in the abstract cache and in the arena.
LEMMA AbstractBytes ==
  ASSUME NEW N, NEW s, Sound(cache, N, s)
  PROVE  \A n \in 0..Len(s) : Lru!Bytes(n) = BytesOf(cache, s, n)
<1> DEFINE D == DOMAIN cache.map
           w == [k \in DOMAIN Content(cache) |-> CacheMemory[Content(cache)[k]]]
<1>1. /\ KeyOrder(cache) = KeysOf(cache, s)
      /\ \A n \in 1..Len(s) : KeysOf(cache, s)[n] = cache.nodes[s[n]].key
  BY SMT, KeyOrderIs
<1>2. w = Weighed(cache)
  BY DEF Weighed, Content, SizeAt
<1>3. ASSUME NEW n \in 0..Len(s) PROVE Lru!Bytes(n) = BytesOf(cache, s, n)
  <2>1. Lru!Bytes(n) = SumOver(w, {KeyOrder(cache)[i] : i \in 1..n})
    BY SameSum DEF Lru!Bytes
  <2>2. \A i \in 1..n : i \in 1..Len(s)
    BY SMT DEF Sound
  <2>3. {KeyOrder(cache)[i] : i \in 1..n} = {cache.nodes[s[i]].key : i \in 1..n}
    <3>1. \A i \in 1..n : KeyOrder(cache)[i] = cache.nodes[s[i]].key
      BY Zenon, <1>1, <2>2
    <3> QED
      BY ONLY <3>1
  <2> HIDE DEF w
  <2> QED
    BY <1>2, <2>1, <2>3 DEF BytesOf
<1> QED
  BY <1>3

\* How many keys the abstract cache keeps.
LEMMA AbstractKept ==
  ASSUME NEW N, NEW s, Sound(cache, N, s), NEW d, NEW m, Evicting(cache, d, N, s, CacheBatch, m)
  PROVE  Lru!Kept = Len(s) - m
<1> DEFINE L == Len(s)
           W == CacheWatermark
           lengths == {n \in 0..L : L - n <= CacheBatch}
           fitting == {n \in lengths : Lru!Bytes(n) <= W}
<1>1. /\ L \in Nat /\ m \in 0..L /\ m <= CacheBatch /\ CacheBatch \in Nat /\ W \in Nat
      /\ L - m \in 0..L
  <2>1. s \in Seq(1..N) /\ m \in 0..L /\ m <= CacheBatch
    BY Zenon DEF Sound, Evicting, Dropped
  <2>2. CacheBatch \in Nat /\ W \in Nat
    BY Zenon, CacheAssumption
  <2> QED
    BY ONLY <2>1, <2>2
<1>2. /\ \A h \in 0..L : h > L - m => ~ (Lru!Bytes(h) <= W)
      /\ m = CacheBatch \/ m = L \/ Lru!Bytes(L - m) <= W
  BY <1>1, AbstractBytes DEF Evicting
<1>3. Lru!Kept = IF fitting # {} THEN Lru!Max(fitting) ELSE Lru!Min(lengths)
  <2>1. Len(KeyOrder(cache)) = L
    BY KeyOrderIs
  <2> QED
    BY <2>1 DEF Lru!Kept
<1>4. L - m \in lengths
  BY SMT, <1>1
<1>5. CASE Lru!Bytes(L - m) <= W
  <2>1. L - m \in fitting /\ \A h \in fitting : h \in Nat /\ L - m >= h
    BY SMT, <1>1, <1>2, <1>4, <1>5
  <2> HIDE DEF fitting
  <2>2. Lru!Max(fitting) = L - m
    <3>1. Lru!Max(fitting) \in fitting /\ \A h \in fitting : Lru!Max(fitting) >= h
      BY <2>1 DEF Lru!Max
    <3> QED
      BY SMT, <1>1, <2>1, <3>1
  <2> QED
    BY <1>3, <2>1, <2>2
<1>6. CASE ~ (Lru!Bytes(L - m) <= W)
  <2>1. Lru!Bytes(0) = 0
    <3>1. BytesOf(cache, s, 0) = 0
      <4>1. {cache.nodes[s[j]].key : j \in 1..0} = {}
        BY SMT
      <4> QED
        BY <4>1, SumEmpty DEF BytesOf
    <3> QED
      BY SMT, <1>1, <3>1, AbstractBytes
  <2>2. m = CacheBatch
    <3>1. SUFFICES ASSUME m = L PROVE FALSE
      BY <1>2, <1>6
    <3>2. L - m = 0
      BY SMT, <1>1, <3>1
    <3> QED
      BY SMT, <1>1, <1>6, <2>1, <3>2
  <2>3. fitting = {}
    BY SMT, <1>1, <1>2, <1>6, <2>2
  <2>4. \A h \in lengths : h \in Nat /\ L - m <= h
    BY SMT, <1>1, <2>2
  <2> HIDE DEF lengths, fitting
  <2>5. Lru!Min(lengths) = L - m
    <3>1. Lru!Min(lengths) \in lengths /\ \A h \in lengths : Lru!Min(lengths) <= h
      BY <1>4, <2>4 DEF Lru!Min
    <3> QED
      <4>1. /\ Lru!Min(lengths) \in Nat /\ L - m \in Nat
            /\ Lru!Min(lengths) <= L - m /\ L - m <= Lru!Min(lengths)
        BY Zenon, <1>4, <2>4, <3>1
      <4> QED
        BY ONLY <4>1
  <2> QED
    BY <1>3, <2>3, <2>5
<1> QED
  BY <1>5, <1>6

\* evict_to_warm: keys go from the end until the rest fits, the batch is full or
\* nothing is left, under every policy.
LEMMA EvictRefines ==
  ASSUME NEW N, NEW s, Sound(cache, N, s), EvictToWarm
  PROVE  (\E M, t : Sound(cache', M, t)) /\ Lru!LruEvict
<1> DEFINE D == DOMAIN cache'.map
<1>1. PICK m : Evicting(cache, cache', N, s, CacheBatch, m)
  BY EvictedSound DEF EvictToWarm
<1> DEFINE L == Len(s) - m
           t == SubSeq(s, 1, L)
<1>2. /\ Dropped(cache, cache', N, s, m) /\ Sound(cache', N, t) /\ SameEntries(cache, cache', N)
      /\ m \in 0..Len(s)
  BY <1>1 DEF Evicting, Dropped
<1>3. Lru!Kept = L
  BY <1>1, AbstractKept
<1>4. /\ s \in Seq(1..N) /\ N \in Nat /\ L \in 0..Len(s) /\ Range(s) \subseteq 1..N
  BY SMT, <1>2 DEF Sound
<1> HIDE DEF L
<1>5. KeysOf(cache', t) = SubSeq(KeysOf(cache, s), 1, L)
  <2>1. \A i \in Range(s) : cache'.nodes[i].key = cache.nodes[i].key
    BY <1>2, <1>4 DEF SameEntries
  <2>2. s \in Seq(1..N) /\ L \in 0..Len(s)
    BY <1>4
  <2> QED
    BY ONLY Zenon, <2>1, <2>2, KeysFirst DEF t
<1> HIDE DEF t
<1>6. /\ KeyOrder(cache') = KeysOf(cache', t) /\ Range(KeysOf(cache', t)) = D
      /\ KeyOrder(cache) = KeysOf(cache, s)
  BY <1>2, KeyOrderIs
<1>7. KeyOrder(cache') = SubSeq(KeyOrder(cache), 1, Lru!Kept)
  BY <1>3, <1>5, <1>6
<1>8. Lru!Range(SubSeq(KeyOrder(cache), 1, Lru!Kept)) = D
  BY <1>6, <1>7 DEF Lru!Range, Range
<1>9. Content(cache') = [j \in D |-> Content(cache)[j]]
  <2>1. D \subseteq DOMAIN cache.map /\ \A k \in D : cache'.map[k] = cache.map[k] /\ cache'.map[k] \in 1..N
    BY <1>2, DroppedMap
  <2>2. \A j \in D : cache'.nodes[cache'.map[j]].account = cache.nodes[cache.map[j]].account
    BY <1>2, <2>1 DEF SameEntries
  <2> HIDE DEF D
  <2>3. \A j \in D : Content(cache)[j] = cache.nodes[cache.map[j]].account
    BY <2>1 DEF Content
  <2> QED
    BY <2>2, <2>3 DEF Content, D
<1> QED
  BY <1>2, <1>7, <1>8, <1>9 DEF Lru!LruEvict

\* The arena is sound: TLC checks the same facts as CacheTypeOK and ArenaSound.
CacheInv == policy \in Policies /\ \E N, s : Sound(cache, N, s)

\* A new cache is sound: an arena without slots.
LEMMA EmptySound ==
  ASSUME cache = EmptyCache
  PROVE  Sound(cache, 0, <<>>)
<1>1. /\ cache.map = [k \in {} |-> NIL] /\ cache.nodes = <<>> /\ cache.free = <<>>
      /\ cache.head = NIL /\ cache.tail = NIL /\ cache.size = 0
  BY DEF EmptyCache
<1>2. DOMAIN cache.map = {} /\ cache.map \in [{} -> 1..0]
  BY <1>1
<1>3. cache.map \in Maps(0)
  BY <1>2 DEF Maps
<1>4. cache.nodes \in [1..0 -> NodeRecs(0)] /\ cache.free \in Seq(1..0) /\ <<>> \in Seq(1..0)
  BY SMT, <1>1
<1>5. cache \in CacheRecs(0)
  BY SMT, <1>1, <1>3, <1>4 DEF CacheRecs, EmptyCache, NIL
<1>6. Range(<<>>) = {} /\ Distinct(<<>>)
  BY SMT DEF Range, Distinct
<1>7. Linked(cache, <<>>) /\ Mapped(cache, <<>>)
  BY <1>1, <1>2, <1>6 DEF Linked, Mapped
<1>8. IsFiniteSet(DOMAIN cache.map) /\ cache.size = Charged(cache)
  BY <1>1, <1>2, ChargedIs, SumEmpty, FS_EmptySet
<1> QED
  BY SMT, <1>1, <1>4, <1>5, <1>6, <1>7, <1>8 DEF Sound

\* A new cache satisfies the invariant, and is the empty abstract cache.
LEMMA CacheInvInit == CacheInit => CacheInv /\ Lru!LruInit
<1> SUFFICES ASSUME CacheInit PROVE CacheInv /\ Lru!LruInit
  OBVIOUS
<1>1. Sound(cache, 0, <<>>)
  BY EmptySound DEF CacheInit
<1>2. KeyOrder(cache) = <<>>
  <2>1. KeyOrder(cache) = KeysOf(cache, <<>>)
    BY <1>1, KeyOrderIs
  <2>2. KeysOf(cache, <<>>) \in Seq(CacheKeys) /\ Len(KeysOf(cache, <<>>)) = Len(<<>>)
    BY <1>1, KeyOrderIs
  <2> QED
    BY SMT, <2>1, <2>2
<1>3. Content(cache) = [k \in {} |-> 0]
  BY DEF CacheInit, EmptyCache, Content
<1> QED
  BY <1>1, <1>2, <1>3 DEF CacheInit, CacheInv, Lru!LruInit

\* Every step of the arena keeps it sound and is a step of the abstract cache.
LEMMA CacheInvNext ==
  CacheInv /\ [CacheNext]_cacheVars => CacheInv' /\ [Lru!LruNext]_(Lru!lruVars)
<1> SUFFICES ASSUME CacheInv, [CacheNext]_cacheVars
             PROVE  CacheInv' /\ [Lru!LruNext]_(Lru!lruVars)
  OBVIOUS
<1>1. PICK N, s : Sound(cache, N, s)
  BY DEF CacheInv
<1>2. SUFFICES /\ policy' \in Policies /\ \E M, t : Sound(cache', M, t)
               /\ Lru!LruNext \/ UNCHANGED Lru!lruVars
  BY <1>2 DEF CacheInv
<1>3. policy \in Policies
  BY DEF CacheInv
<1>4. ASSUME NEW k \in CacheKeys, CacheGet(k)
      PROVE  policy' \in Policies /\ (\E M, t : Sound(cache', M, t)) /\ Lru!LruNext
  BY <1>1, <1>3, <1>4, GetRefines DEF CacheGet, Lru!LruNext
<1>5. ASSUME NEW k \in CacheKeys, CacheRemove(k)
      PROVE  policy' \in Policies /\ (\E M, t : Sound(cache', M, t)) /\ Lru!LruNext
  BY <1>1, <1>3, <1>5, RemoveRefines DEF CacheRemove, Lru!LruNext
<1>6. ASSUME NEW k \in CacheKeys, NEW a \in CacheAccounts, CacheInsert(k, a)
      PROVE  policy' \in Policies /\ (\E M, t : Sound(cache', M, t)) /\ Lru!LruNext
  BY <1>1, <1>3, <1>6, InsertRefines DEF CacheInsert, Lru!LruNext
<1>7. ASSUME EvictToWarm
      PROVE  policy' \in Policies /\ (\E M, t : Sound(cache', M, t)) /\ Lru!LruNext
  BY <1>1, <1>3, <1>7, EvictRefines DEF EvictToWarm, Lru!LruNext
<1>8. ASSUME UNCHANGED cacheVars
      PROVE  /\ policy' \in Policies /\ \E M, t : Sound(cache', M, t)
             /\ UNCHANGED Lru!lruVars
  BY <1>1, <1>3, <1>8 DEF cacheVars, Lru!lruVars
<1> QED
  BY <1>4, <1>5, <1>6, <1>7, <1>8 DEF CacheNext

\* The sound arena has the shape that CacheTypeOK describes.
LEMMA CacheInvTypes == CacheInv => CacheTypeOK
<1> SUFFICES ASSUME CacheInv PROVE CacheTypeOK
  OBVIOUS
<1>1. PICK N, s : Sound(cache, N, s)
  BY DEF CacheInv
<1>2. N \in Nat /\ cache \in CacheRecs(N) /\ Len(cache.nodes) = N
  BY <1>1, ListIs DEF Sound
<1>3. DOMAIN cache.map \subseteq CacheKeys
  BY <1>2, MappedTypes
<1>4. /\ cache.size \in Nat /\ cache.head \in 0..N /\ cache.tail \in 0..N
      /\ DOMAIN cache.nodes = 1..N /\ \A i \in 1..N : cache.nodes[i] \in NodeRecs(N)
  BY <1>2 DEF CacheRecs
<1>5. ASSUME NEW i \in DOMAIN cache.nodes
      PROVE  /\ {cache.nodes[i].next, cache.nodes[i].prev} \subseteq 0..N
             /\ cache.nodes[i].key \in CacheKeys /\ cache.nodes[i].account \in CacheAccounts
             /\ cache.nodes[i].access \in 1..MaxAccess
  BY <1>4 DEF NodeRecs
<1> QED
  BY <1>2, <1>3, <1>4, <1>5 DEF CacheTypeOK, CacheInv

\* The sound arena is not corrupted, as ArenaSound says.
LEMMA CacheInvArena == CacheInv => ArenaSound
<1> SUFFICES ASSUME CacheInv PROVE ArenaSound
  OBVIOUS
<1>1. PICK N, s : Sound(cache, N, s)
  BY DEF CacheInv
<1>2. /\ s \in Lists(cache) /\ Linked(cache, s) /\ Mapped(cache, s)
      /\ Range(s) \cap Range(cache.free) = {} /\ Range(s) \cup Range(cache.free) = 1..N
      /\ cache.size = Charged(cache) /\ DOMAIN cache.nodes = 1..N
      /\ s \in Seq(1..N) /\ Distinct(s) /\ cache.free \in Seq(1..N) /\ Distinct(cache.free)
  BY <1>1, ListIs DEF Sound, CacheRecs
<1>3. IsInjective(s) /\ IsInjective(cache.free)
  <2>1. DOMAIN s = 1..Len(s) /\ DOMAIN cache.free = 1..Len(cache.free)
    BY SMT, <1>2
  <2> QED
    BY <1>2, <2>1 DEF IsInjective, Distinct
<1>4. Range(cache.map) = Range(s)
  <2>1. ASSUME NEW i \in Range(s) PROVE i \in Range(cache.map)
    <3>1. cache.nodes[i].key \in DOMAIN cache.map /\ cache.map[cache.nodes[i].key] = i
      BY <1>2 DEF Mapped
    <3> QED
      BY Zenon, <3>1 DEF Range
  <2>2. ASSUME NEW i \in Range(cache.map) PROVE i \in Range(s)
    <3>1. PICK k \in DOMAIN cache.map : i = cache.map[k]
      BY Zenon DEF Range
    <3> QED
      BY <1>2, <3>1 DEF Mapped
  <2> QED
    BY <2>1, <2>2
<1>5. \A k \in DOMAIN cache.map : cache.nodes[cache.map[k]].key = k
  BY <1>2 DEF Mapped
<1> QED
  BY <1>2, <1>3, <1>4, <1>5 DEF ArenaSound

\* The type invariant: every index points into the arena.
THEOREM CacheTypeCorrect == CacheSpec => []CacheTypeOK
<1>1. CacheInit => CacheInv
  BY CacheInvInit
<1>2. CacheInv /\ [CacheNext]_cacheVars => CacheInv'
  BY CacheInvNext
<1>3. CacheInv => CacheTypeOK
  BY CacheInvTypes
<1> QED
  BY <1>1, <1>2, <1>3, PTL DEF CacheSpec

\* The arena is never corrupted, for any keys, accounts, sizes, watermark, batch
\* and policy: the links read the same in both directions, a slot is listed or
\* free and once only, the map and the list agree, the charge is exact.
THEOREM ArenaNeverCorrupted == CacheSpec => []ArenaSound
<1>1. CacheInit => CacheInv
  BY CacheInvInit
<1>2. CacheInv /\ [CacheNext]_cacheVars => CacheInv'
  BY CacheInvNext
<1>3. CacheInv => ArenaSound
  BY CacheInvArena
<1> QED
  BY <1>1, <1>2, <1>3, PTL DEF CacheSpec

\* Whatever the policy, the entry that an eviction takes first is the least
\* recently used one.
VictimIsOldest == cache.tail # NIL => Victim(cache, policy) = cache.tail

\* The policies do not differ: evict_lfu follows next from the tail, where the
\* list ends, so that its scan meets the tail only, however many entries it may
\* look at and whatever their access counts are.
THEOREM EveryPolicyTakesTheOldest == CacheSpec => []VictimIsOldest
<1>1. CacheInit => CacheInv
  BY CacheInvInit
<1>2. CacheInv /\ [CacheNext]_cacheVars => CacheInv'
  BY CacheInvNext
<1>3. CacheInv => VictimIsOldest
  BY VictimIsTail DEF CacheInv, VictimIsOldest
<1> QED
  BY <1>1, <1>2, <1>3, PTL DEF CacheSpec

\* The arena implements the abstract LRU cache: its initial state is the empty
\* cache, and every call is the abstract call or changes nothing.
THEOREM ArenaRefinesLru == CacheSpec => ImplementsLru
<1>1. CacheInit => CacheInv /\ Lru!LruInit
  BY CacheInvInit
<1>2. CacheInv /\ [CacheNext]_cacheVars => CacheInv' /\ [Lru!LruNext]_(Lru!lruVars)
  BY CacheInvNext
<1> QED
  BY <1>1, <1>2, PTL DEF CacheSpec, ImplementsLru, Lru!LruSpec
=============================================================================
