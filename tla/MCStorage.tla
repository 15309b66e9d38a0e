----------------------------- MODULE MCStorage -----------------------------
(***************************************************************************)
(* Instances of the tiered account store: the cache's data structure, the  *)
(* cache in front of the accounts database, and the archive.  The data     *)
(* structure is what the second one uses through LruCache; otherwise they  *)
(* share no state and are explored one at a time: part says which one      *)
(* moves, the others stay as they started.                                 *)
(***************************************************************************)
EXTENDS AccountCache, TieredStorage, StateRent, TLC

VARIABLE part

Init ==
  /\ part \in {"cache", "hot", "archive"}
  /\ CacheInit /\ HotInit /\ RentInit
  /\ part # "cache" => policy = "LRU"
  /\ part # "hot" => \A b \in Banks : \A k \in DOMAIN stored[b] : stored[b][k] = Empty
  /\ part # "archive" => \A k \in RentKeys : live[k] = CHOOSE a \in RentAccounts : TRUE

CacheStep ==
  part = "cache" /\ CacheNext /\ UNCHANGED <<part, hotVars, rentVars>>
HotStep ==
  part = "hot" /\ HotNext /\ UNCHANGED <<part, cacheVars, rentVars>>
ArchiveStep ==
  part = "archive" /\ RentNext /\ UNCHANGED <<part, cacheVars, hotVars>>

Next == CacheStep \/ HotStep \/ ArchiveStep

\* The fairness of the part that moves.
Spec ==
  /\ Init /\ [][Next]_<<part, cacheVars, hotVars, rentVars>>
  /\ part = "hot" => HotFairness

\* The types of the cache and of the threads that use it.
StorageTypeOK == CacheTypeOK /\ HotTypeOK

-----------------------------------------------------------------------------
\* A small and a large entry of the cache.
MCCacheAccounts == {"small", "large"}
MCCacheMemory == "small" :> 1 @@ "large" :> 3

\* The accounts of the database are as large as each other.
MCAccounts == {"empty", "v1", "v2"}
MCSizes == [a \in MCAccounts |-> 1]

\* A frozen root with one child; a root with two forks.
MCChain == 1 :> {1} @@ 2 :> {1, 2}
MCForks == 1 :> {1} @@ 2 :> {1, 2} @@ 3 :> {1, 3}
=============================================================================
