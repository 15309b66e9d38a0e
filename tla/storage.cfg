SPECIFICATION Spec
CONSTANTS
  CacheKeys = {k1, k2, k3}
  CacheAccounts <- MCCacheAccounts
  CacheMemory <- MCCacheMemory
  CacheWatermark = 4
  CacheBatch = 2
  Policies = {"LRU", "LFU"}
  ScanDivisor = 1
  MaxAccess = 2
  Keys = {k1, k2}
  Accounts <- MCAccounts
  MemorySize <- MCSizes
  Watermark = 1
  BatchSize = 1
  Ancestors <- MCChain
  Workers = {w1, w2}
  Readers = {}
  Empty = "empty"
  RentKeys = {k1}
  Archivers = {t1, t2}
  Contents = {c1, c2}
  Deposits = {1, 2}
  RevivalDeposit = 2
  SlotsPerDay = 2
  ArchiveAfterDays = 1
  MaxSlot = 3
  MaxArchives = 2
INVARIANTS
  StorageTypeOK
  ArenaSound
  LoadsMatchStorage
  RevivedIsArchived
PROPERTIES
  ImplementsLru
  
