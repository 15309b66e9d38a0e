SPECIFICATION Spec
CHECK_DEADLOCK FALSE
CONSTANTS
  Poll = 4
  Timeout = 9
  Cost = 1
  Pause = 3
  Gap = 2
  MaxInbox = 2
  Batches <- MCBatches
  MaxTransactions = 2
  LedgerParent <- MCLedger
  Startup <- MCStartup
  Entries = 2
  MaxHeight = 3
  Keys = {k1, k2}
  MaxPeers = 1
  Heights = {1, 2}
  MaxRequests = 1
  MaxRetries = 2
  MaxAnswers = 2
INVARIANTS
  ServicesTypeOK
  TimeoutIsPrompt
  ParentsAreFrozen
  NoHeightLost
  DeliveredOnce
PROPERTIES
  StopsOnExit
  DrainKeepsOrder
  RequestsResolve
