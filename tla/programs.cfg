SPECIFICATION Spec
CHECK_DEADLOCK FALSE
SYMMETRY Symmetry
CONSTANTS
  RentMinimum = 4
  Wallets = {"alice", "vault"}
  WalletOwner <- MCWalletOwner
  Positions = {"s1", "s2"}
  Tiers <- MCTiers
  LockDays <- MCLockDays
  RewardBps <- MCRewardBps
  PenaltyBps <- MCPenaltyBps
  PassiveBps = 4
  EpochsPerYear = 1
  Rate = 4
  LockAmounts = {8}
  Deposits = {0, 4}
  WalletFunds = 20
  RewardPool = 12
  PassiveU64Max = 60
  MaxDay = 4
  TreasuryKeys = {"multisig", "governance"}
  Vaults = {"v1", "v2"}
  Funds = 8
  Transfers = {2, 4, 8}
  TreasuryU64Max = 24
  MaxDeposits = 10
  Programs = {"p1", "p2"}
  Developers = {"alice", "bob"}
  UpgradeAuthority <- MCUpgradeAuthority
  FeeAmounts = {0, 1, 7}
  ComputeUnits = {1, 2}
  MinComputeUnits = 2
  CooldownSlots = 2
  MaxShareBps = 1
  TotalBps = 10
  BaseSize = 3
  SplitSize = 1
  PdaSize = 8
  SplitChoices <- MCSplitChoices
  SlotsPerEpoch = 2
  FeePool = 7
  U64Max = 7
  MaxSlot = 6
  p1 = p1
  p2 = p2
  r1 = r1
  r2 = r2
  Signers = {"authority", "multisig"}
  Authorities = {"authority"}
  Proposals = {p1, p2}
  Records = {r1, r2}
  Stakes = {"big", "small", "idle"}
  Amount <- MCAmount
  Weight <- MCWeight
  Settings <- MCSettings
  Bps = 10
  EmergencyPass = 8
  GovU64Max = 5
  MaxEpoch = 2
INVARIANTS
  
  
  
  
  NothingEverCredited
  
  

  
  
