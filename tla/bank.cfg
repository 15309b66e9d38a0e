SPECIFICATION Spec
CHECK_DEADLOCK FALSE
CONSTANTS
  U64Max = 5000
  Validators = {1, 2, 3}
  Stake <- MCStake
  Cap = 2
  MaxOffenses = 3
  FirstEpochs = 1
  SecondEpochs = 2
  OfflineThreshold = 2
  SlotsPerEpoch = 2
  VoteSets <- MCVoteSets
  Slashable = {1, 2}
  JailDurations = {"Permanent"}
  MaxSkew = 1
  MaxSlot = 6
  MaxBanks = 2
  Nodes = {1, 2}
  Restarting = {2}
  MinBaseFee = 20
  MaxBaseFee = 23
  TargetPct = 50
  MaxBlockCU = 12
  Denominator = 8
  BlockGas = {0, 7, 12}
  BatchGas = {5, 7}
  MaxHeight = 4
  TransitionEpochs = 2
  RentMinimum = 4
  Supply = 24
  TxFees <- MCTxFees
  Amounts = {3}
  MaxEpoch = 3
INVARIANTS
  
  BannedNeverActive
  
  ActiveSetIsTop
  BaseFeeFollowsChain
  CapitalizationIsExact

  
