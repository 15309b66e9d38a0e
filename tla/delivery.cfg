SPECIFICATION DeliverySpec
CONSTANTS
  Nodes = {1, 2, 3}
  Stake <- MCStake211
  Faulty = {}
  EvidenceWindow = 0
  Blocks = {b1, b2}
  FaultyHashes = {}
  FaultyClaims = {}
  Nil = Nil
  NoVote = NoVote
  StartHeight = 1
  MaxHeight = 1
  MaxRound = 0
CHECK_DEADLOCK FALSE
PROPERTIES
  EveryNodeCommits
