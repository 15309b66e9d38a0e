SPECIFICATION Spec
CONSTANTS
  Nodes = {1, 2, 3}
  Stake <- MCStake211
  Faulty = {}
  EvidenceWindow = 0
  Blocks = {b1, b2, b3}
  FaultyHashes = {}
  FaultyClaims = {}
  Nil = Nil
  NoVote = NoVote
  StartHeight = 1
  MaxHeight = 1
  MaxRound = 1
VIEW WithoutCollector
PROPERTIES
  CertificateCommits
