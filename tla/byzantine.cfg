SPECIFICATION Spec
CONSTANTS
  Nodes = {1, 2, 3}
  Stake <- MCStake301
  Faulty = {3}
  EvidenceWindow = 0
  Blocks = {b1, b2}
  FaultyHashes = {b1, b2}
  FaultyClaims <- MCClaims
  Nil = Nil
  NoVote = NoVote
  StartHeight = 3
  MaxHeight = 3
  MaxRound = 0
VIEW WithoutCollector
INVARIANT
  RoundAgreement
