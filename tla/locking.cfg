SPECIFICATION Spec
CONSTANTS
  Nodes = {1, 2, 3}
  Stake <- MCStake301
  Faulty = {3}
  EvidenceWindow = 0
  Blocks = {b1, b2}
  FaultyHashes = {b2}
  FaultyClaims <- MCNoClaims
  Nil = Nil
  NoVote = NoVote
  StartHeight = 2
  MaxHeight = 2
  MaxRound = 1
VIEW WithoutCollector
INVARIANTS
  ConflictNeedsFalseClaim
