SPECIFICATION Spec
CONSTANTS
  Nodes = {1, 2}
  Stake <- MCStake31
  Faulty = {2}
  EvidenceWindow = 1
  Blocks = {b1, b2, b3}
  FaultyHashes = {b1, Nil}
  FaultyClaims <- MCClaims
  Nil = Nil
  NoVote = NoVote
  StartHeight = 1
  MaxHeight = 2
  MaxRound = 0
INVARIANTS
  EvidenceSound
  OverwriteRecorded
