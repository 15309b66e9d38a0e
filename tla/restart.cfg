SPECIFICATION RestartSpec
CONSTANTS
  Nodes = {1, 3}
  Stake <- MCStake31
  Faulty = {3}
  Restarting = {1}
  EvidenceWindow = 0
  Blocks = {b1, b2, b3}
  FaultyHashes = {b1, b2}
  FaultyClaims <- MCClaims
  Nil = Nil
  NoVote = NoVote
  StartHeight = 1
  MaxHeight = 1
  MaxRound = 1
VIEW WithoutCollector
INVARIANT
  CertificatesSurvive
