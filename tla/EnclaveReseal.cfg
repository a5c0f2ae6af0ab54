CONSTANTS
  LimbBits = 9
  LoadAt <- MCLoadAt
  Small = 58
  Ladder <- MCLadder
  ScalarBits = 7
  Delta <- MCDelta
  d <- MCd
  d2 <- MCd2
  sqrtm1 <- MCsqrtm1
  BaseX <- MCBaseX
  BaseY <- MCBaseY
  Sha512 <- MCSha512
  HolderSeeds <- MCSeeds
  PeerSeed <- MCPeerSeed
  Messages <- MCMessages
  Scalars <- MCScalars
  MaxShifts = 2
  Threads = {1, 2}
  RandomByte <- MCRandomByte
  suffix <- MCSuffix
  attempts_per_thread = 3
  MaxLaunches = 2
  Keys = {1, 2, 3}
  MaxCounters = 3
  MaxSealed = 3
SPECIFICATION ReliableSpec
INVARIANT SealedDataReinits
CHECK_DEADLOCK FALSE
