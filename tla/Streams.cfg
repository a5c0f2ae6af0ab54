\* Hashes in pieces, ciphers in chunks and calls, PoH batches on a shared pool.
CONSTANTS
  Message <- MCMessage
  PieceLengths <- MCPieceLengths
  MaxPieces = 3
  CHACHA_ROUNDS = 20
  BLOCK_SIZE = 128
  SAMPLE_SIZE = 32
  Modes = {"aes", "chacha", "sample", "ctr"}
  KeyBytes <- MCKeyBytes
  Ivec <- MCIvec
  Inputs <- MCInputs
  Samples <- MCSamples
  MaxCalls = 2
  Trips <- MCTrips
  Callers = {"a", "b"}
  Devices = {0, 1, 3}
  MAX_NUM_GPUS = 2
  MAX_QUEUE_SIZE = 2
  Batches <- MCBatches
  MaxVerifies = 2
SPECIFICATION Spec
INVARIANTS
  DigestsAreWhole
  AesInverts
  StreamsAreOneShot
  ChunksAreCtr
  SamplesMatch
  PohResultsOwn
CHECK_DEADLOCK FALSE
