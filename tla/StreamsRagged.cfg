\* The expectation of test_aes and test_chacha_cbc, for two keys and a ragged input.
CONSTANTS
  Message <- MCMessage
  PieceLengths <- MCPieceLengths
  MaxPieces = 3
  CHACHA_ROUNDS = 20
  BLOCK_SIZE = 128
  SAMPLE_SIZE = 32
  Modes = {"aes", "chacha"}
  KeyBytes <- MCKeyBytes
  Ivec <- MCIvec
  Inputs <- MCInputs
  Samples <- MCSamples
  MaxCalls = 2
  Trips <- MCTrips
  Callers = {"a", "b"}
  Devices = {0, 1, 3}
  MAX_NUM_GPUS = 2
  MAX_QUEUE_SIZE = 2
  Batches <- MCBatches
  MaxVerifies = 2
SPECIFICATION Spec
INVARIANTS
  CbcAtAnyLength
CHECK_DEADLOCK FALSE
