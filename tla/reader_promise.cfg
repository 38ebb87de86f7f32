CONSTANTS
  NumBuffers = 2
  MaxSize = 3
  NumReaders = 3
  Cuts <- MixedCuts
  Readers <- MCReaders
  Streams <- MCStreams
  Overlap = TRUE
  MayFail = FALSE
SPECIFICATION Spec
INVARIANT ReceivedIsPassed
