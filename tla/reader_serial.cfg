CONSTANTS
  NumBuffers = 2
  MaxSize = 3
  NumReaders = 3
  Cuts <- ThreeWayCuts
  Readers <- MCReaders
  Streams <- MCStreams
  Overlap = FALSE
  MayFail = FALSE
SPECIFICATION FairSpec
PROPERTY DeliversInOrder
