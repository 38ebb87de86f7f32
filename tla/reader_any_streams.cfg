CONSTANTS
  NumBuffers = 2
  MaxSize = 3
  NumReaders = 2
  Cuts <- MixedCuts
  Readers <- MCReaders
  Streams <- AllStreams
  Overlap = TRUE
  MayFail = TRUE
SPECIFICATION FairSpec
INVARIANTS TypeOK OrderInv
PROPERTY ThreadsReturn
