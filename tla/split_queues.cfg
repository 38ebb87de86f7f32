CONSTANTS
  NumQueues = 3
  BLOCK_SIZE = 4
  Lengths <- LongEnough
  MaxLen = 40
  MaxTag = 1
SPECIFICATION FairSpec
INVARIANTS TypeOK Tiled Capped EnoughBlocks
PROPERTY CallReturns
