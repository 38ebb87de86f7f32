CONSTANTS
  NumQueues = 2
  NumWriters = 2
  NumBlocks = 2
  Queues <- MCQueues
  Writers <- MCWriters
  Programs <- MCPrograms
  MayBreak = TRUE
SPECIFICATION FairSpec
INVARIANTS TypeOK CarriesInOrder
PROPERTIES AllSent WritersReturn
