CONSTANTS
  Threads = {"t1", "t2"}
  KeySet = {0, 2}
  Values = {"a", "b"}
  NumBuckets = 2
  MayRunOut = TRUE
  MaxElements = 6
SPECIFICATION FairSpec
INVARIANTS TypeOK Exclusion ChainsOK
PROPERTIES OperationsReturn ActsAsMap
