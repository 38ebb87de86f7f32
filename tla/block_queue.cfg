CONSTANTS
  Threads = {"t1", "t2"}
  Bufs = {"a", "b"}
  NumNodes = 3
SPECIFICATION FairSpec
INVARIANTS TypeOK ListOK
PROPERTIES OperationsReturn ActsAsQueue
