CONSTANTS
  Threads = {"t1", "t2"}
  NoThread = "-"
  Nums1 = {0, 1, 2}
  Nums2 = {0, 2}
  Lens2 = {0, 4}
  MaxFaults = 2

SPECIFICATION FairSpec

INVARIANTS
  TypeOK
  InStep
  AcceptedWhole
  PrintedGenuine

PROPERTIES
  ClimbsLadder
  ThreadsEnd
  RetriesRecover

CHECK_DEADLOCK FALSE
