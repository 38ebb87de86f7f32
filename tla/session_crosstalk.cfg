CONSTANTS
  Clients = {"a", "b"}
  MAX_CONN = 3
  MaxFaults = 1
  Setups <- PairSetups

SPECIFICATION Spec

INVARIANTS
  OwnFile
