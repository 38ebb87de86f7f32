CONSTANTS
  Clients = {"a", "b"}
  MAX_CONN = 3
  MaxFaults = 1
  Setups <- MCSetups

SPECIFICATION FairSpec

INVARIANTS
  TypeOK
  QueuesReady
  EndsHarmless

PROPERTIES
  RoundTrip
