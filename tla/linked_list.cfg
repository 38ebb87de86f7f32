CONSTANTS
  Payloads = {1, 2}
  NumNodes = 4
SPECIFICATION Spec
INVARIANTS TypeOK LinksOK
PROPERTIES ActsAsSequence
