SPECIFICATION Spec
CONSTANTS
  Producers = {p1, p2}
  Consumers = {c1, c2, c3}
  None = None
  MaxBlocks = 2
  MaxCrashes = 1
SYMMETRY Symmetry
INVARIANTS
  TypeOK
  MixedOnly
  OneInside
PROPERTIES
  ImplementsPool
CHECK_DEADLOCK FALSE
