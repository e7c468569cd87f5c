SPECIFICATION Spec
CONSTANTS
  Consumers = {c1, c2}
  Total = 9
  MaxCount = 2
  MaxCrashes = 1
SYMMETRY ConsumerSymmetry
INVARIANTS
  TypeOK
  InBounds
  MutualExclusion
  TakenOnce
PROPERTIES
  EmptyExit
  ImplementsPool
CHECK_DEADLOCK FALSE
