SPECIFICATION FairSpec
CONSTANTS
  Producers = {p1}
  Consumers = {c1, c2}
  None = None
  MaxBlocks = 2
  MaxCrashes = 1
PROPERTIES
  ConsumersEnd
  Drained
CHECK_DEADLOCK FALSE
