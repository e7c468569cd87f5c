SPECIFICATION FairSpec
CONSTANTS
  Consumers = {c1, c2}
  Total = 6
  MaxCount = 1
  MaxCrashes = 1
PROPERTIES
  Drained
  ConsumersEnd
CHECK_DEADLOCK FALSE
