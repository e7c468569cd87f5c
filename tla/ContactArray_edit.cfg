SPECIFICATION Spec
CONSTANTS
  InitSize = 1
  Ids = {1, 2}
  Names = {1, 2, 3}
  MaxAdds = 2
  MaxInits = 1
INVARIANTS
  EditSticks
CHECK_DEADLOCK FALSE
