SPECIFICATION Spec
CONSTANTS
  Procs = {a, b, c}
  None = None
  Limits = {2}
  MaxLines = 2
  MaxPresses = 1
  MaxCrashes = 0
SYMMETRY Symmetry
INVARIANTS
  TypeOK
  Unbroken
  NamesManaged
CHECK_DEADLOCK FALSE
