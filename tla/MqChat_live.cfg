SPECIFICATION FairSpec
CONSTANTS
  Procs = {a, b}
  None = None
  Limits = {1, 4}
  MaxLines = 2
  MaxPresses = 1
  MaxCrashes = 1
PROPERTIES
  PartnerLeaves
  BlockedByUnread
CHECK_DEADLOCK FALSE
