SPECIFICATION FairSpec
CONSTANTS
  Files = {f1, f2}
  MaxArgs = 3
  MaxSize = 3
  BufferSize = 2
  PipeSize = 3
  MaxEdits = 1
  Users = {u1, u2}
  Nicks = {a, b}
  MaxLines = 1
  MaxTroubles = 1
  Procs = {p1, p2}
  Size = 2
  MaxCount = 2
  MaxWrites = 2
  Consoles = {tty1, tty2}
  Writers = {w1, w2}
INVARIANTS
  TypeOK
  ChatIntact
  InBuffer
  ReadersSeeLog
  CodeThere
  LedsFollow
PROPERTIES
  CopiesKept
  BothEnd
CHECK_DEADLOCK FALSE
