SPECIFICATION Spec
CONSTANTS
  Items = {i1, i2, i3}
  MaxPriority = 1
  Nodes = {n1, n2, n3, n4}
  NULL = NULL
  InitSize = 1
  MaxInits = 2
  OperationsToBalance = 3
  TreeNames = {1, 2, 3}
  MaxTreeAdds = 4
  Ids = {1, 2, 3}
  Names = {1, 2}
  MaxAdds = 3
  BuiltIn = 2
  OP_COUNT = 2
  Libs = {l1, l2, l3, l4, l5, l6}
  Broken = {l4}
  Foreign = {l5}
  Others = {l6}
  Who = {"u", "g"}
  Rights = {"r", "w"}
  MaxChars = 4
  OctetBits = 1
  N = 1
SYMMETRY Symmetry
INVARIANTS
  TypeOK
  ListIntact
  ArrayIntact
  TreeIntact
  MenuHolds
  BitsAgree
PROPERTIES
  QueuePopsFirstThatSuits
CHECK_DEADLOCK FALSE
