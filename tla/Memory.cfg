SPECIFICATION MemorySpec
CONSTANTS
  Node = {n1, n2, n3, n4}
  None = None
  Value = {a, b}
  Nothing = Nothing
  FirstCapacity = 1
  MinCapacity = 2
  MaxBuffers = 5
  SpareMax = 2
  MaxBlocks = 3
  MaxLines = 3
INVARIANTS TypeOK PointersAgree Acyclic VisitsPlan Unmixed
PROPERTIES WalkEnds ImplementsList
CHECK_DEADLOCK FALSE
