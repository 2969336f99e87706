SPECIFICATION Spec
CONSTANTS
  Node = {n1, n2}
  Addr = {1, 2, 3}
  DefaultAddress = 1
  MAX_ECHOES = 2
  MAX_LOST = 1
INVARIANTS
  TypeOK
PROPERTIES
  FirstDrawIsFree
  SettledStays
SYMMETRY SomeNodes
CHECK_DEADLOCK FALSE
