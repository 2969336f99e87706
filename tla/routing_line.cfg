SPECIFICATION Spec
CONSTANTS
  Node = {1, 2, 3}
  Neighbours <- LineRange
  Dist <- LineDist
  NoHop = 0
  INFINITY_COST = 5
  MAXIMUM_COST = 7
  MAX_TTL = 1
  Ageing = {2}
  Rebuilding = {}
  Mortal = {}
  MAX_QUEUE = 1
  MAX_ECHOES <- OneEach
  Tireless = {}
  MAX_TICKS = 1
INVARIANTS
  TypeOK
  NeverTooNear
  NextHopInRange
PROPERTIES
  NeverWorse
CHECK_DEADLOCK FALSE
