SPECIFICATION AgeingSpec
CONSTANTS
  Node = {1, 2}
  Neighbours <- LineRange
  Dist <- LineDist
  NoHop = 0
  INFINITY_COST = 5
  MAXIMUM_COST = 7
  MAX_TTL = 1
  Ageing = {1}
  Rebuilding = {}
  Mortal = {2}
  MAX_QUEUE = 1
  MAX_ECHOES <- None
  Tireless = {1, 2}
  MAX_TICKS = 0
PROPERTIES
  Forgotten
CHECK_DEADLOCK FALSE
