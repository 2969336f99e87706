SPECIFICATION AgeingSpec
CONSTANTS
  Node = {1, 2, 3}
  Neighbours <- OneListens
  Dist <- LineDist
  NoHop = 0
  INFINITY_COST = 5
  MAXIMUM_COST = 7
  MAX_TTL = 1
  Ageing = {2}
  Rebuilding = {3}
  Mortal = {1}
  MAX_QUEUE = 1
  MAX_ECHOES <- OnceByOne
  Tireless = {3}
  MAX_TICKS = 0
PROPERTIES
  NoLongerNextHop
  LostIsUnlisted
  Recovers
CHECK_DEADLOCK FALSE
