SPECIFICATION FairSpec
CONSTANTS
  Node = {1, 2, 3}
  Neighbours <- LineRange
  Dist <- LineDist
  NoHop = 0
  INFINITY_COST = 5
  MAXIMUM_COST = 7
  MAX_TTL = 1
  Ageing = {}
  Rebuilding = {}
  Mortal = {}
  MAX_QUEUE = 1
  MAX_ECHOES <- None
  Tireless = {1, 2, 3}
  MAX_TICKS = 1
INVARIANTS
  NextHopIsNearer
  RestIsShortest
PROPERTIES
  ShortestStays
  Converges
