SPECIFICATION FairSpec
CONSTANTS
  a = a
  b = b
  c = c
  m1 = m1
  m2 = m2
  Node = {a, b, c}
  Message = {m1, m2}
  Size <- One
  FRAG_IDS = 2
  WIRE_IDS = 8
  Src <- FromA
  Neighbours <- LineRange
  TRIES = 1
  MSG_IDS = 256
INVARIANTS
  TypeOK
  NobodyLeftOut
PROPERTIES
  DroppedIsSeen
  PromiseKept
  FloodEnds
  ReachesAll
CHECK_DEADLOCK FALSE
