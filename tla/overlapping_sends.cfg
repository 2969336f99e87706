SPECIFICATION Spec
CONSTANTS
  a = a
  b = b
  c = c
  m1 = m1
  m2 = m2
  Node = {a, b}
  Message = {m1, m2}
  Size <- OneFragment
  FRAG_IDS = 2
  WIRE_IDS = 8
  Src <- FromA
  Dst <- ToB
  Neighbours <- PairRange
  Tables <- DirectTables
  NoHop = NoHop
  MAX_RETRIES = 1
  MSG_IDS = 256
  Garbage <- NeverSent
  OVERLAP = TRUE
  MAX_MESSAGES = 8
INVARIANTS
  DeliveredMeansAccepted
CHECK_DEADLOCK FALSE
