SPECIFICATION FairSpec
CONSTANTS
  a = a
  b = b
  c = c
  m1 = m1
  m2 = m2
  Node = {a, b}
  Message = {m1}
  Size <- Two
  FRAG_IDS = 2
  WIRE_IDS = 8
  Src <- FromA
  Dst <- ToB
  Neighbours <- PairRange
  Tables <- DirectTables
  NoHop = NoHop
  MAX_RETRIES = 2
  MSG_IDS = 256
  Garbage <- NeverSet
  OVERLAP = FALSE
  MAX_MESSAGES = 8
INVARIANTS
  TypeOK
  DeliveredMeansAccepted
  DeliveredWhole
  EndToEnd
PROPERTIES
  AckEndsWait
  PromiseKept
  SendTerminates
CHECK_DEADLOCK FALSE
