SPECIFICATION Spec
CONSTANTS
  a = a
  b = b
  c = c
  m1 = m1
  m2 = m2
  Node = {a, b, c}
  Message = {m1}
  Size <- OneFragment
  FRAG_IDS = 2
  WIRE_IDS = 8
  Src <- FromA
  Dst <- ToB
  Neighbours <- AllRange
  Tables <- ShiftTables
  NoHop = NoHop
  MAX_RETRIES = 1
  MSG_IDS = 256
  Garbage <- NeverSent
  OVERLAP = FALSE
  MAX_MESSAGES = 8
INVARIANTS
  DeliveredMeansAccepted
  EndToEnd
CHECK_DEADLOCK FALSE
