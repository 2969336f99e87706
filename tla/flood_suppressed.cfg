SPECIFICATION Spec
CONSTANTS
  a = a
  b = b
  c = c
  m1 = m1
  m2 = m2
  Node = {a, b, c}
  Message = {m1, m2}
  Size <- One
  FRAG_IDS = 2
  WIRE_IDS = 8
  Src <- FromAFromC
  Neighbours <- LineRange
  TRIES = 1
  MSG_IDS = 256
PROPERTIES
  DroppedIsSeen
CHECK_DEADLOCK FALSE
