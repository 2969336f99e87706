SPECIFICATION Spec
CONSTANTS
  Sender = {}
  BroadcastThread = {b1}
  MAX_BROADCASTS = 1
  Table = Table
  Nothing = Nothing
  Heard <- OneEcho
INVARIANTS
  NeverPopsEmpty
CHECK_DEADLOCK FALSE
