SPECIFICATION FairSpec
CONSTANTS
  Sender = {s1}
  BroadcastThread = {b1, b2}
  MAX_BROADCASTS = 1
  Table = Table
  Nothing = Nothing
  Heard <- OneEcho
INVARIANTS
  TypeOK
  NoLostWakeup
  DispatchedAsSent
  BusyHasReason
  PendingHasThread
  InOnePlace
PROPERTIES
  TellsTheLine
  EverythingSent
CHECK_DEADLOCK FALSE
