CONSTANTS
  Msgs = {m1, m2}
  Size = 2
  SendBuffer = 2
  Capacity = 4
  MaxUnread = 1
SPECIFICATION Spec
PROPERTIES PeerGoneIsClosed FlushedWithEvents
CHECK_DEADLOCK FALSE
