CONSTANTS
  Msgs = {m1, m2, m3}
  Size = 2
  SendBuffer = 2
  Capacity = 3
  MaxUnread = 2
SPECIFICATION SafeSpec
SYMMETRY Symmetry
INVARIANTS TypeOK StreamIntact WritingHasBuffer FinIsLast
CHECK_DEADLOCK FALSE
