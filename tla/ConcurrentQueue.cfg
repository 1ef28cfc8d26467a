CONSTANTS
  Producers = {p1, p2, p3}
  Nodes = {d, n1, n2, n3, n4}
  Dummy = d
  Null = Null
SPECIFICATION Spec
INVARIANTS TypeOK FifoOrder EmptyOnlyMidEnqueue
PROPERTIES NextWrittenOnce ImplementsFifo
CHECK_DEADLOCK FALSE
