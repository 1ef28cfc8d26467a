CONSTANTS
  Peers = {p1, p2, p3, p4}
  Backlog = 3
SPECIFICATION Spec
INVARIANTS TypeOK WaitingAreMissed
PROPERTY AcceptedUnlessMissed
CHECK_DEADLOCK FALSE
