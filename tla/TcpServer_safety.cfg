CONSTANTS
  Base = base
  io1 = io1
  io2 = io2
  IoLoops <- TwoLoops
  Nums = {1, 2}
  Conns = {c1, c2}
  Acceptor = acceptor
  Keepable = {c1}
  MaxRequests = 1
SPECIFICATION SafeSpec
INVARIANTS TypeOK ActiveAreAlive ClosedIsAwaited UndefinedOnlyInStop
PROPERTIES ImplementsConnectionLife
CHECK_DEADLOCK FALSE
