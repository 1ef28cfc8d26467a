CONSTANTS
  Base = base
  io1 = io1
  io2 = io2
  IoLoops <- TwoLoops
  Nums = {1, 2}
  Conns = {c1}
  Acceptor = acceptor
  Keepable = {c1}
  MaxRequests = 2
SPECIFICATION Spec
PROPERTIES ClosedIsDestroyed StopReturns
CHECK_DEADLOCK FALSE
