CONSTANTS
  Channels = {w, a, c1, c2}
  Fds = {f1, f2, f3}
  Wakeup = w
  Acceptor = a
  WakeupFd = f1
  InitEvents = 1
  None = None
SPECIFICATION Spec
INVARIANTS TypeOK RegistrationsAgree EventsFindTheirChannel
PROPERTIES EdgesAreHandled
CHECK_DEADLOCK FALSE
