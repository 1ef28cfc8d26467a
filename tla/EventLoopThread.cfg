CONSTANTS
  Callers = {owner, c1, c2}
  Loop = loop
  Owner = owner
  Nodes = {d, n1, n2, n3}
  Dummy = d
  Null = Null
SPECIFICATION ThreadSpec
INVARIANTS ThreadTypeOK RunReturnsLooping LoopExists DueIsRun LeftoversAreOfOthers
PROPERTIES RunEnds DestructorEnds QueuedIsRun StopEnds
CHECK_DEADLOCK FALSE
