SPECIFICATION Spec
CONSTANTS
  Callers = {c1, c2}
  MaxInstances = 1
  QueueDepth = 3
  Calls = 1
  AcquireFirst = FALSE
INVARIANT ChannelAlive
CHECK_DEADLOCK FALSE
