SPECIFICATION MCSpec
CONSTANTS
  Nodes = {n1}
  Callers = {c1}
  MaxNodes = 1
  MaxMissed = {3}
  Interval = 1
  QueueSize = 1
  MaxTimers = 1
PROPERTIES SilentMeansDisconnected EventsApplied ConnectionsCorrect RemoteFramesKept
