SPECIFICATION MCSpec
CONSTANTS
  Submitters = {s1}
  worker_num = 2
  QueueDepth = 1
  BusDepth = 2
  BatchSize = 2
  DrainRounds = 2
  MaxJobs = 3
  MaxStarts = 2
INVARIANTS JobsAccounted FlushMeansIdle
PROPERTIES PoolProgress StopHonoured
CHECK_DEADLOCK FALSE
