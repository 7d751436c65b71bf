SPECIFICATION FairSpec
CONSTANTS
  Producers = {p1, p2}
  kQueueDepth = 2
  kBatchSize = 2
  kMsgIdWrapThreshold = 4
  Eviction = TRUE
  W = 1024
  MaxCalls = 4
  Inputs = {0, 2}
INVARIANTS TypeOK ExclusiveEnvelope StatisticsBalance
PROPERTIES ImplementsQueue RingDrains
