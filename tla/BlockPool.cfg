SPECIFICATION FairSpec
CONSTANTS
  Producers = {p1, p2}
  Consumers = {c1, c2}
  Monitors = {m1}
  MaxBlocks = 2
  ConsumerCount = 2
  sEntry = sEntry
  sWork = sWork
  sNotify = sNotify
  Stages = {sEntry, sWork, sNotify}
  EntryStage = sEntry
  NotifyStages = {sNotify}
  Successors <- FanOut
  Regimes <- Sound
  MaxAllocs = 3
  MaxReclaimedAllocs = 2
  MaxClock = 2
INVARIANTS BlocksSound CountsExact
PROPERTY AllBlocksReturn
CHECK_DEADLOCK FALSE
