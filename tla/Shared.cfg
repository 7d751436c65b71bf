SPECIFICATION MCSpec
CONSTANTS
  Processes = {c1, c2, c3}
  Reapers = {r1, r2}
  MaxConsumers = 2
  MaxBlocks = 1
  Timeout = 1
  Regimes <- Separate
  CrashPoints = {"processing"}
INVARIANTS LiveRefsSafe SlotsConsistent
PROPERTIES DeadRefsReturned ChannelCorrect LogCorrect LoopProgress
CHECK_DEADLOCK FALSE
