SPECIFICATION Spec
CONSTANTS
  Processes = {c1}
  Reapers = {r1}
  MaxConsumers = 1
  MaxBlocks = 1
  Timeout = 1
  Regimes <- Together
  CrashPoints = {}
INVARIANT LiveRefsSafe
CHECK_DEADLOCK FALSE
