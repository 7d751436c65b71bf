SPECIFICATION MCSpec
CONSTANTS
  Names = {a, b}
  Self = a
  MaxNodes = 2
  Timeout = 1
  MaxLag = 1
  MaxBacklog = 1
  MaxStarts = 2
  ClockMod = 16
PROPERTIES TimersCorrect WatchdogCorrect NodesTracked
CHECK_DEADLOCK FALSE
