SPECIFICATION MCSpec
CONSTANTS
  Producers = {p1, p2}
  Depth = 2
  MaxCalls = 5
INVARIANT CallsMatched
PROPERTIES
  ReportsCorrect RingIsQueue EventuallyDelivered RequestsCorrect StopOrClient
CHECK_DEADLOCK FALSE
