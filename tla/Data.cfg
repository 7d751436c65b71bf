SPECIFICATION MCSpec
CONSTANTS
  Values = {v1, v2}
  BufferSize = 2
  IndexMod = 8
  Promoted = FALSE
  ClearAnyTime = FALSE
  MaxBatch = 3
INVARIANTS
  RingExclusive EnteredIsPath FramesExact FusionSound
  CallbacksCorrect BlocksConserved
PROPERTIES RingIsFifo CallsHonoured RecoveryEarned
CHECK_DEADLOCK FALSE
