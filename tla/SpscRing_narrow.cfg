SPECIFICATION Spec
CONSTANTS
  Values = {v1, v2}
  BufferSize = 2
  IndexMod = 8
  Promoted = TRUE
  ClearAnyTime = FALSE
  MaxBatch = 2
INVARIANT SizeWithinCapacity
