CONSTANTS
  Producers = {p1}
  Items = {empty, a, b, c}
  NoTask = empty
  Cap = 2
  MaxPush = 0
  Apis = {"em"}
  Policy = "SpinRetry"
  BatchLen = 1
  MaxBatch = 1
  Expirable = {}
  Uring = FALSE
SPECIFICATION Spec
INVARIANT AcceptedQueued
CHECK_DEADLOCK FALSE
