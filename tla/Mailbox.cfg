CONSTANTS
  Producers = {p1, p2}
  Items = {empty, a, b, c}
  NoTask = empty
  Cap = 2
  MaxPush = 0
  Apis = {"batch", "em"}
  Policy = "Fail"
  BatchLen = 2
  MaxBatch = 2
  Expirable = {}
  Uring = FALSE
SPECIFICATION Spec
SYMMETRY Symm
INVARIANTS NoLostWakeup StopInterrupts AcceptedQueued
CHECK_DEADLOCK FALSE
