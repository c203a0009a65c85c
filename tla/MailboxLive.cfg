CONSTANTS
  Producers = {p1}
  Items = {empty, a, b, c}
  NoTask = empty
  Cap = 2
  MaxPush = 0
  Apis = {"post"}
  Policy = "SpinRetry"
  BatchLen = 1
  MaxBatch = 1
  Expirable = {c}
  Uring = TRUE
SPECIFICATION FairSpec
PROPERTIES AcceptedRuns StopEnds PostReturns
CHECK_DEADLOCK FALSE
