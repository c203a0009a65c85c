CONSTANTS
  Producers = {p1, p2}
  a = a
  b = b
  Items = {empty, a, b}
  NoTask = empty
  Cap = 2
  MaxPush = 3
  MboxCap = 2
  MaxOther = 1
  Chunk = 2
  BulkLen = 2
  Bulks <- MCBulks
SPECIFICATION Spec
INVARIANT ResetRaceHarmless
CHECK_DEADLOCK FALSE
