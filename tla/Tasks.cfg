CONSTANTS
  Tasks <- MCTaskIds
  Programs <- MCPrograms
  ToolShards = {0, 1}
  ToolCap = 2
  FanKeys = {0, 1, 2}
  FanHash = TRUE
  MaxOps = 2
  MaxItems = 2
  Deferrable = {"d1", "d2"}
  LoopSinks = {"s1", "s2"}
  DeferBatch = 1
  ItcBatch = 1
  IoBatch = 2
  MaxPosts = 1
SPECIFICATION TasksSpec
INVARIANTS FramesOwned StopReaches ReducesOnce LoopSound
PROPERTIES RootEnds LoopGoesOn
CHECK_DEADLOCK FALSE
