CONSTANTS
  SqEntries = 2
  OutCap = 2
  Slots = 1
  Targets = {t1, t2}
  Setups <- MCSetups
  MaxCalls = 2
  MaxGen = 2
  None = None
  KqOps = 3
  KqEvents = 3
  KqBuf = 2
  KqAccepts = 2
  KqSlots = 2
SPECIFICATION BackendsSpec
INVARIANTS UringWakes UringAnswers KqSound
CHECK_DEADLOCK FALSE
