CONSTANTS
  Nodes = {n1, n2}
  NoNode = none
  kLevels = 3
  kSlots = 2
  MaxTicks = 2
  Groups = {g}
  NoGroup = nogroup
  TickLen = 2
  Kinds = {"after", "at", "rate", "delay"}
  Delays = {0, 7, 16}
  Period = 3
  Again = {}
  Instants = {0, 3, 7, 8}
  GenMod = 4
  SlotMod = 3
  FirstGen = 2
  MaxSlots = 3
  MaxRel = 4
  Vals = {a, b}
  NoVal = empty
  Size = 4
  MaxBulk = 3
  MaxTail = 5
  MboxCap = 2
  MaxOther = 1
  MaxDrain = 3
  IoShapes <- MCShapes
  IoPieces = {1, 2, 4}
  IoBytes = 6
  IoDoublings = 3
  ArenaBytes = 52
  Gran = 4
  kBuckets = 3
  HeaderBytes = 1
  ChunkBytes = 16
  FrameSizes = {5, 9, 12}
  SlotBytes = 3
  SlotAlign = 2
  ChunkHead = 1
  PerChunk = 2
  MaxFrames = 3
  MaxObjs = 2
SPECIFICATION StructuresSpec
SYMMETRY Symm
INVARIANTS TimersOwned WaitCoversTimers TableSound SpscStranding BufferIntact MemoryOwned
PROPERTIES FiresOnTime
CHECK_DEADLOCK FALSE
