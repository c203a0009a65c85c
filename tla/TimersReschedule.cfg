CONSTANTS
  Nodes = {n1, n2}
  NoNode = none
  kLevels = 2
  kSlots = 2
  MaxTicks = 2
  Groups = {g}
  NoGroup = nogroup
  TickLen = 2
  Kinds = {"after"}
  Delays = {1}
  Period = 3
  Again = {"after"}
  Instants = {0, 1, 2, 3, 4}
SPECIFICATION TimersSpec
INVARIANT RescheduleRearms
CHECK_DEADLOCK FALSE
