CONSTANTS
  Layouts <- MCLayouts
  MailCap = 1
  MaxItcBatch = 1
  MaxConnections = 1
  MaxAccepts = 2
  AdmShards = {s1, s2}
  AdmConns = {c1}
  AdmRequests = 2
  AdmCap = 1
  AdmWork = 3
SPECIFICATION ShutdownSpec
INVARIANTS ServerEnds  
PROPERTY JoinReturns
CHECK_DEADLOCK FALSE
