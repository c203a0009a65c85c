CONSTANTS
  MaxAddrs = 2
  MaxConns = 4
  MaxRounds = 3
  MaxRetries = 2
  DnsRequests = 2
  DnsTimeouts = {0, 1, 2}
  DnsTime = 4
  RecvBatch = 2
  MsgCap = 2
  DgramKinds <- MCDgramKinds
  MaxDgrams = 4
  SimConns = 2
  Budgets <- MCBudgets
  MaxLive = 1
  MaxFaults = 1
  RecvCap = 2
  Latencies = {0, 1}
  SendSizes = {2}
  Fates = {"pass", "lose", "reset", "partition"}
SPECIFICATION EndpointsSpec
INVARIANTS ClientSound ClientGoesOn DnsOnce UdpDelivers SimStream
CHECK_DEADLOCK FALSE
