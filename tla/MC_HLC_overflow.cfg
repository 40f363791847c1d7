SPECIFICATION Spec
CONSTANTS
  t1 = t1
  t2 = t2
  NoTs = NoTs
  Threads <- MCThreads1
  Remotes <- MCRemotesMax
  MaxPhys = 2
  LogicalMax = 3
  MaxCalls = 4
INVARIANT UpdateExceedsRemote
