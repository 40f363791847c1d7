SPECIFICATION Spec
CONSTANTS
  t1 = t1
  t2 = t2
  NoTs = NoTs
  Threads <- MCThreads2
  Remotes <- MCRemotes
  MaxPhys = 2
  LogicalMax = 1000
  MaxCalls = 2
INVARIANT RealTimeMonotonic
