SPECIFICATION Spec
CONSTANTS
  t1 = t1
  t2 = t2
  NoTs = NoTs
  Threads <- MCThreads1
  Remotes <- MCRemotes
  MaxPhys = 2
  LogicalMax = 1000
  MaxCalls = 4
INVARIANT RealTimeMonotonic
INVARIANT UpdateExceedsRemote
INVARIANT ExchangedOrderPreserved
PROPERTY ImplementsAtomicClock
