CONSTANTS
  t1 = t1
  t2 = t2
  Recorders <- MCRecorders
  Latencies = {1, 2}
  U64Max = 1000
  MaxRequests = 2
  MaxResets = 0

SPECIFICATION Spec
INVARIANT SnapshotAvgInRange
