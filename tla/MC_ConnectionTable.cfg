SPECIFICATION Spec
CONSTANTS
  k1 = k1
  k2 = k2
  k3 = k3
  p1 = p1
  Tasks <- MCTasks
  Peers <- MCPeers
  MaxConns = 2
  MaxAge = 2
  MaxTime = 3
  ClockStepsBack = TRUE
  Epoch = 0
SYMMETRY TaskSymmetry
INVARIANT RecordsOnlyForRunning
