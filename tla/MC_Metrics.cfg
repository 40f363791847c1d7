CONSTANTS
  t1 = t1
  t2 = t2
  Recorders <- MCRecorders
  Latencies = {1, 2}
  U64Max = 1000
  MaxRequests = 1
  MaxResets = 1

SPECIFICATION Spec
INVARIANT TypeOK
INVARIANT NoLostExtremum
INVARIANT QuiescentAccounted
SYMMETRY RecorderSymmetry
VIEW RecorderView
