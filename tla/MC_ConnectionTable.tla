------------------------- MODULE MC_ConnectionTable -------------------------
EXTENDS ConnectionTable, TLC

CONSTANTS k1, k2, k3, p1

MCTasks == {k1, k2, k3}
MCPeers == {p1}

\* Tasks are interchangeable; no property names one.
TaskSymmetry == Permutations(MCTasks)
=============================================================================
