----------------------------- MODULE MC_Sidecar -----------------------------
EXTENDS Sidecar, TLC

CONSTANTS k1, k2, p1

MCTasks == {k1, k2}
MCPeers == {p1}
=============================================================================
