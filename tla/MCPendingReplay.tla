--------------------------- MODULE MCPendingReplay -------------------------
EXTENDS PendingReplay, TLC

CallSymmetry == Permutations(Calls)
=============================================================================
