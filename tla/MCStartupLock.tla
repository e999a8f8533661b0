--------------------------- MODULE MCStartupLock ---------------------------
EXTENDS StartupLock, TLC

RequestSymmetry == Permutations(Requests)
=============================================================================
