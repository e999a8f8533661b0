---------------------------- MODULE MCScheduler ----------------------------
EXTENDS Scheduler, TLC

RunSymmetry == Permutations(Runs)
Symmetry == Permutations(Tenants) \cup Permutations(Runs)
=============================================================================
