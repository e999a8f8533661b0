------------------------- MODULE MCTenantLifecycle -------------------------
EXTENDS TenantLifecycle, TLC

Symmetry == Permutations(Requests) \cup Permutations(Jobs)
=============================================================================
