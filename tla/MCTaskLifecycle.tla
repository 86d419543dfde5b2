-------------------------- MODULE MCTaskLifecycle --------------------------
EXTENDS TaskLifecycle, TLC
Symmetry == Permutations(Requests)
=============================================================================
