------------------------------ MODULE MCPurge ------------------------------
EXTENDS Purge, TLC
Symmetry == Permutations(Procs)
=============================================================================
