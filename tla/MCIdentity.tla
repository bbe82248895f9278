------------------------------ MODULE MCIdentity ------------------------------
(* An instance of Identity for TLC.                                         *)
EXTENDS Identity, TLC

CONSTANTS t1, t2, w1, w2, s1, s2, a1, a2

Symmetry == Permutations(Terminals) \cup Permutations(Workspaces)
                \cup Permutations(Sessions) \cup Permutations(Workers)
=============================================================================
