---------------------------- MODULE MCPolicyDigest ----------------------------
EXTENDS PolicyDigest, TLC

CONSTANTS p1, p2

Symmetry == Permutations(Policies)
===============================================================================
