-------------------------- MODULE MCLauncherPopulator --------------------------
EXTENDS LauncherPopulator, TLC

Symmetry == Permutations(Pods) \cup Permutations(Policies)
================================================================================
