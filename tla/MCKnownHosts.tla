---------------------------- MODULE MCKnownHosts ----------------------------
EXTENDS KnownHosts, TLC
Symmetry == Permutations(Windows)
==============================================================================
