------------------------- MODULE MCTerminalProvider -------------------------
EXTENDS TerminalProvider, TLC
Symmetry == Permutations(Requests) \cup Permutations(Tabs)
==============================================================================
