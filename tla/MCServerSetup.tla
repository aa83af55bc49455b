--------------------------- MODULE MCServerSetup ---------------------------
(* ServerSetup for TLC.  Windows are interchangeable. *)
EXTENDS ServerSetup, TLC

Symmetry == Permutations(Windows)

============================================================================
