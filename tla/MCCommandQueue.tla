--------------------------- MODULE MCCommandQueue ---------------------------
(* The command path on a small instance for TLC.                           *)
EXTENDS CommandQueue, TLC

Symmetric == Permutations(Conns)
=============================================================================
