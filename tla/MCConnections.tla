--------------------------- MODULE MCConnections ---------------------------
(* Connections for TLC.                                                     *)
EXTENDS Connections

Symmetry == Permutations(Con) \cup Permutations(Host)
=============================================================================
