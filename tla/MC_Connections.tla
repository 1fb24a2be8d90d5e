--------------------------- MODULE MC_Connections ---------------------------
(* Connections on a small instance. *)
EXTENDS Connections, TLC

Symmetry == Permutations(Requests)
=============================================================================
