----------------------------- MODULE MC_Catalog -----------------------------
(* Catalog for TLC; requests and services are interchangeable. *)
EXTENDS Catalog, TLC

Symmetry == Permutations(Requests) \cup Permutations(Services)
=============================================================================
