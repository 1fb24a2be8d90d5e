----------------------------- MODULE MC_ApiProbe -----------------------------
(* ApiProbe for TLC.  No symmetry: the run checks liveness.                 *)
EXTENDS ApiProbe
=============================================================================
