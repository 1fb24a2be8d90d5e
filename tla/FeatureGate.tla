---------------------------- MODULE FeatureGate ----------------------------
(***************************************************************************)
(* What repository.APIProbe promises the handlers it gates, without its    *)
(* lock, its single flight or its clock: a latch.  A request asks whether  *)
(* the CRDs are served; it is told "yes" only once they have been seen     *)
(* served, the first "yes" is for the lifetime of the process, and a "no"  *)
(* is decided at an instant of the request at which the latch is open.     *)
(***************************************************************************)
CONSTANT Callers

VARIABLES
  latch,     \* TRUE once the feature is known to be available
  request,   \* where each caller's request stands
  evidence   \* have all the CRDs been served together at some instant?

gateVars == <<latch, request, evidence>>

Init ==
  /\ latch = FALSE
  /\ request = [c \in Callers |-> "idle"]
  /\ evidence \in BOOLEAN

Ask(c) ==
  /\ request[c] = "idle"
  /\ request' = [request EXCEPT ![c] = "asked"]
  /\ UNCHANGED <<latch, evidence>>

(* The latch closes with the first "yes", which needs evidence. *)
DecideYes(c) ==
  /\ request[c] = "asked"
  /\ evidence
  /\ latch' = TRUE
  /\ request' = [request EXCEPT ![c] = "yes"]
  /\ UNCHANGED evidence

DecideNo(c) ==
  /\ request[c] = "asked"
  /\ ~latch
  /\ request' = [request EXCEPT ![c] = "no"]
  /\ UNCHANGED <<latch, evidence>>

Return(c) ==
  /\ request[c] \in {"yes", "no"}
  /\ request' = [request EXCEPT ![c] = "idle"]
  /\ UNCHANGED <<latch, evidence>>

Install ==
  /\ evidence' = TRUE
  /\ UNCHANGED <<latch, request>>

Next ==
  \/ \E c \in Callers : Ask(c) \/ DecideYes(c) \/ DecideNo(c) \/ Return(c)
  \/ Install

Spec == Init /\ [][Next]_gateVars
=============================================================================
