----------------------------- MODULE MC_Platform -----------------------------
(* Five components that share nothing, in one state space: a behaviour       *)
(* exercises the one that active names, and the others stay in their initial *)
(* states.                                                                   *)
EXTENDS PackageSchema, Projects, SparkApps, LogStreams, PackageVersions

VARIABLE active

vars == <<active, pkgVars, projVars, appVars, logVars, verVars>>

SomeConfs == {{}, {"ui"}, {"driverMount"}, {"eventLog", "execClaim"}}

Init ==
  /\ active \in {"packages", "projects", "spark", "logs", "versions"}
  /\ PkgInit /\ ProjInit /\ SparkInit /\ LogInit /\ VerInit

Next ==
  /\ \/ active = "packages" /\ PkgNext /\ UNCHANGED <<projVars, appVars, logVars, verVars>>
     \/ active = "projects" /\ ProjNext /\ UNCHANGED <<pkgVars, appVars, logVars, verVars>>
     \/ active = "spark" /\ SparkNext /\ UNCHANGED <<pkgVars, projVars, logVars, verVars>>
     \/ active = "logs" /\ LogNext /\ UNCHANGED <<pkgVars, projVars, appVars, verVars>>
     \/ active = "versions" /\ VerNext /\ UNCHANGED <<pkgVars, projVars, appVars, logVars>>
  /\ UNCHANGED active

(* The fairness of each component, of its steps while it runs. *)
While(name, A) == active = name /\ A /\ Next

Fairness ==
  /\ \A c \in Callers : WF_vars(While("packages", PkgStep(c)))
  /\ WF_vars(While("projects", Forward))
  /\ WF_vars(While("logs", Scan \/ SendCancelled \/ ReportScanErr))
  /\ WF_vars(While("logs", ServeLine \/ ServeEnd))
  /\ WF_vars(While("logs", Leave /\ ctxDone))
  /\ WF_vars(While("logs", CancelContext))
  /\ \A l \in Listings : WF_vars(While("versions", ReaderStep(l)))
  /\ \A l \in Listings, s \in Services : WF_vars(While("versions", ListerStep(l, s)))

Spec == Init /\ [][Next]_vars /\ Fairness

(* Each component keeps to its types. *)
PlatformTypeOK == PkgTypeOK /\ ProjTypeOK /\ SparkTypeOK /\ LogTypeOK /\ VerTypeOK

(* What goroutines hand over channels arrives: every line of a log in order  *)
(* and the error that ended it, the versions of every service, the state of  *)
(* every project.                                                            *)
ChannelsDeliver == Faithful /\ VersionsComplete /\ EventsComplete

(* Whoever waits for a dump, for a listing, for a line or for the end of a   *)
(* request is released.                                                      *)
WaitersReleased == CallsAnswered /\ ListingReturns /\ NoGoroutineLeak /\ StreamEnds
=============================================================================
