------------------------------ MODULE ApiProbe ------------------------------
(***************************************************************************)
(* repository.APIProbe: "is this custom resource served by the cluster?".  *)
(* Request goroutines call Available(); the answer is cached under p.mu, a *)
(* single discovery call is in flight at a time and runs outside the lock, *)
(* and callers that arrive meanwhile wait on its channel.                  *)
(*                                                                         *)
(* Each critical section of Available is one action (nothing blocks inside *)
(* it).  A channel is named by the caller that made it: a caller closes    *)
(* its channel before it returns, so it owns at most one open channel.     *)
(***************************************************************************)
EXTENDS Naturals

CONSTANTS
  Callers,             \* request goroutines
  Required,            \* p.gvr.Resource and p.alsoRequired
  MaxDiscoveryErrors,  \* bound: discovery calls that fail
  NoCaller             \* the nil channel

ASSUME ProbeAssumption ==
  /\ NoCaller \notin Callers
  /\ MaxDiscoveryErrors \in Nat

VARIABLES
  served,      \* resources of the group version that the API server serves
  available,   \* p.available
  checked,     \* p.checkedAt: zero, within crdAvailabilityTTL, or older
  inflight,    \* p.inflight, by its owner
  pc,          \* where each goroutine is in Available
  waitingOn,   \* the channel a waiting goroutine receives from
  found,       \* the local `available` of a probing goroutine
  errors,      \* discovery calls that failed so far
  evidence,    \* history: all of Required was served at some instant
  owed         \* history: a probe found the CRDs while this caller was waiting

cluster == <<served, evidence>>
probeState == <<available, checked, inflight>>
locals == <<pc, waitingOn, found>>
vars == <<served, available, checked, inflight, pc, waitingOn, found, errors, evidence, owed>>

Locations == {"idle", "loop", "waiting", "probing", "probed", "closing", "true", "false"}

TypeOK ==
  /\ served \subseteq Required
  /\ available \in BOOLEAN
  /\ checked \in {"never", "fresh", "expired"}
  /\ inflight \in Callers \cup {NoCaller}
  /\ pc \in [Callers -> Locations]
  /\ waitingOn \in [Callers -> Callers \cup {NoCaller}]
  /\ found \in [Callers -> BOOLEAN]
  /\ errors \in Nat
  /\ evidence \in BOOLEAN
  /\ owed \in [Callers -> BOOLEAN]

Installed == served = Required

Init ==
  /\ served \in SUBSET Required
  /\ available = FALSE
  /\ checked = "never"
  /\ inflight = NoCaller
  /\ pc = [c \in Callers |-> "idle"]
  /\ waitingOn = [c \in Callers |-> NoCaller]
  /\ found = [c \in Callers |-> FALSE]
  /\ errors = 0
  /\ evidence = Installed
  /\ owed = [c \in Callers |-> FALSE]

Go(c, from, to) ==
  /\ pc[c] = from
  /\ pc' = [pc EXCEPT ![c] = to]

-----------------------------------------------------------------------------
(* A handler gated on the probe calls Available. *)
Call(c) ==
  /\ Go(c, "idle", "loop")
  /\ owed' = [owed EXCEPT ![c] = FALSE]
  /\ UNCHANGED <<cluster, probeState, waitingOn, found, errors>>

(* The first critical section, one action per way out of it. *)
ReturnCachedTrue(c) ==
  /\ available
  /\ Go(c, "loop", "true")
  /\ UNCHANGED <<cluster, probeState, waitingOn, found, errors, owed>>

(* Mutant of ReturnCachedFalse: a negative answer is cached for good. *)
ReturnCachedFalse_Forever(c) ==
  /\ ~available
  /\ checked # "never"
  /\ Go(c, "loop", "false")
  /\ UNCHANGED <<cluster, probeState, waitingOn, found, errors, owed>>

ReturnCachedFalse(c) ==
  /\ ~available
  /\ checked = "fresh"
  /\ Go(c, "loop", "false")
  /\ UNCHANGED <<cluster, probeState, waitingOn, found, errors, owed>>

JoinProbe(c) ==
  /\ ~available
  /\ checked # "fresh"
  /\ inflight # NoCaller
  /\ Go(c, "loop", "waiting")
  /\ waitingOn' = [waitingOn EXCEPT ![c] = inflight]
  /\ UNCHANGED <<cluster, probeState, found, errors, owed>>

(* Mutant of StartProbe: p.inflight is not looked at. *)
StartProbe_Blind(c) ==
  /\ ~available
  /\ checked # "fresh"
  /\ Go(c, "loop", "probing")
  /\ inflight' = c
  /\ UNCHANGED <<cluster, available, checked, waitingOn, found, errors, owed>>

StartProbe(c) ==
  /\ ~available
  /\ checked # "fresh"
  /\ inflight = NoCaller
  /\ Go(c, "loop", "probing")
  /\ inflight' = c
  /\ UNCHANGED <<cluster, available, checked, waitingOn, found, errors, owed>>

(* Mutant of Probe: one of the resources is enough. *)
Probe_Partial(c) ==
  /\ Go(c, "probing", "probed")
  /\ found' = [found EXCEPT ![c] = Required \cap served # {}]
  /\ UNCHANGED <<cluster, probeState, waitingOn, errors, owed>>

(* probe(): the discovery call answers with what is served at that instant *)
(* and every required resource must be in it, or it fails, which counts as *)
(* missing.                                                                *)
Probe(c) ==
  /\ Go(c, "probing", "probed")
  /\ \/ /\ found' = [found EXCEPT ![c] = Required \subseteq served]
        /\ UNCHANGED errors
     \/ /\ errors < MaxDiscoveryErrors
        /\ errors' = errors + 1
        /\ found' = [found EXCEPT ![c] = FALSE]
  /\ UNCHANGED <<cluster, probeState, waitingOn, owed>>

(* The second critical section. *)
Publish(c) ==
  /\ Go(c, "probed", "closing")
  /\ inflight' = NoCaller
  /\ checked' = "fresh"
  /\ available' = found[c]
  /\ owed' = [d \in Callers |-> owed[d] \/ (found[c] /\ pc[d] \in {"loop", "waiting"})]
  /\ UNCHANGED <<cluster, waitingOn, found, errors>>

(* Mutants of Close: the channel is not closed; a released waiter returns   *)
(* false instead of looking again.                                          *)
Close_Forgotten(c) ==
  /\ Go(c, "closing", IF found[c] THEN "true" ELSE "false")
  /\ UNCHANGED <<cluster, probeState, waitingOn, found, errors, owed>>

Close_TellsMissing(c) ==
  /\ pc[c] = "closing"
  /\ pc' = [d \in Callers |->
              IF d = c THEN IF found[c] THEN "true" ELSE "false"
              ELSE IF pc[d] = "waiting" /\ waitingOn[d] = c THEN "false"
              ELSE pc[d]]
  /\ waitingOn' = [d \in Callers |-> IF waitingOn[d] = c THEN NoCaller ELSE waitingOn[d]]
  /\ UNCHANGED <<cluster, probeState, found, errors, owed>>

(* close(done) releases every waiter of this channel; then Available        *)
(* returns what this goroutine found.                                       *)
Close(c) ==
  /\ pc[c] = "closing"
  /\ pc' = [d \in Callers |->
              IF d = c THEN IF found[c] THEN "true" ELSE "false"
              ELSE IF pc[d] = "waiting" /\ waitingOn[d] = c THEN "loop"
              ELSE pc[d]]
  /\ waitingOn' = [d \in Callers |-> IF waitingOn[d] = c THEN NoCaller ELSE waitingOn[d]]
  /\ UNCHANGED <<cluster, probeState, found, errors, owed>>

(* The handler uses the answer and is done. *)
Answer(c) ==
  /\ \/ Go(c, "true", "idle")
     \/ Go(c, "false", "idle")
  /\ UNCHANGED <<cluster, probeState, waitingOn, found, errors, owed>>

-----------------------------------------------------------------------------
(* time.Since(p.checkedAt) reaches crdAvailabilityTTL. *)
Expire ==
  /\ checked = "fresh"
  /\ checked' = "expired"
  /\ UNCHANGED <<cluster, available, inflight, locals, errors, owed>>

(* Somebody installs or removes one of the CRDs. *)
ChangeCRDs(r) ==
  /\ served' = IF r \in served THEN served \ {r} ELSE served \cup {r}
  /\ evidence' = (evidence \/ served' = Required)
  /\ UNCHANGED <<probeState, locals, errors, owed>>

Next ==
  \/ \E c \in Callers :
       \/ Call(c) \/ ReturnCachedTrue(c) \/ ReturnCachedFalse(c) \/ JoinProbe(c)
       \/ StartProbe(c) \/ Probe(c) \/ Publish(c) \/ Close(c) \/ Answer(c)
  \/ Expire
  \/ \E r \in Required : ChangeCRDs(r)

(* A goroutine that can run does, the discovery client has a timeout, and   *)
(* time passes.  Nobody has to send requests or install CRDs.               *)
Fairness ==
  /\ \A c \in Callers :
       /\ WF_vars(ReturnCachedTrue(c) \/ ReturnCachedFalse(c) \/ JoinProbe(c) \/ StartProbe(c))
       /\ WF_vars(Probe(c) \/ Publish(c) \/ Close(c) \/ Answer(c))
  /\ WF_vars(Expire)

Spec == Init /\ [][Next]_vars
FairSpec == Spec /\ Fairness

-----------------------------------------------------------------------------
(* "Callers arriving while a probe runs wait for its answer": the channel   *)
(* in p.inflight is the one of the only goroutine inside the discovery      *)
(* call, so there is never a second call in flight.                         *)
SingleFlight ==
  \A c \in Callers : pc[c] \in {"probing", "probed"} <=> inflight = c

(* A goroutine that waits, waits for a channel somebody has still to close. *)
WaitsForOpenChannel ==
  \A c \in Callers : pc[c] = "waiting" =>
    /\ waitingOn[c] \in Callers
    /\ pc[waitingOn[c]] \in {"probing", "probed", "closing"}

(* What the two critical sections keep of p.available together: a discovery *)
(* call is in flight only while the answer is negative, so the answer it    *)
(* publishes never overwrites a positive one, and every positive answer on  *)
(* its way out or owed to a waiting caller is behind p.available.           *)
Published ==
  \A c \in Callers :
    /\ pc[c] \in {"probing", "probed"} => ~available
    /\ pc[c] = "closing" /\ found[c] => available
    /\ pc[c] = "true" => available
    /\ owed[c] /\ pc[c] \in {"loop", "waiting"} => available

(* A positive answer needs evidence: some discovery call saw every required *)
(* resource, "a partial install serving some of them is not the feature     *)
(* being available".                                                        *)
Evidence ==
  /\ available => evidence
  /\ \A c \in Callers : pc[c] \in {"probed", "closing"} /\ found[c] => evidence
  /\ Installed => evidence

(* Waiting callers are not "told the resource is missing, which would turn  *)
(* a cold start into transient 501s": a caller that was in Available when a *)
(* probe found the CRDs is answered true, unless it is the prober itself.   *)
NoTransientMissing ==
  \A c \in Callers : pc[c] = "false" => ~owed[c]

(* "Available caches a positive answer for the process lifetime": it is     *)
(* never taken back, not by a probe that started before it either.          *)
PositiveIsSticky == [][available => available']_vars

(* Goroutine c is inside Available. *)
Pending(c) == pc[c] \notin {"idle", "true", "false"}

(* Once the CRDs are installed for good every caller gets an answer: nobody *)
(* stays on the channel of a probe that is over.                            *)
CallersAnswered ==
  \A c \in Callers : <>[]Installed => (Pending(c) ~> ~Pending(c))

(* "so installing the CRDs takes effect without a restart": as long as      *)
(* requests keep coming, the answer becomes true.                           *)
InstallTakesEffect ==
  (<>[]Installed /\ []<>(\E c \in Callers : Pending(c))) => <>available

(* The request stage a caller of the abstract gate is in. *)
StageOf(c) ==
  CASE pc[c] = "idle" -> "idle"
    [] pc[c] = "true" -> "yes"
    [] pc[c] = "false" -> "no"
    [] pc[c] = "closing" -> IF found[c] THEN "yes" ELSE "no"
    [] OTHER -> "asked"

(* APIProbe implements the latch of FeatureGate. *)
Gate == INSTANCE FeatureGate WITH
          latch <- available,
          request <- [c \in Callers |-> StageOf(c)]

GateSpec == Gate!Spec
=============================================================================
