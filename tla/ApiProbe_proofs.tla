--------------------------- MODULE ApiProbe_proofs ---------------------------
(***************************************************************************)
(* Proofs about ApiProbe for any set of callers and of required resources. *)
(* Refinement of FeatureGate is proved step by step: every step of the     *)
(* probe is a step of the gate or leaves it unchanged.                     *)
(***************************************************************************)
EXTENDS ApiProbe, TLAPS

(* One goroutine's step, and the steps of its surroundings. *)
CallerStep(c) ==
  \/ Call(c) \/ ReturnCachedTrue(c) \/ ReturnCachedFalse(c) \/ JoinProbe(c)
  \/ StartProbe(c) \/ Probe(c) \/ Publish(c) \/ Close(c) \/ Answer(c)

USE DEF cluster, probeState, locals, vars

(* Every variable of the probe keeps its type: p.inflight is a channel of a *)
(* caller or nil, p.checkedAt one of its three ages.                        *)
THEOREM TypeCorrect == Spec => []TypeOK
<1>1. Init => TypeOK
  <2> SUFFICES ASSUME Init PROVE TypeOK
    OBVIOUS
  <2>1. evidence \in BOOLEAN
    BY Zenon DEF Init, Installed
  <2> QED
    BY <2>1, ProbeAssumption DEF Init, TypeOK, Locations
<1>2. TypeOK /\ [Next]_vars => TypeOK'
  <2> SUFFICES ASSUME TypeOK, [Next]_vars PROVE TypeOK'
    OBVIOUS
  <2> USE DEF TypeOK, Locations, Go
  <2>1. ASSUME NEW c \in Callers, Call(c) PROVE TypeOK'
    BY <2>1 DEF Call
  <2>2. ASSUME NEW c \in Callers, ReturnCachedTrue(c) PROVE TypeOK'
    BY <2>2 DEF ReturnCachedTrue
  <2>3. ASSUME NEW c \in Callers, ReturnCachedFalse(c) PROVE TypeOK'
    BY <2>3 DEF ReturnCachedFalse
  <2>4. ASSUME NEW c \in Callers, JoinProbe(c) PROVE TypeOK'
    BY <2>4 DEF JoinProbe
  <2>5. ASSUME NEW c \in Callers, StartProbe(c) PROVE TypeOK'
    BY <2>5 DEF StartProbe
  <2>6. ASSUME NEW c \in Callers, Probe(c) PROVE TypeOK'
    <3>1. found' \in [Callers -> BOOLEAN]
      <4>1. (Required \subseteq served) \in BOOLEAN
        BY Zenon
      <4>2. PICK b \in BOOLEAN : found' = [found EXCEPT ![c] = b]
        BY <2>6, <4>1, Zenon DEF Probe
      <4> QED
        BY <4>2
    <3>2. errors' \in Nat
      BY <2>6, ProbeAssumption DEF Probe
    <3> QED
      BY <2>6, <3>1, <3>2 DEF Probe
  <2>7. ASSUME NEW c \in Callers, Publish(c) PROVE TypeOK'
    BY <2>7 DEF Publish
  <2>8. ASSUME NEW c \in Callers, Close(c) PROVE TypeOK'
    BY <2>8 DEF Close
  <2>9. ASSUME NEW c \in Callers, Answer(c) PROVE TypeOK'
    BY <2>9 DEF Answer
  <2>10. CASE Expire
    BY <2>10 DEF Expire
  <2>11. ASSUME NEW r \in Required, ChangeCRDs(r) PROVE TypeOK'
    BY <2>11 DEF ChangeCRDs
  <2>12. CASE UNCHANGED vars
    BY <2>12
  <2> QED
    BY <2>1, <2>2, <2>3, <2>4, <2>5, <2>6, <2>7, <2>8, <2>9, <2>10, <2>11, <2>12 DEF Next
<1> QED
  BY <1>1, <1>2, PTL DEF Spec

(* A step of the clock or of the cluster changes nothing of the probe but   *)
(* the age of the last negative answer.                                     *)
LEMMA SurroundingsStep ==
  ASSUME Expire \/ (\E r \in Required : ChangeCRDs(r)) \/ UNCHANGED vars
  PROVE  UNCHANGED <<available, inflight, pc, waitingOn, found, owed>>
BY DEF Expire, ChangeCRDs

(* p.inflight is the channel of the one goroutine inside the discovery      *)
(* call: APIProbe never has two probes in flight.                           *)
THEOREM SingleFlightHolds == Spec => []SingleFlight
<1>1. Init => SingleFlight
  BY ProbeAssumption DEF Init, SingleFlight
<1>2. TypeOK /\ SingleFlight /\ [Next]_vars => SingleFlight'
  <2> SUFFICES ASSUME TypeOK, SingleFlight, [Next]_vars PROVE SingleFlight'
    OBVIOUS
  <2> USE ProbeAssumption DEF TypeOK, Locations, SingleFlight, Go
  <2>1. ASSUME NEW c \in Callers, CallerStep(c) PROVE SingleFlight'
    <3>1. CASE Call(c) \/ ReturnCachedTrue(c) \/ ReturnCachedFalse(c) \/ JoinProbe(c)
      BY <3>1 DEF Call, ReturnCachedTrue, ReturnCachedFalse, JoinProbe
    <3>2. CASE StartProbe(c)
      BY <3>2 DEF StartProbe
    <3>3. CASE Probe(c) \/ Answer(c)
      BY <3>3 DEF Probe, Answer
    <3>4. CASE Publish(c)
      BY <3>4 DEF Publish
    <3>5. CASE Close(c)
      BY <3>5 DEF Close
    <3> QED
      BY <2>1, <3>1, <3>2, <3>3, <3>4, <3>5 DEF CallerStep
  <2>2. CASE Expire \/ (\E r \in Required : ChangeCRDs(r)) \/ UNCHANGED vars
    BY <2>2, SurroundingsStep
  <2> QED
    BY <2>1, <2>2 DEF Next, CallerStep
<1> QED
  BY <1>1, <1>2, TypeCorrect, PTL DEF Spec

(* Nobody waits on the channel of a probe that is over: a waiting goroutine *)
(* receives from a channel whose owner has still to close it.               *)
THEOREM WaitsForOpenChannelHolds == Spec => []WaitsForOpenChannel
<1>1. Init => WaitsForOpenChannel
  BY DEF Init, WaitsForOpenChannel
<1>2. TypeOK /\ SingleFlight /\ WaitsForOpenChannel /\ [Next]_vars => WaitsForOpenChannel'
  <2> SUFFICES ASSUME TypeOK, SingleFlight, WaitsForOpenChannel, [Next]_vars
               PROVE  WaitsForOpenChannel'
    OBVIOUS
  <2> USE ProbeAssumption DEF TypeOK, Locations, WaitsForOpenChannel, Go
  <2>1. ASSUME NEW c \in Callers, CallerStep(c) PROVE WaitsForOpenChannel'
    <3>1. CASE Call(c) \/ ReturnCachedTrue(c) \/ ReturnCachedFalse(c)
      BY <3>1 DEF Call, ReturnCachedTrue, ReturnCachedFalse
    <3>2. CASE JoinProbe(c)
      BY <3>2 DEF JoinProbe, SingleFlight
    <3>3. CASE StartProbe(c)
      BY <3>3 DEF StartProbe
    <3>4. CASE Probe(c) \/ Answer(c)
      BY <3>4 DEF Probe, Answer
    <3>5. CASE Publish(c)
      BY <3>5 DEF Publish
    <3>6. CASE Close(c)
      BY <3>6 DEF Close
    <3> QED
      BY <2>1, <3>1, <3>2, <3>3, <3>4, <3>5, <3>6 DEF CallerStep
  <2>2. CASE Expire \/ (\E r \in Required : ChangeCRDs(r)) \/ UNCHANGED vars
    BY <2>2, SurroundingsStep
  <2> QED
    BY <2>1, <2>2 DEF Next, CallerStep
<1> QED
  BY <1>1, <1>2, TypeCorrect, SingleFlightHolds, PTL DEF Spec

(* The second critical section never publishes over a positive answer, and  *)
(* whoever is owed a positive answer finds it in p.available.               *)
THEOREM PublishedHolds == Spec => []Published
<1>1. Init => Published
  BY DEF Init, Published
<1>2. TypeOK /\ SingleFlight /\ Published /\ [Next]_vars => Published'
  <2> SUFFICES ASSUME TypeOK, SingleFlight, Published, [Next]_vars PROVE Published'
    OBVIOUS
  <2> USE ProbeAssumption DEF TypeOK, Locations, Published, Go
  <2>1. ASSUME NEW c \in Callers, CallerStep(c) PROVE Published'
    <3>1. CASE Call(c) \/ ReturnCachedTrue(c) \/ ReturnCachedFalse(c) \/ JoinProbe(c)
      BY <3>1 DEF Call, ReturnCachedTrue, ReturnCachedFalse, JoinProbe
    <3>2. CASE StartProbe(c)
      BY <3>2 DEF StartProbe
    <3>3. CASE Probe(c)
      <4>1. \A d \in Callers : pc'[d] = "closing" /\ found'[d] => pc[d] = "closing" /\ found[d]
        BY <3>3 DEF Probe
      <4>2. \A d \in Callers : /\ pc'[d] = "true" => pc[d] = "true"
                               /\ pc'[d] \in {"probing", "probed"} => pc[d] \in {"probing", "probed"}
                               /\ pc'[d] \in {"loop", "waiting"} => pc[d] \in {"loop", "waiting"}
        BY <3>3 DEF Probe
      <4>3. available' = available /\ owed' = owed
        BY <3>3 DEF Probe
      <4>4. ASSUME NEW d \in Callers
            PROVE  /\ pc'[d] \in {"probing", "probed"} => ~available
                   /\ pc'[d] = "closing" /\ found'[d] => available
                   /\ pc'[d] = "true" => available
                   /\ owed[d] /\ pc'[d] \in {"loop", "waiting"} => available
        BY <4>1, <4>2
      <4> QED
        BY <4>3, <4>4
    <3>4. CASE Publish(c)
      <4>1. pc[c] = "probed" /\ ~available /\ available' = found[c]
        BY <3>4 DEF Publish
      <4>2. \A d \in Callers : d # c => pc[d] \notin {"probing", "probed"}
        BY <4>1 DEF SingleFlight
      <4>3. \A d \in Callers : pc[d] # "true" /\ (pc[d] = "closing" => ~found[d])
        BY <4>1
      <4>4. \A d \in Callers : owed'[d] = (owed[d] \/ (found[c] /\ pc[d] \in {"loop", "waiting"}))
        BY <3>4, Zenon DEF Publish
      <4>5. \A d \in Callers : /\ pc'[d] = IF d = c THEN "closing" ELSE pc[d]
                               /\ found'[d] = found[d]
        BY <3>4 DEF Publish
      <4> QED
        BY <4>1, <4>2, <4>3, <4>4, <4>5
    <3>5. CASE Close(c)
      BY <3>5 DEF Close
    <3>6. CASE Answer(c)
      BY <3>6 DEF Answer
    <3> QED
      BY <2>1, <3>1, <3>2, <3>3, <3>4, <3>5, <3>6 DEF CallerStep
  <2>2. CASE Expire \/ (\E r \in Required : ChangeCRDs(r)) \/ UNCHANGED vars
    BY <2>2, SurroundingsStep
  <2> QED
    BY <2>1, <2>2 DEF Next, CallerStep
<1> QED
  BY <1>1, <1>2, TypeCorrect, SingleFlightHolds, PTL DEF Spec

(* "Available caches a positive answer for the process lifetime": no step   *)
(* of any caller takes it back.                                             *)
THEOREM PositiveIsStickyHolds == Spec => PositiveIsSticky
<1>1. TypeOK /\ Published /\ [Next]_vars => [available => available']_vars
  <2> SUFFICES ASSUME TypeOK, Published, [Next]_vars, available PROVE available'
    OBVIOUS
  <2>1. ASSUME NEW c \in Callers, CallerStep(c) PROVE available'
    <3>1. ~Publish(c)
      BY DEF Publish, Published, Go
    <3> QED
      BY <2>1, <3>1 DEF CallerStep, Call, ReturnCachedTrue, ReturnCachedFalse, JoinProbe,
                        StartProbe, Probe, Close, Answer
  <2>2. CASE Expire \/ (\E r \in Required : ChangeCRDs(r)) \/ UNCHANGED vars
    BY <2>2, SurroundingsStep
  <2> QED
    BY <2>1, <2>2 DEF Next, CallerStep
<1> QED
  BY <1>1, TypeCorrect, PublishedHolds, PTL DEF Spec, PositiveIsSticky

(* Waiting callers are never told that the CRDs are missing after the probe *)
(* they wait for has found them: no transient 501s on a cold start.         *)
THEOREM NoTransientMissingHolds == Spec => []NoTransientMissing
<1> DEFINE Owed == \A c \in Callers : owed[c] => pc[c] \in {"idle", "loop", "waiting", "true"}
<1>1. Init => Owed
  BY DEF Init
<1>2. TypeOK /\ Published /\ Owed /\ [Next]_vars => Owed'
  <2> SUFFICES ASSUME TypeOK, Published, Owed, [Next]_vars PROVE Owed'
    OBVIOUS
  <2> USE DEF TypeOK, Locations, Go
  <2>1. ASSUME NEW c \in Callers, CallerStep(c) PROVE Owed'
    <3>1. CASE Call(c)
      BY <3>1 DEF Call
    <3>2. CASE ReturnCachedTrue(c) \/ Answer(c)
      BY <3>2 DEF ReturnCachedTrue, Answer
    <3>3. CASE ReturnCachedFalse(c) \/ JoinProbe(c) \/ StartProbe(c)
      BY <3>3 DEF ReturnCachedFalse, JoinProbe, StartProbe, Published
    <3>4. CASE Probe(c)
      BY <3>4 DEF Probe
    <3>5. CASE Publish(c)
      <4>1. \A d \in Callers : owed'[d] => owed[d] \/ pc[d] \in {"loop", "waiting"}
        BY <3>5, Zenon DEF Publish
      <4>2. \A d \in Callers : pc'[d] = IF d = c THEN "closing" ELSE pc[d]
        BY <3>5 DEF Publish
      <4>3. pc[c] = "probed"
        BY <3>5 DEF Publish
      <4> QED
        BY <4>1, <4>2, <4>3
    <3>6. CASE Close(c)
      BY <3>6 DEF Close
    <3> QED
      BY <2>1, <3>1, <3>2, <3>3, <3>4, <3>5, <3>6 DEF CallerStep
  <2>2. CASE Expire \/ (\E r \in Required : ChangeCRDs(r)) \/ UNCHANGED vars
    BY <2>2, SurroundingsStep
  <2> QED
    BY <2>1, <2>2 DEF Next, CallerStep
<1>3. Owed => NoTransientMissing
  BY DEF NoTransientMissing
<1> QED
  BY <1>1, <1>2, <1>3, TypeCorrect, PublishedHolds, PTL DEF Spec

(* A positive answer needs evidence: some discovery call saw all the        *)
(* required resources served at one instant.                                *)
THEOREM EvidenceHolds == Spec => []Evidence
<1>1. Init => Evidence
  BY DEF Init, Evidence
<1>2. TypeOK /\ Evidence /\ [Next]_vars => Evidence'
  <2> SUFFICES ASSUME TypeOK, Evidence, [Next]_vars PROVE Evidence'
    OBVIOUS
  <2> USE DEF TypeOK, Locations, Evidence, Installed, Go
  <2>1. ASSUME NEW c \in Callers, CallerStep(c) PROVE Evidence'
    <3>1. CASE Call(c) \/ ReturnCachedTrue(c) \/ ReturnCachedFalse(c) \/ JoinProbe(c)
      BY <3>1 DEF Call, ReturnCachedTrue, ReturnCachedFalse, JoinProbe
    <3>2. CASE StartProbe(c) \/ Answer(c)
      BY <3>2 DEF StartProbe, Answer
    <3>3. CASE Probe(c)
      <4>1. available' = available /\ served' = served /\ evidence' = evidence
        BY <3>3 DEF Probe
      <4>2. found'[c] => Required \subseteq served
        BY <3>3, Zenon DEF Probe
      <4>3. \A d \in Callers : d # c => pc'[d] = pc[d] /\ found'[d] = found[d]
        BY <3>3 DEF Probe
      <4>4. found'[c] => evidence
        BY <4>2
      <4> QED
        BY <4>1, <4>3, <4>4
    <3>4. CASE Publish(c)
      BY <3>4 DEF Publish
    <3>5. CASE Close(c)
      BY <3>5 DEF Close
    <3> QED
      BY <2>1, <3>1, <3>2, <3>3, <3>4, <3>5 DEF CallerStep
  <2>2. CASE Expire \/ UNCHANGED vars
    BY <2>2 DEF Expire
  <2>3. ASSUME NEW r \in Required, ChangeCRDs(r) PROVE Evidence'
    <3>1. UNCHANGED <<available, pc, found>>
      BY <2>3 DEF ChangeCRDs
    <3>2. evidence' = (evidence \/ served' = Required)
      BY <2>3 DEF ChangeCRDs
    <3> QED
      BY <3>1, <3>2
  <2> QED
    BY <2>1, <2>2, <2>3 DEF Next, CallerStep
<1> QED
  BY <1>1, <1>2, TypeCorrect, PTL DEF Spec

(* APIProbe implements the latch of FeatureGate: its lock, its single       *)
(* flight and its clock are invisible to the handlers it gates.             *)
THEOREM ImplementsGate == Spec => GateSpec
<1> DEFINE request == [c \in Callers |-> StageOf(c)]
<1>1. Init => Gate!Init
  <2> SUFFICES ASSUME Init PROVE Gate!Init
    OBVIOUS
  <2>1. evidence \in BOOLEAN
    BY Zenon DEF Init, Installed
  <2>2. request = [c \in Callers |-> "idle"]
    BY DEF Init, StageOf
  <2> QED
    BY <2>1, <2>2 DEF Init, Gate!Init
<1>2. TypeOK /\ Published /\ Evidence /\ [Next]_vars => [Gate!Next]_(Gate!gateVars)
  <2> SUFFICES ASSUME TypeOK, Published, Evidence, [Next]_vars
               PROVE  Gate!Next \/ UNCHANGED <<available, request, evidence>>
    BY DEF Gate!gateVars
  <2> USE DEF TypeOK, Locations, Go
  <2>1. ASSUME NEW c \in Callers, Call(c) PROVE Gate!Ask(c)
    BY <2>1 DEF Call, StageOf, Gate!Ask
  <2>2. ASSUME NEW c \in Callers, ReturnCachedTrue(c) PROVE Gate!DecideYes(c)
    BY <2>2 DEF ReturnCachedTrue, StageOf, Gate!DecideYes, Evidence
  <2>3. ASSUME NEW c \in Callers, ReturnCachedFalse(c) PROVE Gate!DecideNo(c)
    BY <2>3 DEF ReturnCachedFalse, StageOf, Gate!DecideNo
  <2>4. ASSUME NEW c \in Callers, JoinProbe(c) \/ StartProbe(c) \/ Probe(c)
        PROVE  UNCHANGED <<available, request, evidence>>
    <3>1. \A d \in Callers : \/ pc'[d] = pc[d] /\ (pc[d] = "closing" => found'[d] = found[d])
                            \/ {pc[d], pc'[d]} \subseteq {"loop", "waiting", "probing", "probed"}
      BY <2>4 DEF JoinProbe, StartProbe, Probe
    <3>2. \A d \in Callers : StageOf(d)' = StageOf(d)
      BY <3>1 DEF StageOf
    <3>3. UNCHANGED <<available, evidence>>
      BY <2>4 DEF JoinProbe, StartProbe, Probe
    <3> QED
      BY <3>2, <3>3
  <2>5. ASSUME NEW c \in Callers, Publish(c)
        PROVE  Gate!DecideYes(c) \/ Gate!DecideNo(c)
    <3>1. CASE found[c]
      BY <2>5, <3>1 DEF Publish, StageOf, Gate!DecideYes, Evidence
    <3>2. CASE ~found[c]
      BY <2>5, <3>2 DEF Publish, StageOf, Gate!DecideNo, Published
    <3> QED
      BY <3>1, <3>2
  <2>6. ASSUME NEW c \in Callers, Close(c)
        PROVE  UNCHANGED <<available, request, evidence>>
    <3>1. \A d \in Callers : StageOf(d)' = StageOf(d)
      BY <2>6 DEF Close, StageOf
    <3> QED
      BY <2>6, <3>1 DEF Close
  <2>7. ASSUME NEW c \in Callers, Answer(c) PROVE Gate!Return(c)
    BY <2>7 DEF Answer, StageOf, Gate!Return
  <2>8. CASE Expire \/ UNCHANGED vars
    BY <2>8 DEF Expire, StageOf
  <2>9. ASSUME NEW r \in Required, ChangeCRDs(r)
        PROVE  Gate!Install \/ UNCHANGED <<available, request, evidence>>
    <3>1. UNCHANGED <<available, request>>
      BY <2>9 DEF ChangeCRDs, StageOf
    <3>2. evidence' = TRUE \/ evidence' = evidence
      BY <2>9, Zenon DEF ChangeCRDs
    <3> QED
      BY <3>1, <3>2 DEF Gate!Install
  <2> QED
    BY <2>1, <2>2, <2>3, <2>4, <2>5, <2>6, <2>7, <2>8, <2>9 DEF Next, Gate!Next
<1> QED
  BY <1>1, <1>2, TypeCorrect, PublishedHolds, EvidenceHolds, PTL DEF Spec, GateSpec, Gate!Spec
=============================================================================
