-------------------------- MODULE Releases_proofs --------------------------
(***************************************************************************)
(* Proofs about Releases for any number of requests, instances, endings    *)
(* and specs, with any interleaving of the API calls.                      *)
(***************************************************************************)
EXTENDS Releases, TLAPS

(* What the place of a request in its handler says of its locals. *)
RequestOK(q) ==
  /\ q.pc # "idle" => q.name \in Instances
  /\ q.pc = "check" => q.service \in Services /\ q.value \in Values
  /\ q.pc = "validate" => q.spec \in ReleaseSpec
  /\ q.pc \in {"create", "rvGet", "put"} => q.spec \in Valid
  /\ q.pc \notin {"client", "survivors", "list", "sweep"} => q.settled = {}
  /\ q.name \notin q.settled
  /\ q.pc \notin {"list", "sweep"} => q.kind = "pod"
  /\ q.pc \in {"list", "sweep"} => q.settled \subseteq q.others
  /\ q.pc = "sweep" => \A o \in q.doomed : OwnsByName(o, q.name, q.others)

RequestsOK == \A r \in Requests : RequestOK(requests[r])

(* The settled neighbours of a request are releases. *)
SettledPresent == \A r \in Requests : requests[r].settled \subseteq Present

(* Whoever made an object named it after itself. *)
NamedAfterMaker ==
  \A k \in Kinds, o \in ObjectNames : objects[k][o] # Absent => IsPrefix(objects[k][o], o)

(* The request has read its Release and is about to store it. *)
Editing(q) == q.pc \in {"validate", "rvGet", "put"}

(* The Release an update holds the UID of is there and of the service that  *)
(* it read, and it holds a resource version of that Release only.           *)
ReleaseHeld ==
  /\ \A r \in relUID : Editing(requests[r]) =>
       /\ releases[requests[r].name] # Absent
       /\ releases[requests[r].name].spec.service = requests[r].spec.service
  /\ \A r \in relRV : r \in relUID /\ requests[r].pc = "put"

(* The inductive invariant. *)
Inv ==
  /\ TypeOK /\ RequestsOK /\ StoredSpecsValid
  /\ SettledPresent /\ NamedAfterMaker /\ ReleaseHeld

-----------------------------------------------------------------------------
(* Helpers *)

(* The name of an object is one of the namespace, and its maker's name      *)
(* starts it.                                                               *)
LEMMA ObjectName ==
  ASSUME NEW i \in Instances, NEW u \in Endings
  PROVE  i \o u \in ObjectNames /\ IsPrefix(i, i \o u)
<1>1. i \o u \in ObjectNames
  BY DEF ObjectNames
<1>2. i \in Seq(STRING) /\ u \in Seq(STRING)
  BY ReleasesAssumption
<1>3. Len(i) <= Len(i \o u) /\ Len(i) \in Nat
  BY <1>2
<1>4. SubSeq(i, 1, Len(i)) = SubSeq(i \o u, 1, Len(i))
  BY <1>2
<1> QED BY <1>1, <1>3, <1>4 DEF IsPrefix

(* ownsByName never claims an object that a listed neighbour with a longer  *)
(* name has made.                                                           *)
LEMMA NeighbourNotOwned ==
  ASSUME NEW i \in Instances, NEW other \in Instances, NEW others, other \in others,
         NEW o, IsStrictPrefix(i, other), IsPrefix(other, o)
  PROVE  ~OwnsByName(o, i, others)
<1>1. i \in Seq(STRING) /\ other \in Seq(STRING)
  BY ReleasesAssumption
<1>2. Len(i) <= Len(other) /\ SubSeq(i, 1, Len(i)) = SubSeq(other, 1, Len(i)) /\ i # other
  BY DEF IsStrictPrefix, IsPrefix
<1>3. SubSeq(i, 1, Len(i)) = i /\ SubSeq(other, 1, Len(other)) = other
  BY <1>1
<1>4. Len(i) # Len(other)
  BY <1>2, <1>3
<1>5. Len(other) > Len(i)
  BY <1>1, <1>2, <1>4
<1> QED BY <1>5 DEF OwnsByName

(* The record of a finished request. *)
LEMMA IdleOK == IdleRequest \in Request /\ RequestOK(IdleRequest) /\ IdleRequest.settled = {}
  BY DEF IdleRequest, NewRequest, Request, Locations, Kinds, RequestOK

(* A new request. *)
LEMMA NewOK ==
  ASSUME NEW pc \in {"check", "get", "delete"}, NEW i \in Instances,
         NEW s \in Services \cup {Absent}, NEW t \in Tags \cup {Absent}, NEW v \in Values \cup {Absent},
         pc = "check" => s \in Services /\ v \in Values
  PROVE  /\ NewRequest(pc, i, s, t, v) \in Request /\ RequestOK(NewRequest(pc, i, s, t, v))
         /\ NewRequest(pc, i, s, t, v).settled = {}
         /\ ~Editing(NewRequest(pc, i, s, t, v))
  BY DEF NewRequest, Request, Locations, Kinds, RequestOK, Editing

-----------------------------------------------------------------------------
(* Requests *)

(* Request r moves to the well-formed record q; the others stay. *)
Moves(r, q) ==
  /\ q \in Request /\ RequestOK(q) /\ q.settled \subseteq Present
  /\ requests' = [requests EXCEPT ![r] = q]

RequestStep(r) == DeployStep(r) \/ UpdateStep(r) \/ DeleteStep(r) \/ CallFails(r)

(* A request that ends. *)
LEMMA DoneMoves == ASSUME NEW r, Done(r) PROVE Moves(r, IdleRequest)
  BY IdleOK DEF Done, Moves

(* Deploying: every call leads to a well-formed request. *)
LEMMA DeployMoves ==
  ASSUME Inv, NEW r \in Requests, DeployStep(r) PROVE \E q : Moves(r, q)
<1> DEFINE q == requests[r]
<1>0. q \in Request /\ RequestOK(q) /\ q.settled \subseteq Present
  BY DEF Inv, TypeOK, RequestsOK, SettledPresent
<1>1. CASE SubmitDeploy(r)
  <2>1. PICK i \in Instances, s \in Services, t \in Tags \cup {Absent}, v \in Values :
          requests' = [requests EXCEPT ![r] = NewRequest("check", i, s, t, v)]
    BY <1>1 DEF SubmitDeploy
  <2> QED BY <2>1, NewOK DEF Moves
<1>2. CASE CheckDeploy(r)
  <2>1. PICK spec \in Valid :
          requests' = [requests EXCEPT ![r].pc = "create", ![r].spec = spec]
    BY <1>2 DEF CheckDeploy
  <2> DEFINE new == [q EXCEPT !.pc = "create", !.spec = spec]
  <2>2. spec \in ReleaseSpec /\ q.pc = "check"
    BY <1>2, ReleasesAssumption DEF CheckDeploy, At
  <2>3. new \in Request
    BY <1>0, <2>2 DEF Request, Locations
  <2>4. RequestOK(new) /\ new.settled \subseteq Present
    BY <1>0, <2>2 DEF RequestOK, Request
  <2>5. requests' = [requests EXCEPT ![r] = new]
    BY <2>1
  <2> HIDE DEF new
  <2> QED BY <2>3, <2>4, <2>5 DEF Moves
<1>3. CASE CreateRelease(r)
  BY <1>3, DoneMoves DEF CreateRelease
<1> QED BY <1>1, <1>2, <1>3 DEF DeployStep

(* What an update asks for, laid over a spec, is a spec of that service. *)
LEMMA MergedSpecType ==
  ASSUME NEW q \in Request, NEW spec \in ReleaseSpec
  PROVE  MergedSpec(q, spec) \in ReleaseSpec /\ MergedSpec(q, spec).service = spec.service
<1>1. q.tag \in Tags \cup {Absent} /\ q.value \in Values \cup {Absent}
  BY DEF Request
<1>2. spec.tag \in Tags /\ spec.value \in Values
  BY DEF ReleaseSpec
<1> DEFINE t == IF q.tag = Absent THEN spec.tag ELSE q.tag
           v == IF q.value = Absent THEN spec.value ELSE q.value
<1>3. t \in Tags /\ v \in Values
  BY <1>1, <1>2
<1>4. MergedSpec(q, spec) = [spec EXCEPT !.tag = t, !.value = v]
  BY DEF MergedSpec, ReleaseSpec
<1> HIDE DEF t, v
<1> QED BY <1>3, <1>4 DEF ReleaseSpec

(* Updating. *)
LEMMA UpdateMoves ==
  ASSUME Inv, NEW r \in Requests, UpdateStep(r) PROVE \E q : Moves(r, q)
<1> DEFINE q == requests[r]
<1>0. q \in Request /\ RequestOK(q) /\ q.settled \subseteq Present
  BY DEF Inv, TypeOK, RequestsOK, SettledPresent
<1>1. CASE SubmitUpdate(r)
  <2>1. PICK i \in Instances, e \in Edits :
          requests' = [requests EXCEPT ![r] = NewRequest("get", i, Absent, e.tag, e.value)]
    BY <1>1 DEF SubmitUpdate
  <2>2. e.tag \in Tags \cup {Absent} /\ e.value \in Values \cup {Absent}
    BY ReleasesAssumption
  <2> QED BY <2>1, <2>2, NewOK DEF Moves
<1>2. CASE GetRelease(r)
  <2> DEFINE spec == MergedSpec(q, releases[q.name].spec)
             new == [q EXCEPT !.pc = "validate", !.spec = spec]
  <2>1. CASE Done(r)
    BY <2>1, DoneMoves
  <2>2. CASE ~Done(r)
    <3>1. /\ q.pc = "get" /\ q.name \in Instances /\ releases[q.name] # Absent
          /\ requests' = [requests EXCEPT ![r].pc = "validate", ![r].spec = spec]
      BY <1>0, <1>2, <2>2 DEF GetRelease, At, RequestOK
    <3>2. releases[q.name].spec \in ReleaseSpec
      BY <3>1 DEF Inv, TypeOK, ReleaseOrAbsent, Release
    <3>3. spec \in ReleaseSpec
      BY <1>0, <3>2, MergedSpecType
    <3>4. requests' = [requests EXCEPT ![r] = new]
      BY <3>1
    <3> HIDE DEF spec
    <3>5. new \in Request /\ RequestOK(new) /\ new.settled \subseteq Present
      BY <1>0, <3>1, <3>3 DEF Request, Locations, RequestOK
    <3> HIDE DEF new
    <3> QED BY <3>4, <3>5 DEF Moves
  <2> QED BY <2>1, <2>2
<1>3. CASE ValidateUpdate(r)
  <2> DEFINE new == [q EXCEPT !.pc = "rvGet"]
  <2>1. new \in Request /\ RequestOK(new) /\ new.settled \subseteq Present
    BY <1>0, <1>3 DEF Request, Locations, RequestOK, ValidateUpdate, At
  <2>2. requests' = [requests EXCEPT ![r] = new]
    BY <1>3 DEF ValidateUpdate, Goto
  <2> HIDE DEF new
  <2> QED BY <2>1, <2>2 DEF Moves
<1>4. CASE GetResourceVersion(r)
  <2> DEFINE new == [q EXCEPT !.pc = "put"]
  <2>1. CASE Done(r)
    BY <2>1, DoneMoves
  <2>2. CASE Goto(r, "put")
    <3>1. new \in Request /\ RequestOK(new) /\ new.settled \subseteq Present
      BY <1>0, <1>4 DEF Request, Locations, RequestOK, GetResourceVersion, At
    <3>2. requests' = [requests EXCEPT ![r] = new]
      BY <2>2 DEF Goto
    <3> HIDE DEF new
    <3> QED BY <3>1, <3>2 DEF Moves
  <2> QED BY <1>4, <2>1, <2>2 DEF GetResourceVersion
<1>5. CASE UpdateRelease(r)
  BY <1>5, DoneMoves DEF UpdateRelease
<1> QED BY <1>1, <1>2, <1>3, <1>4, <1>5 DEF UpdateStep

(* From pods to volumes, or to the end. *)
LEMMA NextKindMoves ==
  ASSUME Inv, NEW r \in Requests, requests[r].pc \in {"list", "sweep"}, NextKind(r)
  PROVE  \E q : Moves(r, q)
<1> DEFINE q == requests[r]
           new == [q EXCEPT !.pc = "list", !.kind = "pvc", !.doomed = {}]
<1>0. q \in Request /\ RequestOK(q) /\ q.settled \subseteq Present
  BY DEF Inv, TypeOK, RequestsOK, SettledPresent
<1>1. CASE Done(r)
  BY <1>1, DoneMoves
<1>2. CASE requests' = [requests EXCEPT ![r].pc = "list", ![r].kind = "pvc", ![r].doomed = {}]
  <2>1. new \in Request
    BY <1>0 DEF Request, Locations, Kinds
  <2>2. RequestOK(new) /\ new.settled \subseteq Present
    BY <1>0 DEF Request, RequestOK
  <2>3. requests' = [requests EXCEPT ![r] = new]
    BY <1>2
  <2> HIDE DEF new
  <2> QED BY <2>1, <2>2, <2>3 DEF Moves
<1> QED BY <1>1, <1>2 DEF NextKind

(* Deleting. *)
LEMMA DeleteMoves ==
  ASSUME Inv, NEW r \in Requests, DeleteStep(r) PROVE \E q : Moves(r, q)
<1> DEFINE q == requests[r]
<1>0. q \in Request /\ RequestOK(q) /\ q.settled \subseteq Present
  BY DEF Inv, TypeOK, RequestsOK, SettledPresent
<1>1. CASE SubmitDelete(r)
  <2>1. PICK i \in Instances :
          requests' = [requests EXCEPT ![r] = NewRequest("delete", i, Absent, Absent, Absent)]
    BY <1>1 DEF SubmitDelete
  <2> QED BY <2>1, NewOK DEF Moves
<1>2. CASE DeleteRelease(r)
  <2> DEFINE new == [q EXCEPT !.pc = "client", !.settled = Present \ {q.name}]
  <2>1. CASE Done(r)
    BY <2>1, DoneMoves
  <2>2. CASE requests' = [requests EXCEPT ![r].pc = "client", ![r].settled = Present \ {q.name}]
    <3>1. Present \subseteq Instances
      BY DEF Present
    <3>2. new \in Request /\ RequestOK(new) /\ new.settled \subseteq Present
      BY <1>0, <1>2, <3>1 DEF Request, Locations, RequestOK, DeleteRelease, At
    <3>3. requests' = [requests EXCEPT ![r] = new]
      BY <2>2
    <3> HIDE DEF new
    <3> QED BY <3>2, <3>3 DEF Moves
  <2> QED BY <1>2, <2>1, <2>2 DEF DeleteRelease
<1>3. CASE DeleteAnswerLost(r) \/ ListSurvivorsFails(r)
  BY <1>3, DoneMoves DEF DeleteAnswerLost, ListSurvivorsFails
<1>4. CASE DeleteClient(r) \/ DeleteClientFails(r)
  <2> DEFINE new == [q EXCEPT !.pc = "survivors"]
  <2>1. new \in Request /\ RequestOK(new) /\ new.settled \subseteq Present
    BY <1>0, <1>4 DEF Request, Locations, RequestOK, DeleteClient, DeleteClientFails, At
  <2>2. requests' = [requests EXCEPT ![r] = new]
    BY <1>4 DEF DeleteClient, DeleteClientFails, Goto
  <2> HIDE DEF new
  <2> QED BY <2>1, <2>2 DEF Moves
<1>5. CASE ListSurvivors(r)
  <2> DEFINE others == Present \ {q.name}
             new == [q EXCEPT !.pc = "list", !.others = others]
  <2>1. others \subseteq Instances
    BY DEF Present
  <2>2. q.pc = "survivors" /\ requests' = [requests EXCEPT ![r] = new]
    BY <1>5 DEF ListSurvivors, At
  <2>3. q.name \notin q.settled
    BY <1>0 DEF RequestOK
  <2>4. q.settled \subseteq others
    BY <1>0, <2>3
  <2> HIDE DEF others
  <2>5. new \in Request /\ RequestOK(new) /\ new.settled \subseteq Present
    BY <1>0, <2>1, <2>2, <2>4 DEF Request, Locations, RequestOK
  <2> HIDE DEF new
  <2> QED BY <2>2, <2>5 DEF Moves
<1>6. CASE ListObjects(r)
  <2> DEFINE there == {o \in ObjectNames : objects[q.kind][o] # Absent}
             doomed == {o \in there : OwnsByName(o, q.name, q.others)}
             new == [q EXCEPT !.pc = "sweep", !.doomed = doomed]
  <2>1. doomed \subseteq ObjectNames /\ \A o \in doomed : OwnsByName(o, q.name, q.others)
    OBVIOUS
  <2>2. q.pc = "list" /\ requests' = [requests EXCEPT ![r] = new]
    BY <1>6 DEF ListObjects, At
  <2> HIDE DEF doomed
  <2>3. new \in Request
    BY <1>0, <2>1 DEF Request, Locations
  <2>4. new.pc = "sweep" /\ new.doomed = doomed /\ new.name = q.name /\ new.others = q.others
          /\ new.settled = q.settled
    BY <1>0 DEF Request
  <2> HIDE DEF new
  <2>5. RequestOK(new)
    BY <1>0, <2>1, <2>2, <2>4 DEF RequestOK
  <2> QED BY <1>0, <2>2, <2>3, <2>4, <2>5 DEF Moves
<1>7. CASE ListObjectsFails(r) \/ SweepEnds(r)
  BY <1>7, NextKindMoves DEF ListObjectsFails, SweepEnds, At
<1>8. CASE DeleteObject(r) \/ DeleteObjectFails(r)
  <2>1. PICK o \in q.doomed : requests' = [requests EXCEPT ![r].doomed = @ \ {o}]
    BY <1>8 DEF DeleteObject, DeleteObjectFails
  <2> DEFINE new == [q EXCEPT !.doomed = @ \ {o}]
  <2>2. q.pc = "sweep" /\ requests' = [requests EXCEPT ![r] = new]
    BY <1>8, <2>1 DEF DeleteObject, DeleteObjectFails, At
  <2>3. new \in Request
    BY <1>0 DEF Request
  <2>4. new.pc = "sweep" /\ new.doomed \subseteq q.doomed /\ new.name = q.name
          /\ new.others = q.others /\ new.settled = q.settled
    BY <1>0, <2>2 DEF Request
  <2> HIDE DEF new
  <2>5. RequestOK(new)
    BY <1>0, <2>2, <2>4 DEF RequestOK
  <2> QED BY <1>0, <2>2, <2>3, <2>4, <2>5 DEF Moves
<1> QED BY <1>1, <1>2, <1>3, <1>4, <1>5, <1>6, <1>7, <1>8 DEF DeleteStep

(* Every step of a request moves it to a well-formed record. *)
LEMMA RequestStepMoves ==
  ASSUME Inv, NEW r \in Requests, RequestStep(r) PROVE \E q : Moves(r, q)
<1>1. CASE CallFails(r)
  BY <1>1, DoneMoves DEF CallFails
<1> QED BY <1>1, DeployMoves, UpdateMoves, DeleteMoves DEF RequestStep

(* The others keep their records. *)
LEMMA MovesKeep ==
  ASSUME Inv, NEW r \in Requests, NEW q, Moves(r, q)
  PROVE  /\ requests' \in [Requests -> Request] /\ requests'[r] = q /\ RequestsOK'
         /\ \A d \in Requests : d # r => requests'[d] = requests[d]
         /\ \A d \in Requests : requests'[d].settled \subseteq Present
<1>1. /\ requests' \in [Requests -> Request] /\ requests'[r] = q
      /\ \A d \in Requests : d # r => requests'[d] = requests[d]
  BY DEF Inv, TypeOK, Moves
<1>2. ASSUME NEW d \in Requests
      PROVE  RequestOK(requests'[d]) /\ requests'[d].settled \subseteq Present
  <2>1. CASE d = r
    BY <1>1, <2>1 DEF Moves
  <2>2. CASE d # r
    BY <1>1, <2>2 DEF Inv, RequestsOK, SettledPresent
  <2> QED BY <2>1, <2>2
<1> QED BY <1>1, <1>2 DEF RequestsOK

-----------------------------------------------------------------------------
(* Releases *)

(* What a step may do to the Releases, seen from the request that takes it: *)
(* nothing, create one, replace the spec under the current version, mark    *)
(* one as terminating.                                                      *)
StoresRelease(r, release) ==
  LET q == requests[r] IN
  /\ PutRelease(q.name, release)
  /\ \/ /\ At(r, "create") /\ releases[q.name] = Absent
        /\ release = [spec |-> q.spec, terminating |-> FALSE]
     \/ /\ At(r, "put") /\ r \in relRV
        /\ release = [releases[q.name] EXCEPT !.spec = q.spec]
     \/ /\ At(r, "delete") /\ releases[q.name] # Absent
        /\ release = [releases[q.name] EXCEPT !.terminating = TRUE]

LEMMA ReleaseSteps ==
  ASSUME NEW r \in Requests, RequestStep(r)
  PROVE  UNCHANGED releases \/ \E release : StoresRelease(r, release)
<1>1. CASE CreateRelease(r)
  BY <1>1 DEF CreateRelease, SameReleases, StoresRelease
<1>2. CASE UpdateRelease(r)
  BY <1>2 DEF UpdateRelease, SameReleases, StoresRelease
<1>3. CASE DeleteRelease(r) \/ DeleteAnswerLost(r)
  BY <1>3 DEF DeleteRelease, DeleteAnswerLost, SameReleases, StoresRelease
<1> QED BY <1>1, <1>2, <1>3 DEF RequestStep, DeployStep, UpdateStep, DeleteStep, SubmitDeploy,
      CheckDeploy, SubmitUpdate, GetRelease, ValidateUpdate, GetResourceVersion, SubmitDelete,
      DeleteClient, DeleteClientFails, ListSurvivors, ListSurvivorsFails, ListObjects,
      ListObjectsFails, DeleteObject, DeleteObjectFails, SweepEnds, CallFails, SameReleases

(* A Release that is stored is well formed and valid, and the service of    *)
(* one that was there stays.                                                *)
LEMMA StoredRelease ==
  ASSUME Inv, NEW r \in Requests, NEW release, StoresRelease(r, release)
  PROVE  LET i == requests[r].name IN
         /\ i \in Instances /\ release \in Release /\ release # Absent /\ release.spec \in Valid
         /\ releases[i] # Absent => release.spec.service = releases[i].spec.service
<1> DEFINE q == requests[r]
           i == q.name
<1>0. q \in Request /\ RequestOK(q) /\ q.pc # "idle" /\ i \in Instances
  BY DEF Inv, TypeOK, RequestsOK, RequestOK, StoresRelease, At
<1>1. ASSUME releases[i] # Absent PROVE releases[i] \in Release /\ releases[i].spec \in Valid
  BY <1>0, <1>1 DEF Inv, TypeOK, ReleaseOrAbsent, StoredSpecsValid, Present
<1>2. Valid \subseteq ReleaseSpec
  BY ReleasesAssumption
<1>3. Absent \notin Release
  BY ReleasesAssumption DEF Release
<1>4. CASE At(r, "create") /\ releases[i] = Absent /\ release = [spec |-> q.spec, terminating |-> FALSE]
  <2>1. q.spec \in Valid
    BY <1>0, <1>4 DEF At, RequestOK
  <2>2. release \in Release /\ release.spec = q.spec
    BY <1>2, <1>4, <2>1 DEF Release
  <2> QED BY <1>0, <1>3, <1>4, <2>1, <2>2
<1>5. CASE At(r, "put") /\ r \in relRV /\ release = [releases[i] EXCEPT !.spec = q.spec]
  <2>1. q.spec \in Valid
    BY <1>0, <1>5 DEF At, RequestOK
  <2>2. releases[i] # Absent /\ releases[i].spec.service = q.spec.service
    BY <1>5 DEF Inv, ReleaseHeld, Editing, At
  <2>3. release \in Release /\ release.spec = q.spec
    BY <1>1, <1>2, <1>5, <2>1, <2>2 DEF Release
  <2> QED BY <1>0, <1>3, <2>1, <2>2, <2>3
<1>6. CASE /\ At(r, "delete") /\ releases[i] # Absent
           /\ release = [releases[i] EXCEPT !.terminating = TRUE]
  <2>1. release \in Release /\ release.spec = releases[i].spec
    BY <1>1, <1>6 DEF Release
  <2> QED BY <1>0, <1>1, <1>3, <1>6, <2>1
<1> QED BY <1>4, <1>5, <1>6 DEF StoresRelease

(* A step of a request keeps the Releases well formed, valid, there and of  *)
(* their service.                                                           *)
LEMMA RequestStepReleases ==
  ASSUME Inv, NEW r \in Requests, RequestStep(r)
  PROVE  /\ releases' \in [Instances -> ReleaseOrAbsent] /\ StoredSpecsValid'
         /\ \A i \in Instances : releases[i] # Absent =>
              releases'[i] # Absent /\ releases'[i].spec.service = releases[i].spec.service
<1>1. CASE UNCHANGED releases
  BY <1>1 DEF Inv, TypeOK, StoredSpecsValid, Present
<1>2. ASSUME NEW release, StoresRelease(r, release)
      PROVE  /\ releases' \in [Instances -> ReleaseOrAbsent] /\ StoredSpecsValid'
             /\ \A i \in Instances : releases[i] # Absent =>
                  releases'[i] # Absent /\ releases'[i].spec.service = releases[i].spec.service
  <2> DEFINE n == requests[r].name
  <2>1. /\ n \in Instances /\ release \in Release /\ release # Absent /\ release.spec \in Valid
        /\ releases[n] # Absent => release.spec.service = releases[n].spec.service
    BY <1>2, StoredRelease
  <2>2. releases' = [releases EXCEPT ![n] = release]
    BY <1>2 DEF StoresRelease, PutRelease
  <2> HIDE DEF n
  <2>3. releases' \in [Instances -> ReleaseOrAbsent]
    BY <2>1, <2>2 DEF Inv, TypeOK, ReleaseOrAbsent
  <2>4. ASSUME NEW i \in Instances
        PROVE  /\ releases[i] # Absent =>
                    releases'[i] # Absent /\ releases'[i].spec.service = releases[i].spec.service
               /\ releases'[i] # Absent => releases'[i].spec \in Valid
    <3>1. CASE i = n
      BY <2>1, <2>2, <3>1 DEF Inv, TypeOK
    <3>2. CASE i # n
      BY <2>2, <3>2 DEF Inv, TypeOK, StoredSpecsValid, Present
    <3> QED BY <3>1, <3>2
  <2> QED BY <2>3, <2>4 DEF StoredSpecsValid, Present
<1> QED BY <1>1, <1>2, ReleaseSteps

(* UIDs and resource versions in the hands of other requests are theirs as  *)
(* before; what r holds is of the Release that it read.                     *)
LEMMA RequestStepVersions ==
  ASSUME Inv, NEW r \in Requests, RequestStep(r)
  PROVE  /\ relUID \ {r} \subseteq relUID' /\ relUID' \subseteq relUID \cup {r}
         /\ relRV' \subseteq relRV \cup {r}
         /\ r \in relRV' => r \in relUID' /\ requests'[r].pc = "put"
         /\ r \in relUID' /\ Editing(requests'[r]) =>
              /\ UNCHANGED releases /\ releases[requests'[r].name] # Absent
              /\ releases[requests'[r].name].spec.service = requests'[r].spec.service
<1> DEFINE q == requests[r]
           Goal == /\ relUID \ {r} \subseteq relUID' /\ relUID' \subseteq relUID \cup {r}
                   /\ relRV' \subseteq relRV \cup {r}
                   /\ r \in relRV' => r \in relUID' /\ requests'[r].pc = "put"
                   /\ r \in relUID' /\ Editing(requests'[r]) =>
                        /\ UNCHANGED releases /\ releases[requests'[r].name] # Absent
                        /\ releases[requests'[r].name].spec.service = requests'[r].spec.service
<1>0. /\ q \in Request /\ RequestOK(q) /\ requests \in [Requests -> Request]
      /\ r \in relRV => q.pc = "put"
  BY DEF Inv, TypeOK, RequestsOK, ReleaseHeld
<1>1. Done(r) => requests'[r].pc = "idle"
  BY <1>0 DEF Done, IdleRequest, NewRequest
<1>2. CASE GetRelease(r)
  <2>1. UNCHANGED <<releases, relRV>> /\ r \notin relRV /\ q.pc = "get" /\ q.name \in Instances
    BY <1>0, <1>2 DEF GetRelease, At, RequestOK
  <2>2. CASE Done(r) /\ relUID' = relUID \ {r}
    BY <1>1, <2>1, <2>2 DEF Editing
  <2>3. CASE /\ releases[q.name] # Absent /\ relUID' = relUID \cup {r}
             /\ requests' = [requests EXCEPT ![r].pc = "validate",
                                             ![r].spec = MergedSpec(q, releases[q.name].spec)]
    <3>1. releases[q.name].spec \in ReleaseSpec
      BY <2>1, <2>3 DEF Inv, TypeOK, ReleaseOrAbsent, Release
    <3>2. MergedSpec(q, releases[q.name].spec).service = releases[q.name].spec.service
      BY <1>0, <3>1, MergedSpecType
    <3>3. requests'[r].name = q.name /\ requests'[r].spec = MergedSpec(q, releases[q.name].spec)
      BY <1>0, <2>3 DEF Request
    <3> QED BY <2>1, <2>3, <3>2, <3>3
  <2> QED BY <1>2, <2>2, <2>3 DEF GetRelease
<1>3. CASE ValidateUpdate(r) \/ GetResourceVersion(r)
  <2>1. UNCHANGED <<releases, relUID>> /\ r \notin relRV /\ Editing(q)
    BY <1>0, <1>3 DEF ValidateUpdate, GetResourceVersion, SameReleases, At, Editing
  <2>2. r \in relUID =>
          releases[q.name] # Absent /\ releases[q.name].spec.service = q.spec.service
    BY <2>1 DEF Inv, ReleaseHeld
  <2>3. CASE Done(r)
    <3>1. UNCHANGED relRV
      BY <1>3, <1>1, <2>3, <1>0 DEF ValidateUpdate, GetResourceVersion, SameReleases, Goto, Request
    <3> QED BY <1>1, <2>1, <2>3, <3>1 DEF Editing
  <2>4. CASE ~Done(r)
    <3>1. \/ Goto(r, "rvGet") /\ UNCHANGED relRV
          \/ Goto(r, "put") /\ relRV' = relRV \cup ({r} \cap relUID)
      BY <1>3, <2>4 DEF ValidateUpdate, GetResourceVersion, SameReleases
    <3>2. /\ requests'[r].name = q.name /\ requests'[r].spec = q.spec
          /\ relRV' # relRV => requests'[r].pc = "put"
          /\ relRV' \subseteq relRV \cup ({r} \cap relUID)
      BY <1>0, <3>1 DEF Goto, Request
    <3> QED BY <2>1, <2>2, <3>2
  <2> QED BY <2>3, <2>4
<1>4. CASE CreateRelease(r) \/ UpdateRelease(r) \/ DeleteAnswerLost(r) \/ DeleteRelease(r)
  <2>1. /\ requests'[r].pc \in {"idle", "client"}
    BY <1>0, <1>1, <1>4 DEF CreateRelease, UpdateRelease, DeleteAnswerLost, DeleteRelease, Request
  <2>2. CASE UNCHANGED <<relUID, relRV>> /\ r \notin relRV
    BY <2>1, <2>2 DEF Editing
  <2>3. ASSUME NEW release, StoresRelease(r, release) PROVE Goal
    <3>1. release # Absent
      BY <2>3, StoredRelease
    <3> QED BY <2>1, <2>3, <3>1 DEF StoresRelease, PutRelease, Editing
  <2>4. (UNCHANGED <<relUID, relRV>> /\ r \notin relRV) \/ \E release : StoresRelease(r, release)
    BY <1>0, <1>4 DEF CreateRelease, UpdateRelease, DeleteAnswerLost, DeleteRelease, SameReleases,
                      StoresRelease, At
  <2> QED BY <2>2, <2>3, <2>4
<1>5. CASE CallFails(r)
  BY <1>1, <1>5 DEF CallFails, Editing
<1>6. CASE \/ SubmitDeploy(r) \/ CheckDeploy(r) \/ SubmitUpdate(r) \/ SubmitDelete(r)
           \/ DeleteClient(r) \/ DeleteClientFails(r) \/ ListSurvivors(r) \/ ListSurvivorsFails(r)
           \/ ListObjects(r) \/ ListObjectsFails(r) \/ DeleteObject(r) \/ DeleteObjectFails(r)
           \/ SweepEnds(r)
  <2>1. UNCHANGED <<relUID, relRV>> /\ r \notin relRV
    BY <1>0, <1>6 DEF SubmitDeploy, CheckDeploy, SubmitUpdate, SubmitDelete, DeleteClient,
         DeleteClientFails, ListSurvivors, ListSurvivorsFails, ListObjects, ListObjectsFails,
         DeleteObject, DeleteObjectFails, SweepEnds, SameReleases, At
  <2>2. ~Editing(requests'[r])
    <3>1. CASE SubmitDeploy(r) \/ SubmitUpdate(r) \/ SubmitDelete(r)
      BY <1>0, <3>1 DEF SubmitDeploy, SubmitUpdate, SubmitDelete, NewRequest, Editing
    <3>2. CASE \/ CheckDeploy(r) \/ DeleteClient(r) \/ DeleteClientFails(r)
               \/ ListSurvivors(r) \/ ListObjects(r)
      <4>1. CASE CheckDeploy(r)
        BY <1>0, <4>1 DEF CheckDeploy, Request, Editing
      <4>2. CASE DeleteClient(r) \/ DeleteClientFails(r)
        BY <1>0, <4>2 DEF DeleteClient, DeleteClientFails, Goto, Request, Editing
      <4>3. CASE ListSurvivors(r)
        BY <1>0, <4>3 DEF ListSurvivors, Request, Editing
      <4>4. CASE ListObjects(r)
        <5>1. \E doomed : requests' = [requests EXCEPT ![r].pc = "sweep", ![r].doomed = doomed]
          BY <4>4 DEF ListObjects
        <5> QED BY <1>0, <5>1 DEF Request, Editing
      <4> QED BY <3>2, <4>1, <4>2, <4>3, <4>4
    <3>3. CASE ListSurvivorsFails(r) \/ ListObjectsFails(r) \/ SweepEnds(r)
      BY <1>0, <1>1, <3>3 DEF ListSurvivorsFails, ListObjectsFails, SweepEnds, NextKind, Request, Editing
    <3>4. CASE DeleteObject(r) \/ DeleteObjectFails(r)
      BY <1>0, <3>4 DEF DeleteObject, DeleteObjectFails, At, Request, Editing
    <3> QED BY <1>6, <3>1, <3>2, <3>3, <3>4
  <2> QED BY <2>1, <2>2
<1> QED BY <1>2, <1>3, <1>4, <1>5, <1>6 DEF RequestStep, DeployStep, UpdateStep, DeleteStep

-----------------------------------------------------------------------------
(* Pods, volumes and clients *)

(* A step of a request deletes at most one object, which its clean-up has   *)
(* doomed.                                                                  *)
LEMMA RequestStepObjects ==
  ASSUME NEW r \in Requests, RequestStep(r)
  PROVE  \/ UNCHANGED objects
         \/ /\ requests[r].pc = "sweep"
            /\ \E o \in requests[r].doomed : objects' = [objects EXCEPT ![requests[r].kind][o] = Absent]
  BY DEF RequestStep, DeployStep, UpdateStep, DeleteStep, SubmitDeploy, CheckDeploy, CreateRelease,
         SubmitUpdate, GetRelease, ValidateUpdate, GetResourceVersion, UpdateRelease, SubmitDelete,
         DeleteRelease, DeleteAnswerLost, DeleteClient, DeleteClientFails, ListSurvivors,
         ListSurvivorsFails, ListObjects, ListObjectsFails, DeleteObject, DeleteObjectFails,
         SweepEnds, CallFails, SameLeftovers, At

(* The rest of the state stays well formed. *)
LEMMA RequestStepLeftovers ==
  ASSUME Inv, NEW r \in Requests, RequestStep(r)
  PROVE  /\ clients' \subseteq Instances /\ clientDebris' \subseteq Instances
         /\ debris' \subseteq Kinds \X ObjectNames
<1>0. clients \subseteq Instances /\ clientDebris \subseteq Instances /\ debris \subseteq Kinds \X ObjectNames
  BY DEF Inv, TypeOK
<1>1. requests[r].kind \in Kinds /\ requests[r].doomed \subseteq ObjectNames
  BY DEF Inv, TypeOK, Request
<1>2. \A i : ObjectsOf(i) \subseteq Kinds \X ObjectNames
  BY DEF ObjectsOf
<1>3. CASE SameLeftovers
  BY <1>0, <1>3 DEF SameLeftovers
<1>4. CASE DeleteAnswerLost(r) \/ DeleteClient(r) \/ DeleteClientFails(r)
  BY <1>0, <1>2, <1>4 DEF DeleteAnswerLost, DeleteClient, DeleteClientFails
<1>5. CASE ListSurvivorsFails(r) \/ ListObjectsFails(r)
  BY <1>0, <1>2, <1>5 DEF ListSurvivorsFails, ListObjectsFails
<1>6. CASE ListObjects(r)
  <2>1. /\ UNCHANGED <<clients, clientDebris>>
        /\ \E spared \in SUBSET ObjectNames :
             debris' = debris \cup {<<requests[r].kind, o>> : o \in spared}
    BY <1>6 DEF ListObjects
  <2> QED BY <1>0, <1>1, <2>1
<1>7. CASE DeleteObject(r) \/ DeleteObjectFails(r)
  <2>1. UNCHANGED <<clients, clientDebris>>
    BY <1>7 DEF DeleteObject, DeleteObjectFails
  <2>2. PICK o \in requests[r].doomed : debris' \subseteq debris \cup {<<requests[r].kind, o>>}
    BY <1>7 DEF DeleteObject, DeleteObjectFails
  <2> QED BY <1>0, <1>1, <2>1, <2>2
<1> QED BY <1>3, <1>4, <1>5, <1>6, <1>7
  DEF RequestStep, DeployStep, UpdateStep, DeleteStep, SubmitDeploy, CheckDeploy, CreateRelease,
      SubmitUpdate, GetRelease, ValidateUpdate, GetResourceVersion, UpdateRelease, SubmitDelete,
      DeleteRelease, ListSurvivors, SweepEnds, CallFails

-----------------------------------------------------------------------------
(* The inductive invariant *)

(* Every step of a request keeps it. *)
LEMMA RequestStepInv ==
  ASSUME Inv, NEW r \in Requests, RequestStep(r)
  PROVE  Inv'
<1>1. PICK q : Moves(r, q)
  BY RequestStepMoves
<1>2. /\ requests' \in [Requests -> Request] /\ requests'[r] = q /\ RequestsOK'
      /\ \A d \in Requests : d # r => requests'[d] = requests[d]
      /\ \A d \in Requests : requests'[d].settled \subseteq Present
  BY <1>1, MovesKeep
<1>3. /\ releases' \in [Instances -> ReleaseOrAbsent] /\ StoredSpecsValid'
      /\ \A i \in Instances : releases[i] # Absent =>
           releases'[i] # Absent /\ releases'[i].spec.service = releases[i].spec.service
  BY RequestStepReleases
<1>4. Present \subseteq Present'
  BY <1>3 DEF Present
<1>5. SettledPresent'
  BY <1>2, <1>4 DEF SettledPresent
<1>6. objects' \in [Kinds -> [ObjectNames -> Instances \cup {Absent}]] /\ NamedAfterMaker'
  <2>1. CASE UNCHANGED objects
    BY <2>1 DEF Inv, TypeOK, NamedAfterMaker
  <2>2. ASSUME NEW o \in requests[r].doomed,
               objects' = [objects EXCEPT ![requests[r].kind][o] = Absent]
        PROVE  objects' \in [Kinds -> [ObjectNames -> Instances \cup {Absent}]] /\ NamedAfterMaker'
    <3>1. requests[r].kind \in Kinds /\ o \in ObjectNames
      BY DEF Inv, TypeOK, Request
    <3>2. objects' \in [Kinds -> [ObjectNames -> Instances \cup {Absent}]]
      BY <2>2, <3>1 DEF Inv, TypeOK
    <3>3. \A k \in Kinds, p \in ObjectNames : objects'[k][p] \in {objects[k][p], Absent}
      BY <2>2, <3>1 DEF Inv, TypeOK
    <3> QED BY <3>2, <3>3 DEF Inv, NamedAfterMaker
  <2> QED BY <2>1, <2>2, RequestStepObjects
<1>7. /\ relUID \ {r} \subseteq relUID' /\ relUID' \subseteq relUID \cup {r}
      /\ relRV' \subseteq relRV \cup {r}
      /\ r \in relRV' => r \in relUID' /\ requests'[r].pc = "put"
      /\ r \in relUID' /\ Editing(requests'[r]) =>
           /\ UNCHANGED releases /\ releases[requests'[r].name] # Absent
           /\ releases[requests'[r].name].spec.service = requests'[r].spec.service
  BY RequestStepVersions
<1>8. relUID' \subseteq Requests /\ relRV' \subseteq Requests
  BY <1>7 DEF Inv, TypeOK
<1>9. ReleaseHeld'
  <2>1. ASSUME NEW d \in relUID', Editing(requests'[d])
        PROVE  /\ releases'[requests'[d].name] # Absent
               /\ releases'[requests'[d].name].spec.service = requests'[d].spec.service
    <3>1. CASE d = r
      BY <1>7, <2>1, <3>1
    <3>2. CASE d # r
      <4>1. d \in relUID /\ requests'[d] = requests[d] /\ d \in Requests
        BY <1>2, <1>7, <1>8, <3>2
      <4>2. requests[d].name \in Instances
        BY <2>1, <4>1 DEF Inv, RequestsOK, RequestOK, Editing
      <4> QED BY <1>3, <2>1, <4>1, <4>2 DEF Inv, ReleaseHeld
    <3> QED BY <3>1, <3>2
  <2>2. ASSUME NEW d \in relRV' PROVE d \in relUID' /\ requests'[d].pc = "put"
    <3>1. CASE d = r
      BY <1>7, <3>1, <2>2
    <3>2. CASE d # r
      BY <1>2, <1>7, <1>8, <3>2 DEF Inv, ReleaseHeld
    <3> QED BY <3>1, <3>2
  <2> QED BY <2>1, <2>2 DEF ReleaseHeld
<1>10. TypeOK'
  BY <1>2, <1>3, <1>6, <1>8, RequestStepLeftovers DEF TypeOK
<1> QED BY <1>2, <1>3, <1>5, <1>6, <1>9, <1>10 DEF Inv

(* So do the packages and their hubs. *)
LEMMA PackagesInv ==
  ASSUME Inv, NEW i \in Instances,
         Register(i) \/ \E u \in Endings, k \in Kinds : Spawn(i, u, k)
  PROVE  Inv'
<1>1. CASE Register(i)
  BY <1>1 DEF Register, SameReleases, Inv, TypeOK, RequestsOK, StoredSpecsValid, SettledPresent,
              Present, NamedAfterMaker, ReleaseHeld
<1>2. ASSUME NEW u \in Endings, NEW k \in Kinds, Spawn(i, u, k) PROVE Inv'
  <2>1. i \o u \in ObjectNames /\ IsPrefix(i, i \o u)
    BY ObjectName
  <2> DEFINE o == i \o u
  <2>2. objects' = [objects EXCEPT ![k][o] = i]
    BY <1>2 DEF Spawn
  <2>3. debris' \subseteq debris \cup {<<k, o>>} /\ UNCHANGED <<clients, requests, clientDebris>> /\ SameReleases
    BY <1>2 DEF Spawn
  <2> HIDE DEF o
  <2>4. o \in ObjectNames /\ IsPrefix(i, o)
    BY <2>1 DEF o
  <2>5. objects' \in [Kinds -> [ObjectNames -> Instances \cup {Absent}]]
    BY <2>2, <2>4 DEF Inv, TypeOK
  <2>6. ASSUME NEW l \in Kinds, NEW p \in ObjectNames, objects'[l][p] # Absent
        PROVE  IsPrefix(objects'[l][p], p)
    <3>1. CASE l = k /\ p = o
      <4>1. objects'[l][p] = i
        BY <2>2, <2>4, <3>1 DEF Inv, TypeOK
      <4> QED BY <2>4, <3>1, <4>1
    <3>2. CASE ~(l = k /\ p = o)
      <4>1. objects'[l][p] = objects[l][p]
        BY <2>2, <2>4, <3>2 DEF Inv, TypeOK
      <4> QED BY <2>6, <4>1 DEF Inv, NamedAfterMaker
    <3> QED BY <3>1, <3>2
  <2>7. NamedAfterMaker'
    BY <2>6 DEF NamedAfterMaker
  <2>8. TypeOK'
    BY <2>3, <2>4, <2>5 DEF Inv, TypeOK, SameReleases
  <2> QED BY <2>3, <2>7, <2>8 DEF Inv, RequestsOK, StoredSpecsValid, SettledPresent, Present,
                                 ReleaseHeld, SameReleases
<1> QED BY <1>1, <1>2

(* So does the controller when it has taken a release down. *)
LEMMA FinalizeInv ==
  ASSUME Inv, NEW i \in Instances, Finalize(i)
  PROVE  Inv'
<1>1. /\ requests' = [r \in Requests |-> [requests[r] EXCEPT !.settled = @ \ {i}]]
      /\ releases' = [releases EXCEPT ![i] = Absent]
      /\ relUID' = {r \in relUID : requests[r].name # i}
      /\ relRV' = {r \in relRV : requests[r].name # i}
      /\ debris' \subseteq debris /\ UNCHANGED <<clients, clientDebris>>
  BY DEF Finalize, PutRelease
<1>2. ASSUME NEW r \in Requests
      PROVE  /\ requests'[r] \in Request /\ requests'[r].settled = requests[r].settled \ {i}
             /\ requests'[r].pc = requests[r].pc /\ requests'[r].name = requests[r].name
             /\ requests'[r].service = requests[r].service /\ requests'[r].value = requests[r].value
             /\ requests'[r].spec = requests[r].spec /\ requests'[r].others = requests[r].others
             /\ requests'[r].doomed = requests[r].doomed /\ requests'[r].kind = requests[r].kind
  BY <1>1 DEF Inv, TypeOK, Request
<1>3. RequestsOK'
  <2>1. ASSUME NEW r \in Requests PROVE RequestOK(requests'[r])
    <3>1. RequestOK(requests[r])
      BY DEF Inv, RequestsOK
    <3> QED BY <1>2, <3>1 DEF RequestOK
  <2> QED BY <2>1 DEF RequestsOK
<1>4. releases' \in [Instances -> ReleaseOrAbsent] /\ Present' = Present \ {i}
  BY <1>1 DEF Inv, TypeOK, ReleaseOrAbsent, Present
<1>5. StoredSpecsValid'
  BY <1>1, <1>4 DEF Inv, TypeOK, StoredSpecsValid, Present
<1>6. SettledPresent'
  BY <1>2, <1>4 DEF Inv, SettledPresent
<1>7. objects' \in [Kinds -> [ObjectNames -> Instances \cup {Absent}]] /\ NamedAfterMaker'
  <2>1. objects' = [k \in Kinds |-> [o \in ObjectNames |->
                     IF o = i /\ objects[k][o] = i THEN Absent ELSE objects[k][o]]]
    BY DEF Finalize
  <2>2. objects' \in [Kinds -> [ObjectNames -> Instances \cup {Absent}]]
    BY <2>1 DEF Inv, TypeOK
  <2>3. \A k \in Kinds, o \in ObjectNames : objects'[k][o] \in {objects[k][o], Absent}
    BY <2>1
  <2> QED BY <2>2, <2>3 DEF Inv, NamedAfterMaker
<1>8. requests' \in [Requests -> Request]
  BY <1>1, <1>2
<1>9. ReleaseHeld'
  <2>1. ASSUME NEW d \in relUID', Editing(requests'[d])
        PROVE  /\ releases'[requests'[d].name] # Absent
               /\ releases'[requests'[d].name].spec.service = requests'[d].spec.service
    <3>1. d \in relUID /\ d \in Requests /\ requests[d].name # i /\ Editing(requests[d])
      BY <1>1, <1>2, <2>1 DEF Inv, TypeOK, Editing
    <3>2. requests[d].name \in Instances
      BY <3>1 DEF Inv, RequestsOK, RequestOK, Editing
    <3>3. releases'[requests[d].name] = releases[requests[d].name]
      BY <1>1, <3>1, <3>2 DEF Inv, TypeOK
    <3> QED BY <1>2, <3>1, <3>3 DEF Inv, ReleaseHeld
  <2>2. ASSUME NEW d \in relRV' PROVE d \in relUID' /\ requests'[d].pc = "put"
    <3>1. d \in relRV /\ d \in Requests /\ requests[d].name # i
      BY <1>1 DEF Inv, TypeOK
    <3> QED BY <1>1, <1>2, <3>1 DEF Inv, ReleaseHeld
  <2> QED BY <2>1, <2>2 DEF ReleaseHeld
<1>10. TypeOK'
  BY <1>1, <1>4, <1>7, <1>8 DEF Inv, TypeOK
<1> QED BY <1>3, <1>5, <1>6, <1>7, <1>9, <1>10 DEF Inv

(* The namespace starts in the invariant. *)
LEMMA InitInv == Init => Inv
<1> SUFFICES ASSUME Init PROVE Inv
  OBVIOUS
<1>1. TypeOK
  BY IdleOK DEF Init, TypeOK, ReleaseOrAbsent
<1>2. RequestsOK /\ SettledPresent
  BY IdleOK DEF Init, RequestsOK, SettledPresent
<1> QED BY <1>1, <1>2 DEF Init, Inv, StoredSpecsValid, Present, NamedAfterMaker, ReleaseHeld

(* Every step keeps it. *)
LEMMA NextInv == Inv /\ [Next]_vars => Inv'
<1> SUFFICES ASSUME Inv, [Next]_vars PROVE Inv'
  OBVIOUS
<1>1. CASE Next
  BY <1>1, RequestStepInv, PackagesInv, FinalizeInv DEF Next, RequestStep
<1>2. CASE UNCHANGED vars
  BY <1>2 DEF vars, Inv, TypeOK, RequestsOK, StoredSpecsValid, SettledPresent, Present,
              NamedAfterMaker, ReleaseHeld
<1> QED BY <1>1, <1>2

(* So it always holds. *)
LEMMA AlwaysInv == Spec => []Inv
  BY InitInv, NextInv, PTL DEF Spec

-----------------------------------------------------------------------------
(* What a deleted release leaves behind *)

(* The release is not there, or being taken down. *)
Going(i) == releases[i] = Absent \/ releases[i].terminating

(* The clean-up of request q, which is of i, has still to come to o. *)
ComesTo(q, k, o, i) ==
  /\ q.name = i
  /\ \/ q.pc \in {"client", "survivors"}
     \/ q.pc \in {"list", "sweep"} /\ q.kind = "pod" /\ k = "pvc"
     \/ q.pc = "list" /\ q.kind = k
     \/ q.pc = "sweep" /\ q.kind = k /\ o \in q.doomed

(* Already while a release is being taken down, its objects and its client  *)
(* are on record as left behind or a clean-up has still to come to them: by *)
(* the time it is gone it is too late to see to that.                       *)
ObjectsAccounted ==
  \A k \in Kinds, o \in ObjectNames :
    objects[k][o] # Absent /\ Going(objects[k][o]) =>
      <<k, o>> \in debris \/ \E d \in Requests : ComesTo(requests[d], k, o, objects[k][o])

ClientsAccounted ==
  \A i \in clients : Going(i) =>
    i \in clientDebris \/ \E d \in Requests : requests[d].pc = "client" /\ requests[d].name = i

Accounted == ObjectsAccounted /\ ClientsAccounted

(* It is enough that a request accounts for what it makes go, and for what  *)
(* it no longer comes to.                                                   *)
ObjectsAnswered(r) ==
  \A k \in Kinds, o \in ObjectNames :
    objects'[k][o] # Absent /\ Going(objects[k][o])' =>
      \/ <<k, o>> \in debris' \/ ComesTo(requests'[r], k, o, objects'[k][o])
      \/ /\ objects'[k][o] = objects[k][o] /\ Going(objects[k][o]) /\ <<k, o>> \notin debris
         /\ ~ComesTo(requests[r], k, o, objects[k][o])

ClientsAnswered(r) ==
  \A i \in clients' : Going(i)' =>
    \/ i \in clientDebris' \/ (requests'[r].pc = "client" /\ requests'[r].name = i)
    \/ /\ i \in clients /\ Going(i) /\ i \notin clientDebris
       /\ ~(requests[r].pc = "client" /\ requests[r].name = i)

LEMMA AnsweredAccounted ==
  ASSUME Inv, Accounted, NEW r \in Requests, RequestStep(r), ObjectsAnswered(r), ClientsAnswered(r)
  PROVE  Accounted'
<1>1. \A d \in Requests : d # r => requests'[d] = requests[d]
  BY RequestStepMoves, MovesKeep
<1>2. ASSUME NEW k \in Kinds, NEW o \in ObjectNames, objects'[k][o] # Absent, Going(objects[k][o])'
      PROVE  <<k, o>> \in debris' \/ \E d \in Requests : ComesTo(requests'[d], k, o, objects'[k][o])
  <2>1. CASE <<k, o>> \in debris' \/ ComesTo(requests'[r], k, o, objects'[k][o])
    BY <2>1
  <2>2. CASE /\ objects'[k][o] = objects[k][o] /\ Going(objects[k][o]) /\ <<k, o>> \notin debris
             /\ ~ComesTo(requests[r], k, o, objects[k][o])
    <3>1. PICK d \in Requests : ComesTo(requests[d], k, o, objects[k][o])
      BY <1>2, <2>2 DEF Accounted, ObjectsAccounted
    <3>2. d # r
      BY <2>2, <3>1
    <3> QED BY <1>1, <2>2, <3>1, <3>2
  <2> QED BY <1>2, <2>1, <2>2 DEF ObjectsAnswered
<1>3. ASSUME NEW i \in clients', Going(i)'
      PROVE  i \in clientDebris' \/ \E d \in Requests : requests'[d].pc = "client" /\ requests'[d].name = i
  <2>1. CASE i \in clientDebris' \/ (requests'[r].pc = "client" /\ requests'[r].name = i)
    BY <2>1
  <2>2. CASE /\ i \in clients /\ Going(i) /\ i \notin clientDebris
             /\ ~(requests[r].pc = "client" /\ requests[r].name = i)
    <3>1. PICK d \in Requests : requests[d].pc = "client" /\ requests[d].name = i
      BY <2>2 DEF Accounted, ClientsAccounted
    <3>2. d # r
      BY <2>2, <3>1
    <3> QED BY <1>1, <3>1, <3>2
  <2> QED BY <1>3, <2>1, <2>2 DEF ClientsAnswered
<1>4. ObjectsAccounted'
  BY <1>2 DEF ObjectsAccounted
<1>5. ClientsAccounted'
  BY <1>3 DEF ClientsAccounted
<1> QED BY <1>4, <1>5 DEF Accounted

(* Which releases a step of a request makes go: the one that it deletes. *)
LEMMA MakesGo ==
  ASSUME Inv, NEW r \in Requests, RequestStep(r), NEW i \in Instances, Going(i)', ~Going(i)
  PROVE  i = requests[r].name /\ requests[r].pc = "delete" /\ releases[i] # Absent
<1>1. PICK release : StoresRelease(r, release)
  BY ReleaseSteps DEF Going
<1> DEFINE q == requests[r]
<1>2. q.name \in Instances /\ release # Absent /\ releases' = [releases EXCEPT ![q.name] = release]
  BY <1>1, StoredRelease DEF StoresRelease, PutRelease
<1>3. i = q.name /\ releases'[i] = release /\ release.terminating
  BY <1>2 DEF Going, Inv, TypeOK
<1>4. releases[i] # Absent /\ ~releases[i].terminating
  BY DEF Going
<1>5. releases[i] \in Release
  BY <1>4 DEF Inv, TypeOK, ReleaseOrAbsent
<1>6. ~(At(r, "create") /\ release = [spec |-> q.spec, terminating |-> FALSE])
  BY <1>3
<1>7. release # [releases[i] EXCEPT !.spec = q.spec]
  <2>1. [releases[i] EXCEPT !.spec = q.spec].terminating = releases[i].terminating
    BY <1>5 DEF Release
  <2> QED BY <1>3, <1>4, <2>1
<1> QED BY <1>1, <1>3, <1>4, <1>6, <1>7 DEF StoresRelease, At

(* A step that touches neither objects nor clients, of a request that is    *)
(* not cleaning up and does not start to.                                   *)
Cleaning == {"client", "survivors", "list", "sweep"}

LEMMA QuietAnswered ==
  ASSUME Inv, NEW r \in Requests, RequestStep(r), SameLeftovers,
         requests[r].pc \notin Cleaning, requests[r].pc # "delete" \/ UNCHANGED releases
  PROVE  ObjectsAnswered(r) /\ ClientsAnswered(r)
<1>1. \A i \in Instances : Going(i)' => Going(i)
  BY MakesGo DEF Going
<1>2. \A k \in Kinds, o \in ObjectNames : ~ComesTo(requests[r], k, o, objects[k][o])
  BY DEF ComesTo, Cleaning
<1>3. requests[r].pc # "client"
  BY DEF Cleaning
<1>4. \A k \in Kinds, o \in ObjectNames : objects[k][o] # Absent => objects[k][o] \in Instances
  BY DEF Inv, TypeOK
<1>5. clients \subseteq Instances
  BY DEF Inv, TypeOK
<1>6. ObjectsAnswered(r)
  BY <1>1, <1>2, <1>4 DEF ObjectsAnswered, SameLeftovers
<1>7. ClientsAnswered(r)
  BY <1>1, <1>3, <1>5 DEF ClientsAnswered, SameLeftovers
<1> QED BY <1>6, <1>7

(* DeleteRelease makes the release go and turns to its clean-up; when its   *)
(* answer is lost, everything of the release is left behind.                *)
LEMMA DeletionAnswered ==
  ASSUME Inv, NEW r \in Requests, RequestStep(r), requests[r].pc = "delete",
         DeleteRelease(r) \/ DeleteAnswerLost(r)
  PROVE  ObjectsAnswered(r) /\ ClientsAnswered(r)
<1> DEFINE q == requests[r]
           n == q.name
<1>0. q \in Request /\ n \in Instances
  BY DEF Inv, TypeOK, RequestsOK, RequestOK
<1>1. CASE releases[n] = Absent
  <2>1. SameLeftovers /\ UNCHANGED releases
    BY <1>1 DEF DeleteRelease, DeleteAnswerLost, SameReleases
  <2> QED BY <2>1, QuietAnswered DEF Cleaning
<1>2. CASE releases[n] # Absent
  <2>1. \A i \in Instances : i # n /\ Going(i)' => Going(i)
    BY MakesGo
  <2>2. /\ UNCHANGED <<objects, clients>> /\ debris \subseteq debris' /\ clientDebris \subseteq clientDebris'
    BY <1>2 DEF DeleteRelease, DeleteAnswerLost, SameLeftovers
  <2>3. \A k \in Kinds, o \in ObjectNames :
          /\ objects[k][o] # Absent => objects[k][o] \in Instances
          /\ ~ComesTo(q, k, o, objects[k][o])
    BY DEF Inv, TypeOK, ComesTo
  <2>4. clients \subseteq Instances
    BY DEF Inv, TypeOK
  <2>5. CASE DeleteRelease(r)
    <3>1. requests' = [requests EXCEPT ![r].pc = "client", ![r].settled = Present \ {n}]
      BY <1>2, <2>5 DEF DeleteRelease
    <3>2. requests'[r].pc = "client" /\ requests'[r].name = n
      BY <1>0, <3>1 DEF Request, Inv, TypeOK
    <3>3. \A k, o : ComesTo(requests'[r], k, o, n)
      BY <3>2 DEF ComesTo
    <3>4. ObjectsAnswered(r)
      BY <2>1, <2>2, <2>3, <3>3 DEF ObjectsAnswered
    <3>5. ClientsAnswered(r)
      BY <2>1, <2>2, <2>4, <3>2 DEF ClientsAnswered
    <3> QED BY <3>4, <3>5
  <2>6. CASE DeleteAnswerLost(r)
    <3>1. debris' = debris \cup ObjectsOf(n) /\ clientDebris' = clientDebris \cup ({n} \cap clients)
      BY <2>6 DEF DeleteAnswerLost
    <3>2. \A k \in Kinds, o \in ObjectNames : objects[k][o] = n => <<k, o>> \in debris'
      BY <3>1 DEF ObjectsOf
    <3>3. ObjectsAnswered(r)
      BY <2>1, <2>2, <2>3, <3>2 DEF ObjectsAnswered
    <3>4. ClientsAnswered(r)
      BY <2>1, <2>2, <2>4, <3>1 DEF ClientsAnswered
    <3> QED BY <3>3, <3>4
  <2> QED BY <2>5, <2>6
<1> QED BY <1>1, <1>2

(* The clean-up of the client: it is gone or on record, the pods and        *)
(* volumes are still to come.                                               *)
LEMMA ClientStepAnswered ==
  ASSUME Inv, NEW r \in Requests, DeleteClient(r) \/ DeleteClientFails(r)
  PROVE  ObjectsAnswered(r) /\ ClientsAnswered(r)
<1> DEFINE q == requests[r]
           n == q.name
<1>0. q \in Request /\ q.pc = "client"
  BY DEF Inv, TypeOK, DeleteClient, DeleteClientFails, At
<1>1. requests'[r].pc = "survivors" /\ requests'[r].name = n
  BY <1>0 DEF DeleteClient, DeleteClientFails, Goto, Request, Inv, TypeOK
<1>2. UNCHANGED <<releases, objects, debris>>
  BY DEF DeleteClient, DeleteClientFails, SameReleases
<1>3. \A k, o, i : ComesTo(q, k, o, i) => ComesTo(requests'[r], k, o, i)
  BY <1>1 DEF ComesTo
<1>4. ObjectsAnswered(r)
  BY <1>2, <1>3 DEF ObjectsAnswered, Going
<1>5. /\ clients' \subseteq clients /\ clientDebris \ {n} \subseteq clientDebris'
      /\ n \in clients' => n \in clientDebris'
  BY DEF DeleteClient, DeleteClientFails
<1>6. ClientsAnswered(r)
  BY <1>2, <1>5 DEF ClientsAnswered, Going
<1> QED BY <1>4, <1>6

(* In the clean-up of the objects no client and no release changes. *)
LEMMA SweepClients ==
  ASSUME NEW r \in Requests, UNCHANGED <<releases, clients, clientDebris>>, requests[r].pc # "client"
  PROVE  ClientsAnswered(r)
  BY DEF ClientsAnswered, Going

(* The listing of the survivors: all is still to come, or left behind. *)
LEMMA SurvivorsAnswered ==
  ASSUME Inv, NEW r \in Requests, ListSurvivors(r) \/ ListSurvivorsFails(r)
  PROVE  ObjectsAnswered(r) /\ ClientsAnswered(r)
<1> DEFINE q == requests[r]
           n == q.name
<1>0. q \in Request /\ q.pc = "survivors"
  BY DEF Inv, TypeOK, ListSurvivors, ListSurvivorsFails, At
<1>1. UNCHANGED <<releases, objects, clients, clientDebris>> /\ debris \subseteq debris'
  BY DEF ListSurvivors, ListSurvivorsFails, SameReleases, SameLeftovers
<1>2. ClientsAnswered(r)
  BY <1>0, <1>1, SweepClients
<1>3. CASE ListSurvivors(r)
  <2>1. requests'[r].pc = "list" /\ requests'[r].name = n /\ requests'[r].kind = q.kind
    BY <1>0, <1>3 DEF ListSurvivors, Request, Inv, TypeOK
  <2>2. q.kind = "pod"
    BY <1>0 DEF Inv, RequestsOK, RequestOK
  <2>3. \A k \in Kinds : \A o, i : ComesTo(q, k, o, i) => ComesTo(requests'[r], k, o, i)
    BY <2>1, <2>2 DEF ComesTo, Kinds
  <2> QED BY <1>1, <1>2, <2>3 DEF ObjectsAnswered, Going
<1>4. CASE ListSurvivorsFails(r)
  <2>1. debris' = debris \cup ObjectsOf(n)
    BY <1>4 DEF ListSurvivorsFails
  <2>2. \A k \in Kinds, o \in ObjectNames : objects[k][o] = n => <<k, o>> \in debris'
    BY <2>1 DEF ObjectsOf
  <2>3. \A k, o, i : ComesTo(q, k, o, i) => i = n
    BY DEF ComesTo
  <2>4. ObjectsAnswered(r)
    BY <1>1, <2>2, <2>3 DEF ObjectsAnswered, Going
  <2> QED BY <1>2, <2>4
<1> QED BY <1>3, <1>4

(* The listing of the objects of a kind: what it does not doom is left      *)
(* behind.                                                                  *)
LEMMA ListAnswered ==
  ASSUME Inv, NEW r \in Requests, ListObjects(r)
  PROVE  ObjectsAnswered(r) /\ ClientsAnswered(r)
<1> DEFINE q == requests[r]
           n == q.name
           there == {o \in ObjectNames : objects[q.kind][o] # Absent}
           doomed == {o \in there : OwnsByName(o, n, q.others)}
           spared == {p \in there \ doomed : objects[q.kind][p] = n}
<1>0. q \in Request /\ q.pc = "list" /\ q.kind \in Kinds
  BY DEF Inv, TypeOK, ListObjects, At, Request
<1>1. UNCHANGED <<releases, objects, clients, clientDebris>>
  BY DEF ListObjects, SameReleases
<1>2. requests' = [requests EXCEPT ![r].pc = "sweep", ![r].doomed = doomed]
  BY DEF ListObjects
<1>3. debris' = debris \cup {<<q.kind, o>> : o \in spared}
  BY DEF ListObjects
<1>4. \A o \in ObjectNames : objects[q.kind][o] = n /\ n # Absent => o \in doomed \/ o \in spared
  OBVIOUS
<1>5. n # Absent
  BY <1>0, ReleasesAssumption DEF Inv, RequestsOK, RequestOK
<1> HIDE DEF doomed, spared
<1>6. /\ requests'[r].pc = "sweep" /\ requests'[r].name = n /\ requests'[r].kind = q.kind
      /\ requests'[r].doomed = doomed
  BY <1>0, <1>2 DEF Request, Inv, TypeOK
<1>7. ASSUME NEW k \in Kinds, NEW o \in ObjectNames, ComesTo(q, k, o, objects[k][o])
      PROVE  <<k, o>> \in debris' \/ ComesTo(requests'[r], k, o, objects[k][o])
  <2>1. objects[k][o] = n
    BY <1>7 DEF ComesTo
  <2>2. CASE k = q.kind
    <3>1. CASE o \in doomed
      BY <1>6, <2>1, <2>2, <3>1 DEF ComesTo
    <3>2. CASE o \in spared
      BY <1>3, <2>2, <3>2
    <3> QED BY <1>4, <1>5, <2>1, <2>2, <3>1, <3>2
  <2>3. CASE k # q.kind
    <3>1. q.kind = "pod" /\ k = "pvc"
      BY <1>0, <1>7, <2>3 DEF ComesTo
    <3> QED BY <1>6, <2>1, <3>1 DEF ComesTo
  <2> QED BY <2>2, <2>3
<1>8. ObjectsAnswered(r)
  <2>1. debris \subseteq debris'
    BY <1>3
  <2> QED BY <1>1, <1>7, <2>1 DEF ObjectsAnswered, Going
<1> QED BY <1>0, <1>1, <1>8, SweepClients

(* On to the volumes: they are still to come. *)
LEMMA NextKindComes ==
  ASSUME Inv, NEW r \in Requests, requests[r].pc \in {"list", "sweep"}, NextKind(r),
         NEW k \in Kinds, k # requests[r].kind, NEW o, NEW i, ComesTo(requests[r], k, o, i)
  PROVE  ComesTo(requests'[r], k, o, i)
<1> DEFINE q == requests[r]
<1>1. q.kind = "pod" /\ k = "pvc" /\ q.name = i
  BY DEF ComesTo
<1>2. requests' = [requests EXCEPT ![r].pc = "list", ![r].kind = "pvc", ![r].doomed = {}]
  BY <1>1 DEF NextKind
<1>3. requests'[r].pc = "list" /\ requests'[r].name = i /\ requests'[r].kind = k
  BY <1>1, <1>2 DEF Inv, TypeOK, Request
<1> QED BY <1>3 DEF ComesTo

(* A kind is done: there is none left, or the listing has failed and they   *)
(* are left behind.                                                         *)
LEMMA KindDoneAnswered ==
  ASSUME Inv, NEW r \in Requests, ListObjectsFails(r) \/ SweepEnds(r)
  PROVE  ObjectsAnswered(r) /\ ClientsAnswered(r)
<1> DEFINE q == requests[r]
           n == q.name
<1>0. q \in Request /\ q.pc \in {"list", "sweep"} /\ NextKind(r)
  BY DEF Inv, TypeOK, ListObjectsFails, SweepEnds, At
<1>1. UNCHANGED <<releases, objects, clients, clientDebris>> /\ debris \subseteq debris'
  BY DEF ListObjectsFails, SweepEnds, SameReleases, SameLeftovers
<1>2. ASSUME NEW k \in Kinds, NEW o \in ObjectNames, ComesTo(q, k, o, objects[k][o])
      PROVE  <<k, o>> \in debris' \/ ComesTo(requests'[r], k, o, objects[k][o])
  <2>1. CASE k # q.kind
    BY <1>0, <1>2, <2>1, NextKindComes
  <2>2. CASE k = q.kind
    <3>1. objects[k][o] = n
      BY <1>2 DEF ComesTo
    <3>2. CASE ListObjectsFails(r)
      <4>1. debris' = debris \cup {x \in ObjectsOf(n) : x[1] = q.kind}
        BY <3>2 DEF ListObjectsFails
      <4> QED BY <2>2, <3>1, <4>1 DEF ObjectsOf
    <3>3. CASE SweepEnds(r)
      <4>1. q.pc = "sweep" /\ q.doomed = {}
        BY <3>3 DEF SweepEnds, At
      <4> QED BY <1>2, <2>2, <4>1 DEF ComesTo
    <3> QED BY <3>2, <3>3
  <2> QED BY <2>1, <2>2
<1>3. ObjectsAnswered(r)
  BY <1>1, <1>2 DEF ObjectsAnswered, Going
<1> QED BY <1>0, <1>1, <1>3, SweepClients

(* A doomed object is deleted, or left behind if it is there. *)
LEMMA SweepAnswered ==
  ASSUME Inv, NEW r \in Requests, DeleteObject(r) \/ DeleteObjectFails(r)
  PROVE  ObjectsAnswered(r) /\ ClientsAnswered(r)
<1> DEFINE q == requests[r]
<1>0. q \in Request /\ q.pc = "sweep" /\ q.kind \in Kinds /\ q.doomed \subseteq ObjectNames
  BY DEF Inv, TypeOK, DeleteObject, DeleteObjectFails, At, Request
<1>1. UNCHANGED <<releases, clients, clientDebris>>
  BY DEF DeleteObject, DeleteObjectFails, SameReleases
<1>2. PICK p \in q.doomed :
        /\ requests' = [requests EXCEPT ![r].doomed = @ \ {p}]
        /\ \/ /\ objects' = [objects EXCEPT ![q.kind][p] = Absent]
              /\ debris' = debris \ {<<q.kind, p>>}
           \/ /\ UNCHANGED objects
              /\ debris' = IF objects[q.kind][p] = Absent THEN debris ELSE debris \cup {<<q.kind, p>>}
  BY DEF DeleteObject, DeleteObjectFails
<1>3. /\ requests'[r].pc = "sweep" /\ requests'[r].name = q.name /\ requests'[r].kind = q.kind
      /\ requests'[r].doomed = q.doomed \ {p}
  BY <1>0, <1>2 DEF Request, Inv, TypeOK
<1>4. ASSUME NEW k \in Kinds, NEW o \in ObjectNames, objects'[k][o] # Absent
      PROVE  /\ objects'[k][o] = objects[k][o]
             /\ <<k, o>> \in debris => <<k, o>> \in debris'
             /\ k = q.kind /\ o = p => <<k, o>> \in debris'
  <2>1. CASE k = q.kind /\ o = p
    <3>1. CASE objects' = [objects EXCEPT ![q.kind][p] = Absent]
      <4>1. objects'[k][o] = Absent
        BY <1>0, <2>1, <3>1 DEF Inv, TypeOK
      <4> QED BY <1>4, <4>1
    <3>2. CASE /\ UNCHANGED objects
               /\ debris' = IF objects[q.kind][p] = Absent THEN debris ELSE debris \cup {<<q.kind, p>>}
      <4>1. objects[q.kind][p] # Absent
        BY <1>4, <2>1, <3>2
      <4> QED BY <2>1, <3>2, <4>1
    <3> QED BY <1>2, <3>1, <3>2
  <2>2. CASE ~(k = q.kind /\ o = p)
    <3>1. objects'[k][o] = objects[k][o]
      BY <1>0, <1>2, <2>2 DEF Inv, TypeOK
    <3>2. <<k, o>> # <<q.kind, p>>
      BY <2>2
    <3> QED BY <1>2, <2>2, <3>1, <3>2
  <2> QED BY <2>1, <2>2
<1>5. ASSUME NEW k \in Kinds, NEW o \in ObjectNames, objects'[k][o] # Absent,
             ComesTo(q, k, o, objects[k][o])
      PROVE  <<k, o>> \in debris' \/ ComesTo(requests'[r], k, o, objects[k][o])
  <2>1. CASE k = q.kind /\ o = p
    BY <1>4, <1>5, <2>1
  <2>2. CASE ~(k = q.kind /\ o = p)
    BY <1>0, <1>3, <1>5, <2>2 DEF ComesTo
  <2> QED BY <2>1, <2>2
<1>6. ObjectsAnswered(r)
  BY <1>1, <1>4, <1>5 DEF ObjectsAnswered, Going
<1> QED BY <1>0, <1>1, <1>6, SweepClients

(* Every step of a request leaves everything accounted for. *)
LEMMA RequestStepAccounted ==
  ASSUME Inv, Accounted, NEW r \in Requests, RequestStep(r)
  PROVE  Accounted'
<1>1. CASE DeleteRelease(r) \/ DeleteAnswerLost(r)
  BY <1>1, DeletionAnswered, AnsweredAccounted DEF DeleteRelease, DeleteAnswerLost, At
<1>2. CASE \/ DeleteClient(r) \/ DeleteClientFails(r) \/ ListSurvivors(r) \/ ListSurvivorsFails(r)
           \/ ListObjects(r) \/ ListObjectsFails(r) \/ SweepEnds(r)
           \/ DeleteObject(r) \/ DeleteObjectFails(r)
  BY <1>2, ClientStepAnswered, SurvivorsAnswered, ListAnswered, KindDoneAnswered, SweepAnswered,
     AnsweredAccounted
<1>3. CASE DeployStep(r) \/ UpdateStep(r) \/ SubmitDelete(r) \/ CallFails(r)
  <2>1. SameLeftovers
    BY <1>3 DEF DeployStep, UpdateStep, SubmitDeploy, CheckDeploy, CreateRelease, SubmitUpdate,
         GetRelease, ValidateUpdate, GetResourceVersion, UpdateRelease, SubmitDelete, CallFails
  <2>2. /\ requests[r].pc \notin Cleaning
        /\ requests[r].pc # "delete" \/ UNCHANGED releases
    BY <1>3 DEF DeployStep, UpdateStep, SubmitDeploy, CheckDeploy, CreateRelease, SubmitUpdate,
         GetRelease, ValidateUpdate, GetResourceVersion, UpdateRelease, SubmitDelete, CallFails,
         At, Cleaning
  <2> QED BY <2>1, <2>2, QuietAnswered, AnsweredAccounted
<1> QED BY <1>1, <1>2, <1>3 DEF RequestStep, DeleteStep

(* A package registers no client of a release that is going, and what its   *)
(* hub still spawns then is on record.                                      *)
LEMMA PackagesAccounted ==
  ASSUME Inv, Accounted, NEW i \in Instances,
         Register(i) \/ \E u \in Endings, k \in Kinds : Spawn(i, u, k)
  PROVE  Accounted'
<1>1. CASE Register(i)
  <2>1. ~Going(i) /\ UNCHANGED <<releases, objects, requests, debris, clientDebris>> /\ clients' = clients \cup {i}
    BY <1>1 DEF Register, SameReleases, Going
  <2> QED BY <2>1 DEF Accounted, ObjectsAccounted, ClientsAccounted, Going
<1>2. ASSUME NEW u \in Endings, NEW l \in Kinds, Spawn(i, u, l) PROVE Accounted'
  <2> DEFINE p == i \o u
  <2>1. p \in ObjectNames
    BY ObjectName
  <2>2. /\ UNCHANGED <<releases, clients, requests, clientDebris>> /\ releases[i] # Absent
        /\ objects' = [objects EXCEPT ![l][p] = i]
        /\ debris' = IF releases[i].terminating THEN debris \cup {<<l, p>>} ELSE debris \ {<<l, p>>}
    BY <1>2 DEF Spawn, SameReleases
  <2> HIDE DEF p
  <2>3. ClientsAccounted'
    BY <2>2 DEF Accounted, ClientsAccounted, Going
  <2>4. ASSUME NEW k \in Kinds, NEW o \in ObjectNames, objects'[k][o] # Absent, Going(objects[k][o])'
        PROVE  <<k, o>> \in debris' \/ \E d \in Requests : ComesTo(requests'[d], k, o, objects'[k][o])
    <3>1. CASE k = l /\ o = p
      <4>1. objects'[k][o] = i
        BY <2>1, <2>2, <3>1 DEF Inv, TypeOK
      <4>2. releases[i].terminating
        BY <2>2, <2>4, <4>1 DEF Going
      <4> QED BY <2>2, <3>1, <4>2
    <3>2. CASE ~(k = l /\ o = p)
      <4>1. objects'[k][o] = objects[k][o]
        BY <2>1, <2>2, <3>2 DEF Inv, TypeOK
      <4>2. Going(objects[k][o])
        BY <2>2, <2>4, <4>1 DEF Going
      <4>3. <<k, o>> # <<l, p>>
        BY <3>2
      <4>4. <<k, o>> \in debris => <<k, o>> \in debris'
        BY <2>2, <4>3
      <4>5. <<k, o>> \in debris \/ \E d \in Requests : ComesTo(requests[d], k, o, objects[k][o])
        BY <2>4, <4>1, <4>2 DEF Accounted, ObjectsAccounted
      <4> QED BY <2>2, <4>1, <4>4, <4>5
    <3> QED BY <3>1, <3>2
  <2>5. ObjectsAccounted'
    BY <2>4 DEF ObjectsAccounted
  <2> QED BY <2>3, <2>5 DEF Accounted
<1> QED BY <1>1, <1>2

(* When the controller has taken a release down, it was accounted for. *)
LEMMA FinalizeAccounted ==
  ASSUME Inv, Accounted, NEW i \in Instances, Finalize(i)
  PROVE  Accounted'
<1>1. /\ releases[i].terminating /\ releases' = [releases EXCEPT ![i] = Absent]
      /\ requests' = [r \in Requests |-> [requests[r] EXCEPT !.settled = @ \ {i}]]
      /\ debris' = {x \in debris : ~(x[2] = i /\ objects[x[1]][i] = i)}
      /\ UNCHANGED <<clients, clientDebris>>
  BY DEF Finalize, PutRelease
<1>2. \A j \in Instances : Going(j)' <=> Going(j)
  BY <1>1 DEF Going, Inv, TypeOK
<1>3. ASSUME NEW d \in Requests
      PROVE  /\ requests'[d].pc = requests[d].pc /\ requests'[d].name = requests[d].name
             /\ requests'[d].kind = requests[d].kind /\ requests'[d].doomed = requests[d].doomed
  BY <1>1 DEF Inv, TypeOK, Request
<1>4. ClientsAccounted'
  <2>1. ASSUME NEW j \in clients, Going(j)
        PROVE  \/ j \in clientDebris
               \/ \E d \in Requests : requests'[d].pc = "client" /\ requests'[d].name = j
    BY <1>3, <2>1 DEF Accounted, ClientsAccounted
  <2>2. clients \subseteq Instances
    BY DEF Inv, TypeOK
  <2>3. \A j \in clients' : Going(j)' => j \in clients /\ Going(j)
    BY <1>1, <1>2, <2>2
  <2> QED BY <1>1, <2>1, <2>3 DEF ClientsAccounted
<1>5. ASSUME NEW k \in Kinds, NEW o \in ObjectNames, objects'[k][o] # Absent, Going(objects[k][o])'
      PROVE  <<k, o>> \in debris' \/ \E d \in Requests : ComesTo(requests'[d], k, o, objects'[k][o])
  <2>1. objects'[k][o] = IF o = i /\ objects[k][o] = i THEN Absent ELSE objects[k][o]
    BY DEF Finalize
  <2>2. objects'[k][o] = objects[k][o] /\ ~(o = i /\ objects[k][o] = i)
    BY <1>5, <2>1
  <2>3. objects[k][o] \in Instances
    BY <1>5, <2>2 DEF Inv, TypeOK
  <2>4. Going(objects[k][o])
    BY <1>2, <1>5, <2>2, <2>3 DEF Going
  <2>5. CASE <<k, o>> \in debris
    BY <1>1, <2>2, <2>5
  <2>6. CASE \E d \in Requests : ComesTo(requests[d], k, o, objects[k][o])
    <3>1. PICK d \in Requests : ComesTo(requests[d], k, o, objects[k][o])
      BY <2>6
    <3>2. ComesTo(requests'[d], k, o, objects'[k][o])
      BY <1>3, <2>2, <3>1 DEF ComesTo
    <3> QED BY <3>2
  <2> QED BY <1>5, <2>2, <2>4, <2>5, <2>6 DEF Accounted, ObjectsAccounted
<1>6. ObjectsAccounted'
  BY <1>5 DEF ObjectsAccounted
<1> QED BY <1>4, <1>6 DEF Accounted

(* With the inductive invariant, everything is always accounted for. *)
LEMMA AlwaysAccounted == Spec => [](Inv /\ Accounted)
<1>1. Init => Inv /\ Accounted
  BY InitInv DEF Init, Accounted, ObjectsAccounted, ClientsAccounted
<1>2. ASSUME Inv, Accounted, [Next]_vars PROVE Inv' /\ Accounted'
  <2>1. CASE Next
    BY <1>2, <2>1, NextInv, RequestStepAccounted, PackagesAccounted, FinalizeAccounted DEF Next, RequestStep
  <2>2. CASE UNCHANGED vars
    BY <1>2, <2>2, NextInv DEF vars, Accounted, ObjectsAccounted, ClientsAccounted, Going
  <2> QED BY <1>2, <2>1, <2>2
<1>3. Inv /\ Accounted /\ [Next]_vars => Inv' /\ Accounted'
  BY <1>2
<1> QED BY <1>1, <1>3, PTL DEF Spec

-----------------------------------------------------------------------------
(* Theorems *)

(* Releases, user objects and requests stay well formed. *)
THEOREM TypeCorrect == Spec => []TypeOK
  BY AlwaysInv, PTL DEF Inv

(* No interleaving of deploys and updates stores a spec that the schema of  *)
(* its package does not accept (UpdateServiceParameters validates and       *)
(* replaces the whole spec).                                                *)
THEOREM StoredSpecsValidHolds == Spec => []StoredSpecsValid
  BY AlwaysInv, PTL DEF Inv

(* No update lands on a Release that was deployed under the name after the  *)
(* update had read it (repo.Update keeps the UID).                          *)
THEOREM ServiceNeverChangesHolds == Spec => ServiceNeverChanges
<1>1. ASSUME Inv, Next, NEW i \in Instances, releases[i] # Absent, releases'[i] # Absent
      PROVE  releases'[i].spec.service = releases[i].spec.service
  <2>1. ASSUME NEW r \in Requests, RequestStep(r)
        PROVE  releases'[i].spec.service = releases[i].spec.service
    BY <1>1, <2>1, RequestStepReleases
  <2>2. ASSUME NEW j \in Instances, Finalize(j)
        PROVE  releases'[i].spec.service = releases[i].spec.service
    BY <1>1, <2>2 DEF Finalize, PutRelease, Inv, TypeOK
  <2>3. ASSUME NEW j \in Instances, Register(j) \/ \E u \in Endings, k \in Kinds : Spawn(j, u, k)
        PROVE  UNCHANGED releases
    BY <2>3 DEF Register, Spawn, SameReleases
  <2> QED BY <1>1, <2>1, <2>2, <2>3 DEF Next, RequestStep
<1>2. Inv /\ [Next]_vars =>
        [\A i \in Instances :
           releases[i] # Absent /\ releases'[i] # Absent
             => releases'[i].spec.service = releases[i].spec.service]_vars
  BY <1>1
<1> QED BY <1>2, AlwaysInv, PTL DEF Spec, ServiceNeverChanges

(* cleanupUserResources spares the pods and volumes of every neighbour that *)
(* has been there since the Release was deleted, whatever happens between   *)
(* its calls: the neighbour is among the survivors it lists, and ownsByName *)
(* leaves to it what starts with its name.                                  *)
THEOREM SettledNeighboursSparedHolds == Spec => SettledNeighboursSpared
<1>1. ASSUME Inv, Next, NEW r \in Requests, NEW i \in requests[r].settled, SweptFrom(r, i)
      PROVE  FALSE
  <2>1. /\ requests[r].pc = "sweep" /\ IsStrictPrefix(requests[r].name, i)
        /\ requests'[r].doomed # requests[r].doomed
    BY <1>1 DEF SweptFrom
  <2>2. PICK k \in Kinds, o \in ObjectNames : objects[k][o] = i /\ objects'[k][o] = Absent
    BY <1>1 DEF SweptFrom
  <2>3. /\ requests[r] \in Request /\ requests[r].name \in Instances /\ i \in Instances /\ i # Absent
        /\ i \in requests[r].others
        /\ \A p \in requests[r].doomed : OwnsByName(p, requests[r].name, requests[r].others)
    BY <1>1, <2>1, ReleasesAssumption DEF Inv, TypeOK, RequestsOK, RequestOK, Request
  <2>4. RequestStep(r)
    <3>1. ASSUME NEW d \in Requests, RequestStep(d), d # r PROVE FALSE
      BY <1>1, <2>1, <3>1, RequestStepMoves, MovesKeep
    <3>2. ASSUME NEW j \in Instances, Finalize(j) PROVE FALSE
      BY <1>1, <2>1, <2>3, <3>2 DEF Finalize, Inv, TypeOK, Request
    <3>3. ASSUME NEW j \in Instances, Register(j) \/ \E u \in Endings, l \in Kinds : Spawn(j, u, l)
          PROVE  FALSE
      BY <2>1, <3>3 DEF Register, Spawn
    <3> QED BY <1>1, <3>1, <3>2, <3>3 DEF Next, RequestStep
  <2>5. PICK p \in requests[r].doomed : objects' = [objects EXCEPT ![requests[r].kind][p] = Absent]
    BY <2>2, <2>3, <2>4, RequestStepObjects
  <2>6. o = p
    BY <2>2, <2>3, <2>5 DEF Inv, TypeOK, Request
  <2>7. IsPrefix(i, o)
    BY <1>1, <2>2, <2>3 DEF Inv, NamedAfterMaker
  <2> QED BY <2>1, <2>3, <2>6, <2>7, NeighbourNotOwned
<1>2. Inv /\ [Next]_vars => [\A r \in Requests : \A i \in requests[r].settled : ~SweptFrom(r, i)]_vars
  BY <1>1
<1> QED BY <1>2, AlwaysInv, PTL DEF Spec, SettledNeighboursSpared

(* Whatever DeleteService, its failing calls, the hub and the controller do *)
(* in any order, a pod, volume or OIDC client that outlives its release is  *)
(* one that a clean-up has still to come to or that is on record as left    *)
(* behind.                                                                  *)
THEOREM NoUnknownLeftoverHolds == Spec => []NoUnknownLeftover
<1>1. ASSUME Inv, Accounted PROVE NoUnknownLeftover
  <2>1. NoUnknownOrphan
    BY <1>1 DEF Accounted, ObjectsAccounted, NoUnknownOrphan, CleanupPending, ComesTo, Going
  <2>2. NoUnknownClient
    BY <1>1 DEF Accounted, ClientsAccounted, NoUnknownClient, Going
  <2> QED BY <2>1, <2>2 DEF NoUnknownLeftover
<1>2. Inv /\ Accounted => NoUnknownLeftover
  BY <1>1
<1> QED BY <1>2, AlwaysAccounted, PTL
=============================================================================
