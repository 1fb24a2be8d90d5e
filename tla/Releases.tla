------------------------------ MODULE Releases ------------------------------
(***************************************************************************)
(* The service instances of one project: DefaultServiceService over        *)
(* k8sServiceRepository.  An instance is a Release object named            *)
(* <project>-<instance>, which the KuboCD controller deploys and, once it  *)
(* is deleted, takes down (Finalize).  Two things an instance brings into  *)
(* the cluster have no owner reference to the Release: its OIDC client and *)
(* the pods and volumes JupyterHub makes per user.  DeleteService removes  *)
(* them by name after the Release, in calls that may each fail.            *)
(*                                                                         *)
(* A name is the sequence of its dash-separated segments, without the      *)
(* project: "p-" in the code is a prefix of "o" iff p is a strict prefix   *)
(* of o here, and of two prefixes of one name the one with more segments   *)
(* has more characters.  Every Release of the namespace is one the server  *)
(* has deployed, with its labels.                                          *)
(*                                                                         *)
(* Resource versions and UIDs are modelled by who still holds the current  *)
(* one, as in Connections.                                                 *)
(***************************************************************************)
EXTENDS Naturals, FiniteSets, SequencesExt

CONSTANTS
  Requests,    \* concurrent requests to the service handlers
  Instances,   \* instance names
  Endings,     \* what objects append to the name of their instance
  Services,    \* services of the catalog
  Tags,        \* versions of their packages
  Values,      \* settings of their parameters
  Edits,       \* what updates ask for: a tag, a value, both
  Valid,       \* the specs that the schema of their package accepts
  MaxObjects,  \* bound on user objects that exist at once
  Absent       \* no object, no name

(* [service : label okdp.io/service, tag : spec.package.tag, value : spec.parameters] *)
ReleaseSpec == [service : Services, tag : Tags, value : Values]

ASSUME ReleasesAssumption ==
  /\ \A i \in Instances : i \in Seq(STRING) /\ i # <<>>
  /\ \A u \in Endings : u \in Seq(STRING)
  /\ Valid \subseteq ReleaseSpec
  /\ Edits \subseteq [tag : Tags \cup {Absent}, value : Values \cup {Absent}]
  /\ Absent \notin Instances
  /\ Absent \notin [spec : ReleaseSpec, terminating : BOOLEAN]
  /\ MaxObjects \in Nat

VARIABLES
  releases,     \* the Release objects of the namespace
  clients,      \* instances with a registered OIDC client
  objects,      \* who made the pod or volume of a name, if there is one
  requests,     \* what each request asks for, and how far it is
  relUID,       \* requests that hold the UID of their Release
  relRV,        \* ... and its current resource version
  debris,       \* history: pods and volumes known to be left behind
  clientDebris  \* history: OIDC clients known to be left behind

vars == <<releases, clients, objects, requests, relUID, relRV, debris, clientDebris>>

-----------------------------------------------------------------------------
(* Objects *)

Release == [spec : ReleaseSpec, terminating : BOOLEAN]
ReleaseOrAbsent == Release \cup {Absent}

Kinds == {"pod", "pvc"}
ObjectNames == {i \o u : i \in Instances, u \in Endings}

Locations ==
  {"idle", "check", "create", "get", "validate", "rvGet", "put",
   "delete", "client", "survivors", "list", "sweep"}

(* A request: the operation, the instance, the tag (Absent: not submitted)  *)
(* and the value (Absent: none) it asks for, and the locals of its handler: *)
(* the spec it is going to store, the names of the other releases, the kind *)
(* it cleans up and the objects of that kind it still has to delete.        *)
(* settled is history: the releases that have been there ever since the     *)
(* request deleted its own.                                                 *)
Request ==
  [pc : Locations, name : Instances \cup {Absent},
   service : Services \cup {Absent}, tag : Tags \cup {Absent}, value : Values \cup {Absent},
   spec : ReleaseSpec \cup {Absent}, others : SUBSET Instances,
   kind : Kinds, doomed : SUBSET ObjectNames, settled : SUBSET Instances]

NewRequest(pc, i, s, t, v) ==
  [pc |-> pc, name |-> i, service |-> s, tag |-> t, value |-> v,
   spec |-> Absent, others |-> {}, kind |-> "pod", doomed |-> {}, settled |-> {}]

IdleRequest == NewRequest("idle", Absent, Absent, Absent, Absent)

TypeOK ==
  /\ releases \in [Instances -> ReleaseOrAbsent]
  /\ clients \subseteq Instances
  /\ objects \in [Kinds -> [ObjectNames -> Instances \cup {Absent}]]
  /\ requests \in [Requests -> Request]
  /\ relUID \subseteq Requests
  /\ relRV \subseteq Requests
  /\ debris \subseteq Kinds \X ObjectNames
  /\ clientDebris \subseteq Instances

Init ==
  /\ releases = [i \in Instances |-> Absent]
  /\ clients = {}
  /\ objects = [k \in Kinds |-> [o \in ObjectNames |-> Absent]]
  /\ requests = [r \in Requests |-> IdleRequest]
  /\ relUID = {}
  /\ relRV = {}
  /\ debris = {}
  /\ clientDebris = {}

Present == {i \in Instances : releases[i] # Absent}

At(r, pc) == requests[r].pc = pc
Goto(r, pc) == requests' = [requests EXCEPT ![r].pc = pc]

(* The handler answers, with a result or with an error. *)
Done(r) == requests' = [requests EXCEPT ![r] = IdleRequest]

(* The API server stores a Release. *)
PutRelease(i, release) ==
  /\ releases' = [releases EXCEPT ![i] = release]
  /\ relUID' = {q \in relUID : release = Absent => requests[q].name # i}
  /\ relRV' = {q \in relRV : requests[q].name # i}

SameReleases == UNCHANGED <<releases, relUID, relRV>>
SameLeftovers == UNCHANGED <<clients, objects, debris, clientDebris>>

-----------------------------------------------------------------------------
(* DeployService *)

SubmitDeploy(r) ==
  /\ At(r, "idle")
  /\ \E i \in Instances, s \in Services, t \in Tags \cup {Absent}, v \in Values :
       requests' = [requests EXCEPT ![r] = NewRequest("check", i, s, t, v)]
  /\ SameReleases /\ SameLeftovers

(* resolvePlatformService and validateParameters: the catalog has the       *)
(* service, and without a tag its default version is taken.  The reads of   *)
(* the catalog, the schema and the Context change nothing; any may fail     *)
(* (CallFails), and so does the request when the service is not there or    *)
(* the parameters do not fit the schema.                                    *)
CheckDeploy(r) ==
  LET q == requests[r] IN
  /\ At(r, "check")
  /\ \E default \in Tags :
       LET spec == [service |-> q.service, value |-> q.value,
                    tag |-> IF q.tag = Absent THEN default ELSE q.tag]
       IN /\ spec \in Valid
          /\ requests' = [requests EXCEPT ![r].pc = "create", ![r].spec = spec]
  /\ SameReleases /\ SameLeftovers

(* Create: AlreadyExists (409) if the name is taken, also by a release that *)
(* is still being taken down.  An error that comes after the object has     *)
(* been stored is the same step: the request ends and the Release is there. *)
CreateRelease(r) ==
  LET q == requests[r] IN
  /\ At(r, "create")
  /\ IF releases[q.name] = Absent
     THEN PutRelease(q.name, [spec |-> q.spec, terminating |-> FALSE])
     ELSE SameReleases
  /\ Done(r)
  /\ SameLeftovers

-----------------------------------------------------------------------------
(* UpdateServiceParameters *)

SubmitUpdate(r) ==
  /\ At(r, "idle")
  /\ \E i \in Instances, e \in Edits :
       requests' = [requests EXCEPT ![r] = NewRequest("get", i, Absent, e.tag, e.value)]
  /\ SameReleases /\ SameLeftovers

(* What the request asks for, laid over what it read. *)
MergedSpec(q, spec) ==
  [spec EXCEPT !.tag = IF q.tag = Absent THEN @ ELSE q.tag,
               !.value = IF q.value = Absent THEN @ ELSE q.value]

GetRelease(r) ==
  LET q == requests[r]
      release == releases[q.name]
  IN /\ At(r, "get")
     /\ IF release = Absent
        THEN Done(r) /\ relUID' = relUID \ {r}
        ELSE /\ requests' = [requests EXCEPT ![r].pc = "validate",
                                             ![r].spec = MergedSpec(q, release.spec)]
             /\ relUID' = relUID \cup {r}
     /\ UNCHANGED <<releases, relRV>> /\ SameLeftovers

(* The merged parameters as a whole must fit the schema of the merged tag. *)
ValidateUpdate(r) ==
  /\ At(r, "validate")
  /\ requests[r].spec \in Valid
  /\ Goto(r, "rvGet")
  /\ SameReleases /\ SameLeftovers

(* Mutant of GetResourceVersion: the UID does not go with the update. *)
GetResourceVersion_NoUID(r) ==
  /\ At(r, "rvGet")
  /\ IF releases[requests[r].name] = Absent
     THEN Done(r) /\ UNCHANGED relRV
     ELSE Goto(r, "put") /\ relRV' = relRV \cup {r}
  /\ UNCHANGED <<releases, relUID>> /\ SameLeftovers

(* Update takes a new resource version, but the metadata it sends has the   *)
(* UID of the first read: a conflict if the Release is another one by now.  *)
GetResourceVersion(r) ==
  /\ At(r, "rvGet")
  /\ IF releases[requests[r].name] = Absent
     THEN Done(r) /\ UNCHANGED relRV
     ELSE Goto(r, "put") /\ relRV' = relRV \cup ({r} \cap relUID)
  /\ UNCHANGED <<releases, relUID>> /\ SameLeftovers

(* Mutant of UpdateRelease: the request is laid over the stored spec. *)
UpdateRelease_Patch(r) ==
  LET q == requests[r] IN
  /\ At(r, "put")
  /\ IF r \in relRV
     THEN PutRelease(q.name, [releases[q.name] EXCEPT !.spec = MergedSpec(q, @)])
     ELSE SameReleases
  /\ Done(r)
  /\ SameLeftovers

(* The whole spec is replaced by the one that was validated.  A release     *)
(* that is being taken down stays so.                                       *)
UpdateRelease(r) ==
  LET q == requests[r] IN
  /\ At(r, "put")
  /\ IF r \in relRV
     THEN PutRelease(q.name, [releases[q.name] EXCEPT !.spec = q.spec])
     ELSE SameReleases
  /\ Done(r)
  /\ SameLeftovers

-----------------------------------------------------------------------------
(* DeleteService *)

SubmitDelete(r) ==
  /\ At(r, "idle")
  /\ \E i \in Instances :
       requests' = [requests EXCEPT ![r] = NewRequest("delete", i, Absent, Absent, Absent)]
  /\ SameReleases /\ SameLeftovers

(* The Release first.  It stays until the controller has taken it down;     *)
(* NotFound ends the request before any clean-up.                           *)
DeleteRelease(r) ==
  LET i == requests[r].name IN
  /\ At(r, "delete")
  /\ IF releases[i] = Absent
     THEN SameReleases /\ Done(r)
     ELSE /\ PutRelease(i, [releases[i] EXCEPT !.terminating = TRUE])
          /\ requests' = [requests EXCEPT ![r].pc = "client", ![r].settled = Present \ {i}]
  /\ SameLeftovers

(* The objects of an instance. *)
ObjectsOf(i) == {x \in Kinds \X ObjectNames : objects[x[1]][x[2]] = i}

(* The error comes after the API server has deleted the Release: nothing is *)
(* cleaned up, and a retry may find no Release to start from.               *)
DeleteAnswerLost(r) ==
  LET i == requests[r].name IN
  /\ At(r, "delete")
  /\ releases[i] # Absent
  /\ PutRelease(i, [releases[i] EXCEPT !.terminating = TRUE])
  /\ Done(r)
  /\ debris' = debris \cup ObjectsOf(i)
  /\ clientDebris' = clientDebris \cup ({i} \cap clients)
  /\ UNCHANGED <<clients, objects>>

(* Mutant of DeleteClient: the client stays. *)
DeleteClient_Forgotten(r) ==
  /\ At(r, "client")
  /\ Goto(r, "survivors")
  /\ SameReleases /\ SameLeftovers

(* cleanupOidcClient, by the name of the release, through the configured    *)
(* backend (without one the server knows of no clients) ...                 *)
DeleteClient(r) ==
  LET i == requests[r].name IN
  /\ At(r, "client")
  /\ clients' = clients \ {i}
  /\ clientDebris' = clientDebris \ {i}
  /\ Goto(r, "survivors")
  /\ SameReleases /\ UNCHANGED <<objects, debris>>

(* ... whose failure is logged. *)
DeleteClientFails(r) ==
  LET i == requests[r].name IN
  /\ At(r, "client")
  /\ clientDebris' = clientDebris \cup ({i} \cap clients)
  /\ Goto(r, "survivors")
  /\ SameReleases /\ UNCHANGED <<clients, objects, debris>>

(* ownsByName: the object extends the name, and no other release reaches    *)
(* further into it.                                                         *)
OwnsByName(o, i, others) ==
  /\ IsStrictPrefix(i, o)
  /\ \A other \in others : Len(other) > Len(i) => ~IsPrefix(other, o)

(* Mutant of ListSurvivors: releases that are being taken down are left out. *)
ListSurvivors_Live(r) ==
  /\ At(r, "survivors")
  /\ requests' = [requests EXCEPT ![r].pc = "list",
       ![r].others = {i \in Present : ~releases[i].terminating} \ {requests[r].name}]
  /\ SameReleases /\ SameLeftovers

(* cleanupUserResources: the neighbours, whose objects are to be spared ... *)
ListSurvivors(r) ==
  /\ At(r, "survivors")
  /\ requests' = [requests EXCEPT ![r].pc = "list", ![r].others = Present \ {requests[r].name}]
  /\ SameReleases /\ SameLeftovers

(* ... fails closed: if they are not known, nothing is deleted ...          *)
ListSurvivorsFails(r) ==
  /\ At(r, "survivors")
  /\ debris' = debris \cup ObjectsOf(requests[r].name)
  /\ Done(r)
  /\ SameReleases /\ UNCHANGED <<clients, objects, clientDebris>>

(* Mutant of NextKind: volumes are forgotten. *)
NextKind_PodsOnly(r) == Done(r)

(* ... pods before volumes ...                                              *)
NextKind(r) ==
  IF requests[r].kind = "pod"
  THEN requests' = [requests EXCEPT ![r].pc = "list", ![r].kind = "pvc", ![r].doomed = {}]
  ELSE Done(r)

(* ... the objects there are, of which the ones it owns by name are doomed  *)
(* and others of this instance spared for the sake of a neighbour ...       *)
ListObjects(r) ==
  LET q == requests[r]
      there == {o \in ObjectNames : objects[q.kind][o] # Absent}
      doomed == {o \in there : OwnsByName(o, q.name, q.others)}
  IN /\ At(r, "list")
     /\ requests' = [requests EXCEPT ![r].pc = "sweep", ![r].doomed = doomed]
     /\ debris' = debris \cup {<<q.kind, o>> : o \in {p \in there \ doomed : objects[q.kind][p] = q.name}}
     /\ SameReleases /\ UNCHANGED <<clients, objects, clientDebris>>

ListObjectsFails(r) ==
  LET q == requests[r] IN
  /\ At(r, "list")
  /\ debris' = debris \cup {x \in ObjectsOf(q.name) : x[1] = q.kind}
  /\ NextKind(r)
  /\ SameReleases /\ UNCHANGED <<clients, objects, clientDebris>>

(* ... deleted one by one, by name; one that is gone is an error like any   *)
(* other ...                                                                *)
DeleteObject(r) ==
  LET q == requests[r] IN
  /\ At(r, "sweep")
  /\ \E o \in q.doomed :
       /\ objects' = [objects EXCEPT ![q.kind][o] = Absent]
       /\ debris' = debris \ {<<q.kind, o>>}
       /\ requests' = [requests EXCEPT ![r].doomed = @ \ {o}]
  /\ SameReleases /\ UNCHANGED <<clients, clientDebris>>

(* ... that is logged and skipped.                                          *)
DeleteObjectFails(r) ==
  LET q == requests[r] IN
  /\ At(r, "sweep")
  /\ \E o \in q.doomed :
       /\ debris' = IF objects[q.kind][o] = Absent THEN debris ELSE debris \cup {<<q.kind, o>>}
       /\ requests' = [requests EXCEPT ![r].doomed = @ \ {o}]
  /\ SameReleases /\ UNCHANGED <<clients, objects, clientDebris>>

SweepEnds(r) ==
  /\ At(r, "sweep")
  /\ requests[r].doomed = {}
  /\ NextKind(r)
  /\ SameReleases /\ SameLeftovers

(* Any other call that fails, or refuses the request, ends it with its      *)
(* error and leaves everything as it was.                                   *)
CallFails(r) ==
  /\ requests[r].pc \in {"check", "create", "get", "validate", "rvGet", "put", "delete"}
  /\ Done(r)
  /\ relRV' = relRV \ {r}
  /\ UNCHANGED <<releases, relUID>> /\ SameLeftovers

-----------------------------------------------------------------------------
(* The others in the namespace *)

(* A package registers the OIDC client of its instance. *)
Register(i) ==
  /\ releases[i] # Absent
  /\ ~releases[i].terminating
  /\ clients' = clients \cup {i}
  /\ SameReleases /\ UNCHANGED <<objects, requests, debris, clientDebris>>

(* JupyterHub makes a user's pod or volume, or (suffix <<>>) the chart one  *)
(* that is named after the release.  The hub does so until it is taken      *)
(* down, and then nobody may be left to clean up.                           *)
Spawn(i, u, k) ==
  /\ releases[i] # Absent
  /\ objects[k][i \o u] = Absent
  /\ Cardinality({x \in Kinds \X ObjectNames : objects[x[1]][x[2]] # Absent}) < MaxObjects
  /\ objects' = [objects EXCEPT ![k][i \o u] = i]
  /\ debris' = IF releases[i].terminating THEN debris \cup {<<k, i \o u>>}
               ELSE debris \ {<<k, i \o u>>}
  /\ SameReleases /\ UNCHANGED <<clients, requests, clientDebris>>

(* The controller has taken a deleted release down, and with it what its    *)
(* chart made.                                                              *)
Finalize(i) ==
  /\ releases[i] # Absent
  /\ releases[i].terminating
  /\ PutRelease(i, Absent)
  /\ requests' = [r \in Requests |-> [requests[r] EXCEPT !.settled = @ \ {i}]]
  /\ objects' = [k \in Kinds |-> [o \in ObjectNames |->
                   IF o = i /\ objects[k][o] = i THEN Absent ELSE objects[k][o]]]
  /\ debris' = {x \in debris : ~(x[2] = i /\ objects[x[1]][i] = i)}
  /\ UNCHANGED <<clients, clientDebris>>

DeployStep(r) == SubmitDeploy(r) \/ CheckDeploy(r) \/ CreateRelease(r)

UpdateStep(r) ==
  SubmitUpdate(r) \/ GetRelease(r) \/ ValidateUpdate(r) \/ GetResourceVersion(r) \/ UpdateRelease(r)

DeleteStep(r) ==
  \/ SubmitDelete(r) \/ DeleteRelease(r) \/ DeleteAnswerLost(r)
  \/ DeleteClient(r) \/ DeleteClientFails(r)
  \/ ListSurvivors(r) \/ ListSurvivorsFails(r)
  \/ ListObjects(r) \/ ListObjectsFails(r)
  \/ DeleteObject(r) \/ DeleteObjectFails(r) \/ SweepEnds(r)

Next ==
  \/ \E r \in Requests : DeployStep(r) \/ UpdateStep(r) \/ DeleteStep(r) \/ CallFails(r)
  \/ \E i \in Instances : Register(i) \/ Finalize(i)
  \/ \E i \in Instances, u \in Endings, k \in Kinds : Spawn(i, u, k)

Spec == Init /\ [][Next]_vars

-----------------------------------------------------------------------------
(* Properties *)

(* Whatever deploys, updates and deletes interleave, a stored spec fits the *)
(* schema of its package as a whole: two updates that are valid on their    *)
(* own never combine into a spec nobody validated.                          *)
StoredSpecsValid == \A i \in Present : releases[i].spec \in Valid

(* While a Release lives it is one of the service it was deployed as: an    *)
(* update never lands on a release that was redeployed under the name since *)
(* it was read.                                                             *)
ServiceNeverChanges ==
  [][\A i \in Instances :
       releases[i] # Absent /\ releases'[i] # Absent
         => releases'[i].spec.service = releases[i].spec.service]_vars

(* Does the step delete an object that i made, in the clean-up of another   *)
(* release, whose name i's name extends?                                    *)
SweptFrom(r, i) ==
  /\ requests[r].pc = "sweep"
  /\ IsStrictPrefix(requests[r].name, i)
  /\ requests'[r].doomed # requests[r].doomed
  /\ \E k \in Kinds, o \in ObjectNames : objects[k][o] = i /\ objects'[k][o] = Absent

(* "an object is only ever claimed by the release whose name reaches        *)
(* furthest into it": the clean-up spares the pods and volumes of every     *)
(* neighbour that was there when the Release was deleted and has been       *)
(* since, whether or not it is being taken down itself.                     *)
SettledNeighboursSpared ==
  [][\A r \in Requests : \A i \in requests[r].settled : ~SweptFrom(r, i)]_vars

(* The clean-up of i has still to come to object o of kind k. *)
CleanupPending(k, o, i) ==
  \E r \in Requests :
    LET q == requests[r] IN
    /\ q.name = i
    /\ \/ q.pc \in {"client", "survivors"}
       \/ q.pc \in {"list", "sweep"} /\ q.kind = "pod" /\ k = "pvc"
       \/ q.pc = "list" /\ q.kind = k
       \/ q.pc = "sweep" /\ q.kind = k /\ o \in q.doomed

(* A pod or volume that outlives its release is one a clean-up has still to *)
(* come to, or the server has left it for a reason on record: a failed call,*)
(* a neighbour it might belong to, a hub that was still spawning.           *)
NoUnknownOrphan ==
  \A k \in Kinds, o \in ObjectNames :
    LET i == objects[k][o] IN
    i # Absent /\ releases[i] = Absent => <<k, o>> \in debris \/ CleanupPending(k, o, i)

(* "a client left registered outlives the service that owned it and nothing *)
(* else reports it": that takes a failed or lost call.                      *)
NoUnknownClient ==
  \A i \in clients : releases[i] = Absent =>
    i \in clientDebris \/ \E r \in Requests : requests[r].pc = "client" /\ requests[r].name = i

(* Whatever DeleteService leaves behind of a release, pods, volumes or its   *)
(* OIDC client, it leaves for a known reason.                                *)
NoUnknownLeftover == NoUnknownOrphan /\ NoUnknownClient
=============================================================================
