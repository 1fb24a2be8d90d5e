------------------------------- MODULE Projects -------------------------------
(***************************************************************************)
(* Projects are namespaces that carry the label okdp.io/project.  The      *)
(* server creates, updates and deletes them, an administrator changes the  *)
(* same namespaces directly, and a console follows the projects through    *)
(* StreamProjects, a watch forwarded event by event.                       *)
(***************************************************************************)
EXTENDS Naturals, SequencesExt

CONSTANTS
  Names,       \* names of namespaces
  Requests,    \* requests to /api/projects
  MaxChanges,  \* bound on the changes made by administrators
  Gone         \* no namespace, no project in a console's view

ASSUME ProjectsAssumption ==
  /\ Names # {} /\ IsFiniteSet(Names)
  /\ MaxChanges \in Nat
  /\ Gone \notin [label : {"none", "empty", "set"}, desc : {"old", "new"}] \cup {"old", "new"}

VARIABLES
  namespaces,  \* the namespaces of the cluster
  requests,    \* how far each request is
  changes,     \* how often administrators changed something
  stream,      \* the watch of StreamProjects and the events under way
  view         \* what the console shows, built from the events

projVars == <<namespaces, requests, changes, stream, view>>

(* label: okdp.io/project is not there, has no value, or has one; desc: the  *)
(* annotation okdp.io/description.  A namespace that is deleted is gone at   *)
(* once: the time it spends Terminating is left out.                         *)
Namespace == [label : {"none", "empty", "set"}, desc : {"old", "new"}]

(* read: what Get returned; fresh: no write to the namespace since. *)
Request ==
  [pc : {"ready", "read", "write", "done"}, kind : {"none", "create", "update", "delete"},
   name : Names, read : Namespace \cup {Gone}, fresh : BOOLEAN,
   code : {"none", "201", "200", "204", "404", "500"}]

Event == [name : Names, desc : {"old", "new", Gone}]

ProjTypeOK ==
  /\ namespaces \in [Names -> Namespace \cup {Gone}]
  /\ requests \in [Requests -> Request]
  /\ changes \in 0..MaxChanges
  /\ stream.state \in {"new", "open", "closed"}
  /\ \A i \in DOMAIN stream.events : stream.events[i] \in Event
  /\ view \in [Names -> {"old", "new", Gone}]

ProjInit ==
  /\ namespaces = [n \in Names |-> Gone]
  /\ requests = [r \in Requests |->
       [pc |-> "ready", kind |-> "none", name |-> CHOOSE n \in Names : TRUE,
        read |-> Gone, fresh |-> FALSE, code |-> "none"]]
  /\ changes = 0
  /\ stream = [state |-> "new", events |-> <<>>]
  /\ view = [n \in Names |-> Gone]

(* What a console should show of a namespace: the label selects it, whatever *)
(* its value.                                                                *)
Listed(ns) == IF ns # Gone /\ ns.label # "none" THEN ns.desc ELSE Gone

(* The API server: a write reaches the watch when it changes what the       *)
(* selector sees, a namespace that loses its label as a deletion.           *)
PutNamespace(n, ns) ==
  /\ namespaces' = [namespaces EXCEPT ![n] = ns]
  /\ stream' = IF stream.state = "open" /\ Listed(ns) # Listed(namespaces[n])
               THEN [stream EXCEPT !.events = Append(@, [name |-> n, desc |-> Listed(ns)])]
               ELSE stream

(* A write makes the reads of the others stale. *)
Stale(n, rs) == [r \in Requests |-> IF rs[r].name = n THEN [rs[r] EXCEPT !.fresh = FALSE] ELSE rs[r]]

RequestAt(r, pc) == requests[r].pc = pc
Answered(r, code) == [requests EXCEPT ![r].pc = "done", ![r].code = code]

(* CreateProject, UpdateProject, DeleteProject, the body bound. *)
Submit(r) ==
  /\ RequestAt(r, "ready")
  /\ \E k \in {"create", "update", "delete"}, n \in Names :
       requests' = [requests EXCEPT ![r].kind = k, ![r].name = n,
                                    ![r].pc = IF k = "create" THEN "write" ELSE "read"]
  /\ UNCHANGED <<namespaces, changes, stream, view>>

(* Create: the name of a namespace that exists is an error like any other. *)
CreateNamespace(r) ==
  /\ RequestAt(r, "write") /\ requests[r].kind = "create"
  /\ LET n == requests[r].name IN
     IF namespaces[n] = Gone
       THEN /\ PutNamespace(n, [label |-> "set", desc |-> "old"])
            /\ requests' = Stale(n, Answered(r, "201"))
       ELSE requests' = Answered(r, "500") /\ UNCHANGED <<namespaces, stream>>
  /\ UNCHANGED <<changes, view>>

(* Mutant: any namespace is taken for a project. *)
GetNamespace_AnyNamespace(r) ==
  /\ RequestAt(r, "read")
  /\ LET ns == namespaces[requests[r].name] IN
     requests' = IF ns # Gone
                 THEN [requests EXCEPT ![r].pc = "write", ![r].read = ns, ![r].fresh = TRUE]
                 ELSE Answered(r, "404")
  /\ UNCHANGED <<namespaces, changes, stream, view>>

(* Update and Delete: a namespace whose label has no value, like one without *)
(* the label, is reported as absent, though the selector lists it.           *)
GetNamespace(r) ==
  /\ RequestAt(r, "read")
  /\ LET ns == namespaces[requests[r].name] IN
     requests' = IF ns # Gone /\ ns.label = "set"
                 THEN [requests EXCEPT ![r].pc = "write", ![r].read = ns, ![r].fresh = TRUE]
                 ELSE Answered(r, "404")
  /\ UNCHANGED <<namespaces, changes, stream, view>>

(* Mutant: the write does not carry the resource version of the read. *)
UpdateNamespace_Blind(r) ==
  /\ RequestAt(r, "write") /\ requests[r].kind = "update"
  /\ LET n == requests[r].name IN
     IF namespaces[n] # Gone
       THEN /\ PutNamespace(n, [requests[r].read EXCEPT !.desc = "new"])
            /\ requests' = Stale(n, Answered(r, "200"))
       ELSE requests' = Answered(r, "404") /\ UNCHANGED <<namespaces, stream>>
  /\ UNCHANGED <<changes, view>>

(* Update writes back the namespace it read, with the new description: a    *)
(* write in between makes it a conflict.                                    *)
UpdateNamespace(r) ==
  /\ RequestAt(r, "write") /\ requests[r].kind = "update"
  /\ LET n == requests[r].name IN
     CASE namespaces[n] = Gone ->
            requests' = Answered(r, "404") /\ UNCHANGED <<namespaces, stream>>
       [] namespaces[n] # Gone /\ ~requests[r].fresh ->
            requests' = Answered(r, "500") /\ UNCHANGED <<namespaces, stream>>
       [] OTHER ->
            /\ PutNamespace(n, [requests[r].read EXCEPT !.desc = "new"])
            /\ requests' = Stale(n, Answered(r, "200"))
  /\ UNCHANGED <<changes, view>>

(* Delete deletes by name, without a precondition. *)
DeleteNamespace(r) ==
  /\ RequestAt(r, "write") /\ requests[r].kind = "delete"
  /\ LET n == requests[r].name IN
     IF namespaces[n] = Gone
       THEN requests' = Answered(r, "404") /\ UNCHANGED <<namespaces, stream>>
       ELSE PutNamespace(n, Gone) /\ requests' = Stale(n, Answered(r, "204"))
  /\ UNCHANGED <<changes, view>>

(* Any call of the API server may fail. *)
RequestFails(r) ==
  /\ requests[r].pc \in {"read", "write"}
  /\ requests' = Answered(r, "500")
  /\ UNCHANGED <<namespaces, changes, stream, view>>

(* An administrator creates, labels, unlabels or removes a namespace. *)
AdminWrites(n) ==
  /\ changes < MaxChanges
  /\ changes' = changes + 1
  /\ \E ns \in [label : {"none", "empty", "set"}, desc : {"old"}] \cup {Gone} :
       ns # namespaces[n] /\ PutNamespace(n, ns)
  /\ requests' = Stale(n, requests)
  /\ UNCHANGED view

(* WatchProjects: the watch starts with an event for every project there is, *)
(* in any order.                                                            *)
OpenStream ==
  /\ stream.state = "new"
  /\ \E order \in SetToSeqs({n \in Names : Listed(namespaces[n]) # Gone}) :
       stream' = [state |-> "open", events |->
         [i \in DOMAIN order |-> [name |-> order[i], desc |-> Listed(namespaces[order[i]])]]]
  /\ UNCHANGED <<namespaces, requests, changes, view>>

(* Mutant: only objects that still exist are forwarded. *)
Forward_NoDeletes ==
  /\ stream.state = "open" /\ stream.events # <<>>
  /\ LET e == Head(stream.events) IN
     view' = IF e.desc = Gone THEN view ELSE [view EXCEPT ![e.name] = e.desc]
  /\ stream' = [stream EXCEPT !.events = Tail(@)]
  /\ UNCHANGED <<namespaces, requests, changes>>

(* The loop of StreamProjects: one event of the watch, one message. *)
Forward ==
  /\ stream.state = "open" /\ stream.events # <<>>
  /\ LET e == Head(stream.events) IN view' = [view EXCEPT ![e.name] = e.desc]
  /\ stream' = [stream EXCEPT !.events = Tail(@)]
  /\ UNCHANGED <<namespaces, requests, changes>>

(* The console leaves, a keep-alive cannot be written, or the watch ends.   *)
CloseStream ==
  /\ stream.state = "open"
  /\ stream' = [state |-> "closed", events |-> <<>>]
  /\ UNCHANGED <<namespaces, requests, changes, view>>

RequestStep(r) ==
  \/ Submit(r) \/ CreateNamespace(r) \/ GetNamespace(r)
  \/ UpdateNamespace(r) \/ DeleteNamespace(r) \/ RequestFails(r)

ProjNext ==
  \/ \E r \in Requests : RequestStep(r)
  \/ \E n \in Names : AdminWrites(n)
  \/ OpenStream \/ Forward \/ CloseStream

(* The goroutine of the handler serves the events it is sent. *)
ProjFairness == WF_projVars(Forward)

ProjSpec == ProjInit /\ [][ProjNext]_projVars
ProjFairSpec == ProjSpec /\ ProjFairness

-----------------------------------------------------------------------------

(* "Only Namespaces that are OKDP projects are updatable", and an update      *)
(* leaves the label alone: what an administrator took out of the projects is *)
(* neither edited nor put back, however the two interleave.                  *)
ForeignNotEdited ==
  [][\A r \in Requests : RequestAt(r, "write") /\ requests[r].kind = "update"
        /\ requests'[r].code = "200"
       => /\ namespaces[requests[r].name].label = "set"
          /\ namespaces'[requests[r].name].label = "set"]_projVars

(* "Only Namespaces that are OKDP projects are deletable": a namespace that  *)
(* carries no label when it is deleted lost it, or was made anew, after the  *)
(* request read it.                                                          *)
ForeignNotDeleted ==
  [][\A r \in Requests : RequestAt(r, "write") /\ requests[r].kind = "delete"
        /\ requests'[r].code = "204"
       => namespaces[requests[r].name].label = "set" \/ ~requests[r].fresh]_projVars

(* While the stream is open the console comes to show the projects there     *)
(* are, those an administrator labelled, unlabelled or removed included.     *)
ViewConverges ==
  <>[](stream.state = "open" => \A n \in Names : view[n] = Listed(namespaces[n]))

(* The events under way are all the console lacks: of each project the last  *)
(* one says what it is now, and without one the console shows it so.         *)
EventsComplete ==
  stream.state = "open" => \A n \in Names :
    \/ \E i \in DOMAIN stream.events :
         /\ stream.events[i] = [name |-> n, desc |-> Listed(namespaces[n])]
         /\ \A j \in DOMAIN stream.events : j > i => stream.events[j].name # n
    \/ /\ view[n] = Listed(namespaces[n])
       /\ \A j \in DOMAIN stream.events : stream.events[j].name # n

(* UpdateProject and DeleteProject leave alone what is not a project.        *)
ForeignSpared == ForeignNotEdited /\ ForeignNotDeleted
=============================================================================
