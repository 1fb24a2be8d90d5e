------------------------------- MODULE Catalog -------------------------------
(***************************************************************************)
(* The platform service catalog: DefaultServiceService over the cached     *)
(* reader k8sContextRepository and the read-modify-write loop of           *)
(* k8sContextWriterRepository.  The catalog is one part of the Context, an *)
(* object that administrators also edit with kubectl.                      *)
(*                                                                         *)
(* A service keeps, per name, its entries in catalog order: the sections   *)
(* and the order between names are layout, and a category is part of the   *)
(* service as any other field.  A version stands for the resource version. *)
(***************************************************************************)
EXTENDS Naturals, Sequences

CONSTANTS
  Requests,     \* concurrent requests
  Writers,      \* the ones that may change the catalog
  Names,        \* service names
  Services,     \* what an entry says: category, versions, default, ...
  MaxTries,     \* Steps of retry.DefaultRetry
  MaxVersion,   \* bound: no write is submitted from this version on
  LostAnswers,  \* may a failed Update of the Context have been applied?
  Edits,        \* what administrators edit with kubectl: "catalog", "rest"
  None          \* nobody holds r.mu; r.cached is nil; no name, no service

ASSUME CatalogAssumption ==
  /\ None \notin Requests
  /\ MaxTries \in Nat \ {0}
  /\ MaxVersion \in Nat
  /\ LostAnswers \in BOOLEAN
  /\ Writers \subseteq Requests
  /\ Edits \subseteq {"catalog", "rest"}

VARIABLES
  context,   \* the Context in the API server
  cached,    \* r.cached
  fresh,     \* is time.Since(r.cachedAt) below contextCacheTTL?
  mutex,     \* who holds r.mu across a step
  requests,  \* what each request asks for, and how far it is
  known      \* history: newest version an answered request has shown

vars == <<context, cached, fresh, mutex, requests, known>>

-----------------------------------------------------------------------------
(* rest stands for everything in the Context that is not the catalog. *)
Context ==
  [version : Nat, catalog : [Names -> Seq(Services)], rest : Nat]

(* The next version of a Context, with other entries for one service. *)
WithEntries(c, n, entries) ==
  [version |-> c.version + 1, catalog |-> [c.catalog EXCEPT ![n] = entries], rest |-> c.rest]

Locations ==
  {"idle", "read", "fetch", "fetched", "check", "registry", "get", "put", "invalidate",
   "answer"}

(* base is the Context the request holds, from the cache or from the API    *)
(* server, and seen the newest version its answer will show.  floor is      *)
(* history: known when the request arrived.                                 *)
Request ==
  [pc : Locations, op : {"list", "add", "update", "remove"}, name : Names \cup {None},
   service : Services \cup {None}, base : Context \cup {None}, tries : Nat,
   seen : Nat, floor : Nat]

TypeOK ==
  /\ context \in Context
  /\ cached \in Context \cup {None}
  /\ fresh \in BOOLEAN
  /\ mutex \in Requests \cup {None}
  /\ requests \in [Requests -> Request]
  /\ known \in Nat

NewRequest(pc, op, n, s, floor) ==
  [pc |-> pc, op |-> op, name |-> n, service |-> s, base |-> None,
   tries |-> 0, seen |-> 0, floor |-> floor]

IdleRequest == NewRequest("idle", "list", None, None, 0)

Init ==
  /\ context \in [version : {0}, rest : {0},
                  catalog : [Names -> {<<>>} \cup {<<s>> : s \in Services}]]
  /\ cached = None
  /\ fresh = FALSE
  /\ mutex = None
  /\ requests = [r \in Requests |-> IdleRequest]
  /\ known = 0

At(r, pc) == requests[r].pc = pc
Goto(r, pc) == requests' = [requests EXCEPT ![r].pc = pc]

(* The request is over; before Answer, with an error that shows nothing.    *)
Done(r) == requests' = [requests EXCEPT ![r] = IdleRequest]

-----------------------------------------------------------------------------
(* A request arrives: a listing, or a write whose payload                   *)
(* normalizeAndValidateCatalogService accepts.                              *)
SubmitList(r) ==
  /\ At(r, "idle")
  /\ requests' = [requests EXCEPT ![r] = NewRequest("read", "list", None, None, known)]
  /\ UNCHANGED <<context, cached, fresh, mutex, known>>

SubmitWrite(r) ==
  /\ r \in Writers
  /\ At(r, "idle")
  /\ context.version < MaxVersion
  /\ \E n \in Names :
       \/ \E op \in {"add", "update"}, s \in Services :
            requests' = [requests EXCEPT ![r] = NewRequest("read", op, n, s, known)]
       \/ requests' = [requests EXCEPT ![r] = NewRequest("read", "remove", n, None, known)]
  /\ UNCHANGED <<context, cached, fresh, mutex, known>>

(* Mutant of CacheHit: the TTL is not looked at. *)
CacheHit_NoTTL(r) ==
  /\ At(r, "read")
  /\ mutex = None
  /\ cached # None
  /\ requests' = [requests EXCEPT ![r].pc = "check", ![r].base = cached,
                                  ![r].seen = cached.version]
  /\ UNCHANGED <<context, cached, fresh, mutex, known>>

(* getContext: a cached Context within its TTL is returned under r.mu ... *)
CacheHit(r) ==
  /\ At(r, "read")
  /\ mutex = None
  /\ cached # None /\ fresh
  /\ requests' = [requests EXCEPT ![r].pc = "check", ![r].base = cached,
                                  ![r].seen = cached.version]
  /\ UNCHANGED <<context, cached, fresh, mutex, known>>

(* Mutant of CacheMiss: r.mu is released before the Get. *)
CacheMiss_Unlocked(r) ==
  /\ At(r, "read")
  /\ mutex = None
  /\ cached = None \/ ~fresh
  /\ Goto(r, "fetch")
  /\ UNCHANGED <<context, cached, fresh, mutex, known>>

(* ... otherwise r.mu is kept while the API server is asked ... *)
CacheMiss(r) ==
  /\ At(r, "read")
  /\ mutex = None
  /\ cached = None \/ ~fresh
  /\ mutex' = r
  /\ Goto(r, "fetch")
  /\ UNCHANGED <<context, cached, fresh, known>>

Fetch(r) ==
  /\ At(r, "fetch")
  /\ requests' = [requests EXCEPT ![r].pc = "fetched", ![r].base = context]
  /\ UNCHANGED <<context, cached, fresh, mutex, known>>

(* ... and its answer is cached. *)
Store(r) ==
  /\ At(r, "fetched")
  /\ cached' = requests[r].base
  /\ fresh' = TRUE
  /\ mutex' = None
  /\ requests' = [requests EXCEPT ![r].pc = "check", ![r].seen = requests[r].base.version]
  /\ UNCHANGED <<context, known>>

(* Mutant of FetchFails: the error path returns without unlocking. *)
FetchFails_Locked(r) ==
  /\ At(r, "fetch")
  /\ Done(r)
  /\ UNCHANGED <<context, cached, fresh, mutex, known>>

FetchFails(r) ==
  /\ At(r, "fetch")
  /\ mutex' = None
  /\ Done(r)
  /\ UNCHANGED <<context, cached, fresh, known>>

(* The decision on what was read: AddPlatformService refuses a name that is *)
(* there, findCatalogService one that is not.                               *)
Decide(r) ==
  LET q == requests[r]
      there == q.op # "list" /\ q.base.catalog[q.name] # <<>>
  IN /\ At(r, "check")
     /\ Goto(r, CASE q.op = "list" -> "answer"
                  [] q.op = "add" -> IF there THEN "answer" ELSE "registry"
                  [] q.op = "update" -> IF there THEN "registry" ELSE "answer"
                  [] q.op = "remove" -> IF there THEN "get" ELSE "answer")
     /\ UNCHANGED <<context, cached, fresh, mutex, known>>

(* validateVersionsInRegistry: the registry knows the versions, or not, or  *)
(* does not answer.                                                         *)
CheckRegistry(r) ==
  /\ At(r, "registry")
  /\ Goto(r, "get") \/ Done(r)
  /\ UNCHANGED <<context, cached, fresh, mutex, known>>

-----------------------------------------------------------------------------
(* mutateCategories: read, change in memory, write back. *)

(* Mutant of GetContext: only the resource version is read again, and the   *)
(* write starts from the copy the check read.                               *)
GetContext_VersionOnly(r) ==
  /\ At(r, "get")
  /\ requests' = [requests EXCEPT ![r].pc = "put", ![r].base.version = context.version]
  /\ UNCHANGED <<context, cached, fresh, mutex, known>>

GetContext(r) ==
  /\ At(r, "get")
  /\ \/ requests' = [requests EXCEPT ![r].pc = "put", ![r].base = context]
     \/ Done(r)
  /\ UNCHANGED <<context, cached, fresh, mutex, known>>

(* appendServiceToCategory and removeServiceFromCategories, by name. *)
Mutated(q) ==
  CASE q.op = "add" -> Append(q.base.catalog[q.name], q.service)
    [] q.op = "update" -> IF q.base.catalog[q.name] = <<>> THEN <<>> ELSE <<q.service>>
    [] OTHER -> <<>>

(* The object the request writes back: a change gets a new version, a write *)
(* of the same content does not.                                            *)
Written(q) ==
  LET entries == Mutated(q) IN
  IF entries = q.base.catalog[q.name] THEN q.base
  ELSE WithEntries(q.base, q.name, entries)

PutContext(r) ==
  LET q == requests[r] IN
  /\ At(r, "put")
  /\ q.base.version = context.version
  /\ context' = Written(q)
  /\ requests' = [requests EXCEPT ![r].pc = "invalidate", ![r].base = Written(q)]
  /\ UNCHANGED <<cached, fresh, mutex, known>>

(* RetryOnConflict starts over, MaxTries times. *)
PutConflict(r) ==
  LET q == requests[r]
      tries == q.tries + 1
  IN /\ At(r, "put")
     /\ q.base.version # context.version
     /\ IF tries < MaxTries
        THEN requests' = [requests EXCEPT ![r].pc = "get", ![r].tries = tries]
        ELSE Done(r)
     /\ UNCHANGED <<context, cached, fresh, mutex, known>>

(* Any other error ends the request, and the cache stays; with LostAnswers  *)
(* the API server may have applied the write.                               *)
PutFails(r) ==
  LET q == requests[r] IN
  /\ At(r, "put")
  /\ \/ UNCHANGED context
     \/ /\ LostAnswers
        /\ q.base.version = context.version
        /\ context' = Written(q)
  /\ Done(r)
  /\ UNCHANGED <<cached, fresh, mutex, known>>

(* Mutant of Invalidate: the cache is left as it is. *)
Invalidate_Nothing(r) ==
  /\ At(r, "invalidate")
  /\ mutex = None
  /\ requests' = [requests EXCEPT ![r].pc = "answer", ![r].seen = requests[r].base.version]
  /\ UNCHANGED <<context, cached, fresh, mutex, known>>

(* Invalidate, under r.mu. *)
Invalidate(r) ==
  /\ At(r, "invalidate")
  /\ mutex = None
  /\ cached' = None
  /\ requests' = [requests EXCEPT ![r].pc = "answer", ![r].seen = requests[r].base.version]
  /\ UNCHANGED <<context, fresh, mutex, known>>

(* The handler answers with what it has read or written. *)
Answer(r) ==
  /\ At(r, "answer")
  /\ known' = IF requests[r].seen > known THEN requests[r].seen ELSE known
  /\ Done(r)
  /\ UNCHANGED <<context, cached, fresh, mutex>>

-----------------------------------------------------------------------------
(* contextCacheTTL passes. *)
Expire ==
  /\ fresh
  /\ fresh' = FALSE
  /\ UNCHANGED <<context, cached, mutex, requests, known>>

(* An administrator edits the Context: the catalog or the rest of it. *)
Edit ==
  /\ context.version < MaxVersion
  /\ \/ /\ "rest" \in Edits
        /\ context' = [context EXCEPT !.version = @ + 1, !.rest = @ + 1]
     \/ /\ "catalog" \in Edits
        /\ \E n \in Names, entries \in {<<>>} \cup {<<s>> : s \in Services} :
             /\ entries # context.catalog[n]
             /\ context' = WithEntries(context, n, entries)
  /\ UNCHANGED <<cached, fresh, mutex, requests, known>>

Locking(r) == CacheHit(r) \/ CacheMiss(r) \/ Invalidate(r)

Running(r) ==
  \/ Fetch(r) \/ FetchFails(r) \/ Store(r) \/ Decide(r) \/ CheckRegistry(r)
  \/ GetContext(r) \/ PutContext(r) \/ PutConflict(r) \/ PutFails(r) \/ Answer(r)

Next ==
  \/ \E r \in Requests : SubmitList(r) \/ SubmitWrite(r) \/ Locking(r) \/ Running(r)
  \/ Expire
  \/ Edit

(* Goroutines run, the API server and the registry answer or fail, a        *)
(* sync.Mutex hands itself over to a waiter it has starved, and time        *)
(* passes.                                                                  *)
Fairness ==
  /\ \A r \in Requests : WF_vars(Running(r)) /\ SF_vars(Locking(r))
  /\ WF_vars(Expire)

Spec == Init /\ [][Next]_vars
FairSpec == Spec /\ Fairness

-----------------------------------------------------------------------------
(* r.mu is held across steps by the request that asks the API server, and   *)
(* by no other: no second fetch and no Invalidate gets between its Get and  *)
(* the caching of the answer.                                               *)
OneFetch ==
  \A r \in Requests : requests[r].pc \in {"fetch", "fetched"} <=> mutex = r

(* The catalog never goes back for the clients of this server: a request    *)
(* reads a Context at least as new as any that was answered, or that a      *)
(* write had acknowledged, before the request arrived.  This is why a write *)
(* ends with Invalidate and why getContext holds r.mu over its Get.         *)
ReadsMonotone ==
  \A r \in Requests :
    requests[r].pc \in {"check", "registry", "get", "put", "invalidate", "answer"} =>
      requests[r].seen >= requests[r].floor

(* What is cached is no older than what an answered request has shown. *)
CacheKnown == cached # None => cached.version >= known

(* A Context read for a read-modify-write whose resource version is still   *)
(* the current one is the Context.                                          *)
BaseCurrent ==
  \A r \in Requests :
    requests[r].pc = "put" /\ requests[r].base.version = context.version =>
      requests[r].base = context

(* "retrying on resource-version conflicts so concurrent edits don't        *)
(* clobber each other": a request changes the entries of its own service,   *)
(* and neither another service nor the rest of the Context, whatever        *)
(* happened since it read.                                                  *)
NoClobber ==
  [][requests' # requests /\ context' # context =>
       /\ context'.rest = context.rest
       /\ \E r \in Requests : \A n \in Names :
            context'.catalog[n] # context.catalog[n] =>
              requests[r].name = n /\ requests'[r] # requests[r]]_vars

(* Every request ends: r.mu is given back on every path and the retries are *)
(* bounded.                                                                 *)
RequestsEnd ==
  \A r \in Requests : requests[r].pc # "idle" ~> requests[r].pc = "idle"

(* A stale Context stops being served: after the last change (writes are    *)
(* bounded here) the TTL gets every later reader the current one.           *)
StaleEnds ==
  <>[](\A r \in Requests :
         requests[r].pc = "check" => requests[r].base.version = context.version)

(* Requests come to an end, and so does the time in which they see an old    *)
(* Context.                                                                  *)
CatalogSettles == RequestsEnd /\ StaleEnds

-----------------------------------------------------------------------------
(* "name is required, unique in the catalog".  Holds with one writer, any   *)
(* number of readers filling the cache, and nobody else editing the         *)
(* catalog; not for two concurrent POSTs: both look at a catalog without    *)
(* the name, and the retry of mutateCategories does not look again.         *)
NamesUnique == \A n \in Names : Len(context.catalog[n]) <= 1

(* "UpdatePlatformService replaces the service matching name": a PUT that   *)
(* is about to answer 200 with a service has stored it.  With one writer,   *)
(* as above; a DELETE of another writer may get between the check and the   *)
(* write, which then finds nothing to replace and reports nothing.          *)
UpdateStored ==
  \A r \in Requests :
    requests[r].pc = "invalidate" /\ requests[r].op = "update" =>
      requests[r].base.catalog[requests[r].name] = <<requests[r].service>>

(* What the server acknowledged is in the catalog, and once: a write drops   *)
(* the cached Context, so the checks of the next one see it.                 *)
WritesStored == NamesUnique /\ UpdateStored
=============================================================================
