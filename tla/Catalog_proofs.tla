--------------------------- MODULE Catalog_proofs ---------------------------
(***************************************************************************)
(* Proofs about Catalog for any number of requests, services and versions: *)
(* reads never go back, and no write clobbers another one.                 *)
(***************************************************************************)
EXTENDS Catalog, TLAPS

(* What the place of a request in its handler says of its locals. *)
RequestOK(q) ==
  /\ q.pc # "idle" /\ q.op # "list" => q.name \in Names
  /\ q.pc # "idle" /\ q.op \in {"add", "update"} => q.service \in Services
  /\ q.pc \in {"registry", "get", "put", "invalidate"} => q.op # "list"
  /\ q.pc \notin {"idle", "read", "fetch"} => q.base \in Context

RequestsOK == \A r \in Requests : RequestOK(requests[r])

(* Version v may be shown to a client: nobody who reads from now on can be  *)
(* given an older one, neither from the cache nor from a Get under way.     *)
Shown(v) ==
  /\ v <= context.version
  /\ cached # None => v <= cached.version
  /\ \A r \in Requests : requests[r].pc = "fetched" => v <= requests[r].base.version

(* What is known, and what a request is about to make known, may be shown.  *)
ShownOK ==
  /\ Shown(known)
  /\ \A r \in Requests : Shown(requests[r].seen)

(* No copy of the Context is ahead of it, no floor ahead of known, and a    *)
(* write works on a Context no older than the one its check read.           *)
VersionsOK ==
  /\ cached # None => cached.version <= context.version
  /\ \A r \in Requests :
       /\ requests[r].floor <= known
       /\ requests[r].pc \notin {"idle", "read", "fetch"} =>
            requests[r].base.version <= context.version
       /\ requests[r].pc \in {"put", "invalidate"} =>
            requests[r].seen <= requests[r].base.version

(* The inductive invariant. *)
Inv ==
  /\ TypeOK /\ RequestsOK /\ OneFetch /\ ShownOK /\ VersionsOK
  /\ ReadsMonotone /\ BaseCurrent

-----------------------------------------------------------------------------
(* The Context *)

(* Changing the entries of a service gives the next version. *)
LEMMA WithEntriesType ==
  ASSUME NEW c \in Context, NEW n \in Names, NEW entries \in Seq(Services)
  PROVE  /\ WithEntries(c, n, entries) \in Context
         /\ WithEntries(c, n, entries).version = c.version + 1
         /\ WithEntries(c, n, entries).rest = c.rest
         /\ \A m \in Names \ {n} : WithEntries(c, n, entries).catalog[m] = c.catalog[m]
<1>1. [c.catalog EXCEPT ![n] = entries] \in [Names -> Seq(Services)]
  BY DEF Context
<1>2. c.version + 1 \in Nat /\ c.rest \in Nat
  BY DEF Context
<1>3. \A m \in Names \ {n} : [c.catalog EXCEPT ![n] = entries][m] = c.catalog[m]
  BY DEF Context
<1> QED BY <1>1, <1>2, <1>3 DEF WithEntries, Context

(* What a request writes is well formed: its own base, or the next version  *)
(* of it with other entries of its own service.                             *)
LEMMA WrittenType ==
  ASSUME NEW q \in Request, RequestOK(q), q.pc = "put"
  PROVE  /\ Written(q) \in Context
         /\ \/ Written(q) = q.base
            \/ Written(q).version = q.base.version + 1
         /\ Written(q).rest = q.base.rest
         /\ \A n \in Names \ {q.name} : Written(q).catalog[n] = q.base.catalog[n]
<1>1. /\ q.op \in {"add", "update", "remove"} /\ q.name \in Names /\ q.base \in Context
      /\ q.op \in {"add", "update"} => q.service \in Services
  BY DEF RequestOK, Request
<1>2. Mutated(q) \in Seq(Services)
  <2>1. q.base.catalog[q.name] \in Seq(Services)
    BY <1>1 DEF Context
  <2>2. CASE q.op = "add"
    BY <1>1, <2>1, <2>2 DEF Mutated
  <2>3. CASE q.op = "update"
    BY <1>1, <2>1, <2>3 DEF Mutated
  <2>4. CASE q.op = "remove"
    BY <1>1, <2>4 DEF Mutated
  <2> QED BY <1>1, <2>2, <2>3, <2>4
<1>3. CASE Written(q) = q.base
  BY <1>1, <1>3
<1>4. CASE Written(q) = WithEntries(q.base, q.name, Mutated(q))
  BY <1>1, <1>2, <1>4, WithEntriesType
<1> QED BY <1>3, <1>4 DEF Written

(* A step that changes the Context makes its next version. *)
LEMMA ContextStep ==
  ASSUME Inv, Next
  PROVE  context' = context \/ (context' \in Context /\ context'.version = context.version + 1)
<1> USE DEF Inv
<1>1. ASSUME NEW r \in Requests, requests[r].pc = "put",
             requests[r].base.version = context.version, context' = Written(requests[r])
      PROVE  context' = context \/ (context' \in Context /\ context'.version = context.version + 1)
  <2>1. requests[r] \in Request /\ RequestOK(requests[r]) /\ requests[r].base = context
    BY <1>1 DEF TypeOK, RequestsOK, BaseCurrent
  <2> QED BY <1>1, <2>1, WrittenType
<1>2. ASSUME NEW r \in Requests, PutContext(r) \/ PutFails(r)
      PROVE  context' = context \/ (context' \in Context /\ context'.version = context.version + 1)
  BY <1>1, <1>2 DEF PutContext, PutFails, At
<1>3. CASE Edit
  <2>1. context \in Context
    BY DEF TypeOK
  <2>2. CASE context' = [context EXCEPT !.version = @ + 1, !.rest = @ + 1]
    <3>1. context.version + 1 \in Nat /\ context.rest + 1 \in Nat
      BY <2>1 DEF Context
    <3>2. context' = [version |-> context.version + 1, catalog |-> context.catalog,
                      rest |-> context.rest + 1]
      BY <2>1, <2>2 DEF Context
    <3>3. context.catalog \in [Names -> Seq(Services)]
      BY <2>1 DEF Context
    <3> QED BY <3>1, <3>2, <3>3 DEF Context
  <2>3. ASSUME NEW n \in Names, NEW entries \in {<<>>} \cup {<<s>> : s \in Services},
               context' = WithEntries(context, n, entries)
        PROVE  context' \in Context /\ context'.version = context.version + 1
    <3>1. \A s \in Services : <<s>> \in Seq(Services)
      OBVIOUS
    <3>2. <<>> \in Seq(Services)
      OBVIOUS
    <3>3. entries \in Seq(Services)
      BY <3>1, <3>2
    <3> QED BY <2>1, <2>3, <3>3, WithEntriesType
  <2> QED BY <1>3, <2>2, <2>3 DEF Edit
<1>4. CASE UNCHANGED context
  BY <1>4
<1>5. \/ UNCHANGED context \/ Edit
      \/ \E r \in Requests : PutContext(r) \/ PutFails(r)
  BY DEF Next, Locking, Running, SubmitList, SubmitWrite, CacheHit, CacheMiss, Invalidate, Fetch,
         FetchFails, Store, Decide, CheckRegistry, GetContext, PutConflict, Answer, Expire
<1> QED BY <1>2, <1>3, <1>4, <1>5

-----------------------------------------------------------------------------
(* Steps *)

(* The versions in a state are numbers. *)
LEMMA VersionTypes ==
  ASSUME TypeOK, RequestsOK
  PROVE  /\ context.version \in Nat
         /\ known \in Nat
         /\ cached # None => cached.version \in Nat
         /\ \A r \in Requests :
              /\ requests[r].seen \in Nat /\ requests[r].floor \in Nat
              /\ requests[r].pc \notin {"idle", "read", "fetch"} => requests[r].base.version \in Nat
  BY DEF TypeOK, RequestsOK, RequestOK, Request, Context

(* A finished request. *)
LEMMA IdleOK ==
  /\ IdleRequest \in Request /\ RequestOK(IdleRequest)
  /\ IdleRequest.pc = "idle" /\ IdleRequest.seen = 0 /\ IdleRequest.floor = 0
  BY DEF IdleRequest, NewRequest, Request, Locations, RequestOK

(* Where r.mu does not change hands, OneFetch only needs the request that   *)
(* moves to stay on its side of it.                                         *)
LEMMA SameMutex ==
  ASSUME TypeOK, OneFetch, NEW r \in Requests, NEW new,
         requests' = [requests EXCEPT ![r] = new], UNCHANGED mutex,
         new.pc \in {"fetch", "fetched"} <=> requests[r].pc \in {"fetch", "fetched"}
  PROVE  OneFetch'
<1> SUFFICES ASSUME NEW d \in Requests
             PROVE  requests'[d].pc \in {"fetch", "fetched"} <=> mutex' = d
  BY DEF OneFetch
<1>1. CASE d = r
  BY <1>1 DEF TypeOK, OneFetch
<1>2. CASE d # r
  BY <1>2 DEF TypeOK, OneFetch
<1> QED BY <1>1, <1>2

(* A request that moves while the cache and known stay, and the Context     *)
(* stays or gets its next version, keeps the invariant when what it holds   *)
(* and what it will show are right.                                         *)
LEMMA MoveStep ==
  ASSUME Inv, NEW r \in Requests, NEW new \in Request, RequestOK(new),
         requests' = [requests EXCEPT ![r] = new],
         context' = context \/ (context' \in Context /\ context'.version = context.version + 1),
         UNCHANGED <<cached, fresh, known>>, mutex' \in Requests \cup {None}, OneFetch',
         Shown(new.seen), new.floor <= known,
         new.pc \notin {"idle", "read", "fetch"} => new.base.version <= context'.version,
         new.pc \in {"put", "invalidate"} => new.seen <= new.base.version,
         new.pc = "fetched" => new.base = context,
         new.pc \in {"check", "registry", "get", "put", "invalidate", "answer"} =>
           new.seen >= new.floor,
         new.pc = "put" /\ new.base.version = context'.version => new.base = context'
  PROVE  Inv'
<1> USE DEF Inv
<1>0. /\ requests \in [Requests -> Request]
      /\ requests'[r] = new
      /\ \A d \in Requests \ {r} : requests'[d] = requests[d]
      /\ \A d \in Requests : requests'[d] = new \/ requests'[d] = requests[d]
  BY DEF TypeOK
<1>1. TypeOK' /\ RequestsOK'
  BY <1>0 DEF TypeOK, RequestsOK
<1>2. context.version \in Nat /\ context'.version \in Nat /\ context.version <= context'.version
  BY VersionTypes
<1>3. ASSUME NEW v \in Nat, Shown(v) PROVE Shown(v)'
  <2>1. v <= context.version /\ v <= context'.version
    BY <1>2, <1>3 DEF Shown
  <2>2. ASSUME NEW d \in Requests, requests'[d].pc = "fetched" PROVE v <= requests'[d].base.version
    BY <1>0, <1>3, <2>1, <2>2 DEF Shown
  <2> QED BY <1>3, <2>1, <2>2 DEF Shown
<1>4. ShownOK'
  <2>1. known \in Nat /\ Shown(known)
    BY VersionTypes DEF ShownOK
  <2>2. ASSUME NEW d \in Requests PROVE requests'[d].seen \in Nat /\ Shown(requests'[d].seen)
    BY <1>0, <1>1, <2>2 DEF ShownOK, TypeOK, Request
  <2>3. ASSUME NEW d \in Requests PROVE Shown(requests[d].seen)'
    BY <1>3, <2>2 DEF Shown
  <2> QED BY <1>3, <2>1, <2>3 DEF ShownOK, Shown
<1>5. VersionsOK'
  <2>1. cached' # None => cached'.version <= context'.version
    BY <1>2, VersionTypes DEF VersionsOK
  <2>2. ASSUME NEW d \in Requests
        PROVE  /\ requests'[d].floor <= known'
               /\ requests'[d].pc \notin {"idle", "read", "fetch"} =>
                    requests'[d].base.version <= context'.version
               /\ requests'[d].pc \in {"put", "invalidate"} =>
                    requests'[d].seen <= requests'[d].base.version
    <3>1. CASE d = r
      BY <1>0, <3>1
    <3>2. CASE d # r
      BY <1>0, <1>2, <3>2, VersionTypes DEF VersionsOK
    <3> QED BY <3>1, <3>2
  <2> QED BY <2>1, <2>2 DEF VersionsOK
<1>6. ReadsMonotone'
  BY <1>0 DEF ReadsMonotone
<1>7. BaseCurrent'
  <2> SUFFICES ASSUME NEW d \in Requests, requests'[d].pc = "put",
                      requests'[d].base.version = context'.version
               PROVE  requests'[d].base = context'
    BY DEF BaseCurrent
  <2>1. CASE d = r
    BY <1>0, <2>1
  <2>2. CASE d # r
    <3>1. requests'[d] = requests[d] /\ requests[d].base.version <= context.version
      BY <1>0, <2>2 DEF VersionsOK
    <3>2. requests[d].base.version \in Nat
      BY <3>1, VersionTypes
    <3>3. context' = context
      BY <1>2, <3>1, <3>2
    <3> QED BY <3>1, <3>3 DEF BaseCurrent
  <2> QED BY <2>1, <2>2
<1> QED BY <1>1, <1>4, <1>5, <1>6, <1>7

(* A step that moves no request and leaves the cache alone. *)
LEMMA EnvironmentStep ==
  ASSUME Inv, UNCHANGED <<cached, mutex, requests, known>>, fresh' \in BOOLEAN,
         context' = context \/ (context' \in Context /\ context'.version = context.version + 1)
  PROVE  Inv'
<1> USE DEF Inv
<1>1. context.version \in Nat /\ context'.version \in Nat /\ context.version <= context'.version
  BY VersionTypes
<1>2. TypeOK' /\ RequestsOK' /\ OneFetch' /\ ReadsMonotone'
  BY DEF TypeOK, RequestsOK, OneFetch, ReadsMonotone
<1>3. ASSUME NEW v \in Nat, Shown(v) PROVE Shown(v)'
  BY <1>1, <1>3 DEF Shown
<1>4. ShownOK'
  <2>1. known \in Nat /\ Shown(known)
    BY VersionTypes DEF ShownOK
  <2>2. ASSUME NEW d \in Requests PROVE Shown(requests[d].seen)'
    <3>1. requests[d].seen \in Nat /\ Shown(requests[d].seen)
      BY VersionTypes DEF ShownOK
    <3> QED BY <1>3, <3>1 DEF Shown
  <2> QED BY <1>3, <2>1, <2>2 DEF ShownOK, Shown
<1>5. VersionsOK'
  BY <1>1, VersionTypes DEF VersionsOK
<1>6. BaseCurrent'
  <2> SUFFICES ASSUME NEW d \in Requests, requests[d].pc = "put",
                      requests[d].base.version = context'.version
               PROVE  requests[d].base = context'
    BY DEF BaseCurrent
  <2>1. requests[d].base.version \in Nat /\ requests[d].base.version <= context.version
    BY VersionTypes DEF VersionsOK
  <2>2. context' = context
    BY <1>1, <2>1
  <2> QED BY <2>2 DEF BaseCurrent
<1> QED BY <1>2, <1>4, <1>5, <1>6

(* The end of a request that does not hold r.mu. *)
LEMMA DoneStep ==
  ASSUME Inv, NEW r \in Requests, Done(r), UNCHANGED <<cached, fresh, mutex, known>>,
         context' = context \/ (context' \in Context /\ context'.version = context.version + 1),
         requests[r].pc \notin {"fetch", "fetched"}
  PROVE  Inv'
<1> USE DEF Inv
<1>1. requests' = [requests EXCEPT ![r] = IdleRequest]
  BY DEF Done
<1>2. OneFetch'
  BY <1>1, IdleOK, SameMutex
<1>3. Shown(0)
  <2>1. context.version \in Nat /\ (cached # None => cached.version \in Nat)
    BY VersionTypes
  <2>2. \A d \in Requests : requests[d].pc = "fetched" => requests[d].base.version \in Nat
    BY VersionTypes
  <2> QED BY <2>1, <2>2 DEF Shown
<1>4. 0 <= known /\ mutex' \in Requests \cup {None}
  BY VersionTypes DEF TypeOK
<1> QED BY <1>1, <1>2, <1>3, <1>4, IdleOK, MoveStep

(* The arrival of a request. *)
LEMMA SubmitStep ==
  ASSUME Inv, NEW r \in Requests, requests[r].pc = "idle",
         UNCHANGED <<context, cached, fresh, mutex, known>>,
         NEW op \in {"list", "add", "update", "remove"}, NEW n \in Names \cup {None},
         NEW s \in Services \cup {None},
         op # "list" => n \in Names, op \in {"add", "update"} => s \in Services,
         requests' = [requests EXCEPT ![r] = NewRequest("read", op, n, s, known)]
  PROVE  Inv'
<1> USE DEF Inv
<1> DEFINE new == NewRequest("read", op, n, s, known)
<1>1. /\ new.pc = "read" /\ new.seen = 0 /\ new.floor = known
      /\ new.op = op /\ new.name = n /\ new.service = s
  BY DEF NewRequest
<1>2. new \in Request
  BY VersionTypes DEF NewRequest, Request, Locations
<1> HIDE DEF new
<1>3. RequestOK(new)
  BY <1>1 DEF RequestOK
<1>4. requests' = [requests EXCEPT ![r] = new]
  BY DEF new
<1>5. OneFetch'
  BY <1>1, <1>4, SameMutex
<1>6. Shown(0)
  <2>1. context.version \in Nat /\ (cached # None => cached.version \in Nat)
    BY VersionTypes
  <2>2. \A d \in Requests : requests[d].pc = "fetched" => requests[d].base.version \in Nat
    BY VersionTypes
  <2> QED BY <2>1, <2>2 DEF Shown
<1>7. known <= known /\ mutex' \in Requests \cup {None}
  BY VersionTypes DEF TypeOK
<1> QED BY <1>1, <1>2, <1>3, <1>4, <1>5, <1>6, <1>7, MoveStep

(* A step from one place of the handler to another that keeps all locals.   *)
LEMMA GotoStep ==
  ASSUME Inv, NEW r \in Requests, NEW pc \in {"get", "registry", "answer"}, Goto(r, pc),
         UNCHANGED <<context, cached, fresh, mutex, known>>,
         requests[r].pc \in {"check", "registry"},
         pc # "answer" => requests[r].op # "list"
  PROVE  Inv'
<1> USE DEF Inv
<1> DEFINE q == requests[r]
           new == [q EXCEPT !.pc = pc]
<1>1. q \in Request /\ RequestOK(q)
  BY DEF TypeOK, RequestsOK
<1>2. /\ new.pc = pc /\ new.seen = q.seen /\ new.floor = q.floor /\ new.base = q.base
      /\ new.op = q.op /\ new.name = q.name /\ new.service = q.service
  BY <1>1 DEF Request
<1>3. new \in Request
  BY <1>1 DEF Request, Locations
<1>4. requests' = [requests EXCEPT ![r] = new]
  BY DEF Goto
<1> HIDE DEF new
<1>5. RequestOK(new)
  BY <1>1, <1>2 DEF RequestOK
<1>6. OneFetch'
  BY <1>2, <1>4, SameMutex
<1>7. /\ Shown(new.seen) /\ new.floor <= known
      /\ new.base.version <= context'.version
      /\ new.seen >= new.floor
  BY <1>2 DEF ShownOK, VersionsOK, ReadsMonotone
<1>8. mutex' \in Requests \cup {None}
  BY DEF TypeOK
<1> QED BY <1>2, <1>3, <1>4, <1>5, <1>6, <1>7, <1>8, MoveStep

(* getContext with a usable cache. *)
LEMMA CacheHitStep ==
  ASSUME Inv, NEW r \in Requests, CacheHit(r)
  PROVE  Inv'
<1> USE DEF Inv
<1> DEFINE q == requests[r]
           new == [q EXCEPT !.pc = "check", !.base = cached, !.seen = cached.version]
<1>1. q \in Request /\ RequestOK(q) /\ q.pc = "read"
  BY DEF TypeOK, RequestsOK, CacheHit, At
<1>2. cached \in Context /\ cached # None /\ cached.version \in Nat
  BY DEF TypeOK, CacheHit, Context
<1>3. /\ new.pc = "check" /\ new.seen = cached.version /\ new.floor = q.floor /\ new.base = cached
      /\ new.op = q.op /\ new.name = q.name /\ new.service = q.service
  BY <1>1 DEF Request
<1>4. new \in Request
  BY <1>1, <1>2 DEF Request, Locations
<1>5. requests' = [requests EXCEPT ![r] = new]
  BY DEF CacheHit
<1> HIDE DEF new
<1>6. RequestOK(new)
  BY <1>1, <1>2, <1>3 DEF RequestOK
<1>7. OneFetch'
  BY <1>1, <1>3, <1>5, SameMutex DEF CacheHit
<1>8. \A d \in Requests : requests[d].pc # "fetched"
  BY CatalogAssumption DEF OneFetch, CacheHit
<1>9. Shown(cached.version)
  BY <1>2, <1>8 DEF Shown, VersionsOK
<1>10. q.floor <= known /\ known <= cached.version /\ q.floor \in Nat /\ known \in Nat
  BY <1>2, VersionTypes DEF VersionsOK, ShownOK, Shown
<1>11. new.seen >= new.floor
  BY <1>2, <1>3, <1>10
<1>12. new.base.version <= context'.version
  BY <1>2, <1>3 DEF VersionsOK, CacheHit
<1>13. mutex' \in Requests \cup {None} /\ UNCHANGED <<context, cached, fresh, known>>
  BY DEF CacheHit, TypeOK
<1> QED BY <1>3, <1>4, <1>5, <1>6, <1>7, <1>9, <1>10, <1>11, <1>12, <1>13, MoveStep

(* getContext takes r.mu and goes to the API server. *)
LEMMA CacheMissStep ==
  ASSUME Inv, NEW r \in Requests, CacheMiss(r)
  PROVE  Inv'
<1> USE DEF Inv
<1> DEFINE q == requests[r]
           new == [q EXCEPT !.pc = "fetch"]
<1>1. q \in Request /\ RequestOK(q) /\ q.pc = "read"
  BY DEF TypeOK, RequestsOK, CacheMiss, At
<1>2. /\ new.pc = "fetch" /\ new.seen = q.seen /\ new.floor = q.floor
      /\ new.op = q.op /\ new.name = q.name /\ new.service = q.service
  BY <1>1 DEF Request
<1>3. new \in Request
  BY <1>1 DEF Request, Locations
<1>4. requests' = [requests EXCEPT ![r] = new]
  BY DEF CacheMiss, Goto
<1> HIDE DEF new
<1>5. RequestOK(new)
  BY <1>1, <1>2 DEF RequestOK
<1>6. OneFetch'
  <2> SUFFICES ASSUME NEW d \in Requests
               PROVE  requests'[d].pc \in {"fetch", "fetched"} <=> mutex' = d
    BY DEF OneFetch
  <2>1. requests[d].pc \notin {"fetch", "fetched"} /\ mutex' = r
    BY CatalogAssumption DEF OneFetch, CacheMiss
  <2>2. CASE d = r
    BY <1>2, <1>4, <2>1, <2>2 DEF TypeOK
  <2>3. CASE d # r
    BY <1>4, <2>1, <2>3 DEF TypeOK
  <2> QED BY <2>2, <2>3
<1>7. Shown(new.seen) /\ new.floor <= known
  BY <1>2 DEF ShownOK, VersionsOK
<1>8. mutex' \in Requests \cup {None} /\ UNCHANGED <<context, cached, fresh, known>>
  BY DEF CacheMiss
<1> QED BY <1>2, <1>3, <1>4, <1>5, <1>6, <1>7, <1>8, MoveStep

(* The API server answers a Get: the one of getContext, or the one of       *)
(* mutateCategories.                                                        *)
LEMMA GetStep ==
  ASSUME Inv, NEW r \in Requests, UNCHANGED <<context, cached, fresh, mutex, known>>,
         NEW pc \in {"fetched", "put"},
         pc = "fetched" => requests[r].pc = "fetch", pc = "put" => requests[r].pc = "get",
         requests' = [requests EXCEPT ![r].pc = pc, ![r].base = context]
  PROVE  Inv'
<1> USE DEF Inv
<1> DEFINE q == requests[r]
           new == [q EXCEPT !.pc = pc, !.base = context]
<1>1. q \in Request /\ RequestOK(q) /\ context \in Context /\ context.version \in Nat
  BY VersionTypes DEF TypeOK, RequestsOK
<1>2. /\ new.pc = pc /\ new.seen = q.seen /\ new.floor = q.floor /\ new.base = context
      /\ new.op = q.op /\ new.name = q.name /\ new.service = q.service
  BY <1>1 DEF Request
<1>3. new \in Request
  BY <1>1 DEF Request, Locations
<1>4. requests' = [requests EXCEPT ![r] = new]
  OBVIOUS
<1> HIDE DEF new
<1>5. RequestOK(new)
  BY <1>1, <1>2 DEF RequestOK
<1>6. OneFetch'
  BY <1>2, <1>4, SameMutex
<1>7. Shown(new.seen) /\ new.floor <= known /\ new.base.version <= context'.version
  BY <1>1, <1>2 DEF ShownOK, VersionsOK
<1>8. (pc = "put" => new.seen >= new.floor) /\ new.seen <= new.base.version
  BY <1>2 DEF ReadsMonotone, ShownOK, Shown
<1>9. mutex' \in Requests \cup {None}
  BY DEF TypeOK
<1> QED BY <1>2, <1>3, <1>4, <1>5, <1>6, <1>7, <1>8, <1>9, MoveStep

(* A conflicting write starts over. *)
LEMMA RetryStep ==
  ASSUME Inv, NEW r \in Requests, requests[r].pc = "put",
         UNCHANGED <<context, cached, fresh, mutex, known>>,
         requests' = [requests EXCEPT ![r].pc = "get", ![r].tries = requests[r].tries + 1]
  PROVE  Inv'
<1> USE DEF Inv
<1> DEFINE q == requests[r]
           new == [q EXCEPT !.pc = "get", !.tries = q.tries + 1]
<1>1. q \in Request /\ RequestOK(q)
  BY DEF TypeOK, RequestsOK
<1>2. /\ new.pc = "get" /\ new.seen = q.seen /\ new.floor = q.floor /\ new.base = q.base
      /\ new.op = q.op /\ new.name = q.name /\ new.service = q.service
  BY <1>1 DEF Request
<1>3. new \in Request
  <2>1. q.tries + 1 \in Nat
    BY <1>1 DEF Request
  <2>2. \A k \in Nat : [q EXCEPT !.pc = "get", !.tries = k] \in Request
    BY <1>1 DEF Request, Locations
  <2> QED BY <2>1, <2>2
<1>4. requests' = [requests EXCEPT ![r] = new]
  OBVIOUS
<1> HIDE DEF new
<1>5. RequestOK(new)
  BY <1>1, <1>2 DEF RequestOK
<1>6. OneFetch'
  BY <1>2, <1>4, SameMutex
<1>7. /\ Shown(new.seen) /\ new.floor <= known
      /\ new.base.version <= context'.version /\ new.seen >= new.floor
  BY <1>2 DEF ShownOK, VersionsOK, ReadsMonotone
<1>8. mutex' \in Requests \cup {None}
  BY DEF TypeOK
<1> QED BY <1>2, <1>3, <1>4, <1>5, <1>6, <1>7, <1>8, MoveStep

(* A write the API server accepts. *)
LEMMA PutContextStep ==
  ASSUME Inv, NEW r \in Requests, PutContext(r),
         context' = context \/ (context' \in Context /\ context'.version = context.version + 1)
  PROVE  Inv'
<1> USE DEF Inv
<1> DEFINE q == requests[r]
           new == [q EXCEPT !.pc = "invalidate", !.base = Written(q)]
<1>1. q \in Request /\ RequestOK(q) /\ q.pc = "put"
  BY DEF TypeOK, RequestsOK, PutContext, At
<1>2. Written(q) \in Context /\ context' = Written(q) /\ context'.version \in Nat
  BY <1>1, WrittenType DEF PutContext, Context
<1>3. /\ new.pc = "invalidate" /\ new.seen = q.seen /\ new.floor = q.floor /\ new.base = context'
      /\ new.op = q.op /\ new.name = q.name /\ new.service = q.service
  BY <1>1, <1>2 DEF Request
<1>4. new \in Request
  BY <1>1, <1>2 DEF Request, Locations
<1>5. requests' = [requests EXCEPT ![r] = new]
  BY DEF PutContext
<1> HIDE DEF new
<1>6. RequestOK(new)
  BY <1>1, <1>2, <1>3 DEF RequestOK
<1>7. OneFetch'
  BY <1>1, <1>3, <1>5, SameMutex DEF PutContext
<1>8. /\ Shown(new.seen) /\ new.floor <= known /\ new.seen >= new.floor
      /\ new.base.version <= context'.version
  BY <1>1, <1>2, <1>3 DEF ShownOK, VersionsOK, ReadsMonotone
<1>9. new.seen <= new.base.version
  <2>1. q.seen <= context.version /\ context.version \in Nat /\ q.seen \in Nat
    BY VersionTypes DEF ShownOK, Shown
  <2> QED BY <1>2, <1>3, <2>1
<1>10. mutex' \in Requests \cup {None} /\ UNCHANGED <<cached, fresh, known>>
  BY DEF PutContext, TypeOK
<1> QED BY <1>3, <1>4, <1>5, <1>6, <1>7, <1>8, <1>9, <1>10, MoveStep

(* A Get that fails gives r.mu back. *)
LEMMA FetchFailsStep ==
  ASSUME Inv, NEW r \in Requests, FetchFails(r)
  PROVE  Inv'
<1> USE DEF Inv
<1>1. requests' = [requests EXCEPT ![r] = IdleRequest]
  BY DEF FetchFails, Done
<1>2. OneFetch'
  <2> SUFFICES ASSUME NEW d \in Requests
               PROVE  requests'[d].pc \in {"fetch", "fetched"} <=> mutex' = d
    BY DEF OneFetch
  <2>1. mutex = r /\ mutex' = None
    BY DEF OneFetch, FetchFails, At
  <2>2. CASE d = r
    BY <1>1, <2>1, <2>2, IdleOK, CatalogAssumption DEF TypeOK
  <2>3. CASE d # r
    BY <1>1, <2>1, <2>3, CatalogAssumption DEF TypeOK, OneFetch
  <2> QED BY <2>2, <2>3
<1>3. Shown(0)
  <2>1. context.version \in Nat /\ (cached # None => cached.version \in Nat)
    BY VersionTypes
  <2>2. \A d \in Requests : requests[d].pc = "fetched" => requests[d].base.version \in Nat
    BY VersionTypes
  <2> QED BY <2>1, <2>2 DEF Shown
<1>4. 0 <= known /\ mutex' \in Requests \cup {None} /\ UNCHANGED <<context, cached, fresh, known>>
  BY VersionTypes DEF FetchFails
<1> QED BY <1>1, <1>2, <1>3, <1>4, IdleOK, MoveStep

(* Store and Invalidate replace the cache while nobody else is fetching, by *)
(* a Context no older than anything shown or by nothing, and let their      *)
(* request show the version it holds.                                       *)
LEMMA CacheStep ==
  ASSUME Inv, NEW r \in Requests, NEW pc \in {"check", "answer"}, fresh' \in BOOLEAN,
         requests' = [requests EXCEPT ![r].pc = pc, ![r].seen = requests[r].base.version],
         mutex' = None, UNCHANGED <<context, known>>,
         \A d \in Requests \ {r} : requests[d].pc \notin {"fetch", "fetched"},
         requests[r].pc \in {"fetched", "invalidate"},
         \/ cached' = None
         \/ requests[r].pc = "fetched" /\ cached' = requests[r].base,
         requests[r].base.version >= requests[r].floor
  PROVE  Inv'
<1> USE DEF Inv
<1> DEFINE q == requests[r]
           new == [q EXCEPT !.pc = pc, !.seen = q.base.version]
<1>1. /\ q \in Request /\ RequestOK(q) /\ q.base \in Context /\ q.base.version \in Nat
      /\ requests \in [Requests -> Request] /\ context.version \in Nat
  BY VersionTypes DEF TypeOK, RequestsOK, RequestOK, Context
<1>2. /\ new.pc = pc /\ new.seen = q.base.version /\ new.floor = q.floor /\ new.base = q.base
      /\ new.op = q.op /\ new.name = q.name /\ new.service = q.service
  BY <1>1 DEF Request
<1>3. new \in Request
  BY <1>1 DEF Request, Locations
<1>4. requests' = [requests EXCEPT ![r] = new]
  OBVIOUS
<1> HIDE DEF new
<1>5. RequestOK(new)
  BY <1>1, <1>2 DEF RequestOK
<1>6. /\ requests'[r] = new
      /\ \A d \in Requests \ {r} : requests'[d] = requests[d]
  BY <1>1, <1>4
<1>7. TypeOK' /\ RequestsOK'
  BY <1>1, <1>3, <1>4, <1>5, <1>6 DEF TypeOK, RequestsOK
<1>8. OneFetch' /\ (\A d \in Requests : requests'[d].pc # "fetched")
  BY <1>2, <1>6, CatalogAssumption DEF OneFetch
<1>9. q.base.version <= context.version /\ q.floor <= known
  BY DEF VersionsOK
<1>10. ASSUME NEW v \in Nat, Shown(v) \/ v = q.base.version PROVE Shown(v)'
  <2>1. v <= context.version
    BY <1>9, <1>10 DEF Shown
  <2>2. cached' # None => v <= cached'.version
    BY <1>1, <1>10 DEF Shown
  <2> QED BY <1>8, <2>1, <2>2 DEF Shown
<1>11. ShownOK'
  <2>1. known \in Nat /\ Shown(known)
    BY VersionTypes DEF ShownOK
  <2>2. ASSUME NEW d \in Requests PROVE Shown(requests[d].seen)'
    <3>1. requests'[d].seen \in Nat /\ (Shown(requests'[d].seen) \/ requests'[d].seen = q.base.version)
      BY <1>1, <1>2, <1>6, VersionTypes DEF ShownOK
    <3> QED BY <1>10, <3>1 DEF Shown
  <2> QED BY <1>10, <2>1, <2>2 DEF ShownOK, Shown
<1>12. VersionsOK'
  <2>1. cached' # None => cached'.version <= context'.version
    BY <1>9
  <2>2. ASSUME NEW d \in Requests
        PROVE  /\ requests'[d].floor <= known'
               /\ requests'[d].pc \notin {"idle", "read", "fetch"} =>
                    requests'[d].base.version <= context'.version
               /\ requests'[d].pc \in {"put", "invalidate"} =>
                    requests'[d].seen <= requests'[d].base.version
    BY <1>2, <1>6, <1>9 DEF VersionsOK
  <2> QED BY <2>1, <2>2 DEF VersionsOK
<1>13. ReadsMonotone'
  BY <1>2, <1>6 DEF ReadsMonotone
<1>14. BaseCurrent'
  BY <1>2, <1>6 DEF BaseCurrent
<1> QED BY <1>7, <1>8, <1>11, <1>12, <1>13, <1>14

(* getContext caches what it fetched. *)
LEMMA StoreStep ==
  ASSUME Inv, NEW r \in Requests, Store(r)
  PROVE  Inv'
<1> USE DEF Inv
<1>1. requests[r].pc = "fetched" /\ mutex = r
  BY DEF Store, At, OneFetch
<1>2. \A d \in Requests \ {r} : requests[d].pc \notin {"fetch", "fetched"}
  BY <1>1 DEF OneFetch
<1>3. requests[r].base.version >= requests[r].floor
  <2>1. known <= requests[r].base.version /\ requests[r].floor <= known
    BY <1>1 DEF ShownOK, Shown, VersionsOK
  <2>2. known \in Nat /\ requests[r].base.version \in Nat /\ requests[r].floor \in Nat
    BY <1>1, VersionTypes
  <2> QED BY <2>1, <2>2
<1> QED BY <1>1, <1>2, <1>3, CacheStep DEF Store

(* A write ends with Invalidate. *)
LEMMA InvalidateStep ==
  ASSUME Inv, NEW r \in Requests, Invalidate(r)
  PROVE  Inv'
<1> USE DEF Inv
<1>1. requests[r].pc = "invalidate" /\ mutex = None /\ mutex' = None
  BY DEF Invalidate, At
<1>2. \A d \in Requests : requests[d].pc \notin {"fetch", "fetched"}
  BY <1>1, CatalogAssumption DEF OneFetch
<1>3. fresh' \in BOOLEAN
  BY DEF Invalidate, TypeOK
<1>4. requests[r].base.version >= requests[r].floor
  <2>1. requests[r].floor <= requests[r].seen /\ requests[r].seen <= requests[r].base.version
    BY <1>1, VersionTypes DEF ReadsMonotone, VersionsOK
  <2>2. /\ requests[r].seen \in Nat /\ requests[r].base.version \in Nat
        /\ requests[r].floor \in Nat
    BY <1>1, VersionTypes
  <2> QED BY <2>1, <2>2
<1> QED BY <1>1, <1>2, <1>3, <1>4, CacheStep DEF Invalidate
(* The answer makes known what the request has seen. *)
LEMMA AnswerStep ==
  ASSUME Inv, NEW r \in Requests, Answer(r)
  PROVE  Inv'
<1> USE DEF Inv
<1>1. /\ requests' = [requests EXCEPT ![r] = IdleRequest] /\ requests[r].pc = "answer"
      /\ UNCHANGED <<context, cached, fresh, mutex>>
  BY DEF Answer, Done, At
<1>2. /\ requests \in [Requests -> Request]
      /\ requests'[r] = IdleRequest
      /\ \A d \in Requests \ {r} : requests'[d] = requests[d]
  BY <1>1 DEF TypeOK
<1>3. known \in Nat /\ known' \in Nat /\ known <= known' /\ known' \in {known, requests[r].seen}
  BY VersionTypes DEF Answer
<1>4. TypeOK' /\ RequestsOK'
  BY <1>1, <1>2, <1>3, IdleOK DEF TypeOK, RequestsOK
<1>5. OneFetch'
  BY <1>1, IdleOK, SameMutex
<1>6. ASSUME NEW v \in Nat, Shown(v) PROVE Shown(v)'
  BY <1>1, <1>2, <1>6, IdleOK DEF Shown
<1>7. Shown(0)
  <2>1. context.version \in Nat /\ (cached # None => cached.version \in Nat)
    BY VersionTypes
  <2>2. \A d \in Requests : requests[d].pc = "fetched" => requests[d].base.version \in Nat
    BY VersionTypes
  <2> QED BY <2>1, <2>2 DEF Shown
<1>8. ShownOK'
  <2>1. Shown(known')
    BY <1>3 DEF ShownOK
  <2>2. ASSUME NEW d \in Requests PROVE Shown(requests[d].seen)'
    <3>1. requests'[d].seen \in Nat /\ Shown(requests'[d].seen)
      BY <1>2, <1>7, IdleOK, VersionTypes DEF ShownOK
    <3> QED BY <1>6, <3>1 DEF Shown
  <2>3. Shown(known)'
    BY <1>3, <1>6, <2>1 DEF Shown
  <2> QED BY <2>2, <2>3 DEF ShownOK
<1>9. VersionsOK'
  <2>1. ASSUME NEW d \in Requests
        PROVE  /\ requests'[d].floor <= known'
               /\ requests'[d].pc \notin {"idle", "read", "fetch"} =>
                    requests'[d].base.version <= context'.version
               /\ requests'[d].pc \in {"put", "invalidate"} =>
                    requests'[d].seen <= requests'[d].base.version
    <3>1. CASE d = r
      BY <1>2, <1>3, <3>1, IdleOK
    <3>2. CASE d # r
      BY <1>1, <1>2, <1>3, <3>2, VersionTypes DEF VersionsOK
    <3> QED BY <3>1, <3>2
  <2> QED BY <1>1, <2>1 DEF VersionsOK
<1>10. ReadsMonotone' /\ BaseCurrent'
  BY <1>1, <1>2, IdleOK DEF ReadsMonotone, BaseCurrent
<1> QED BY <1>4, <1>5, <1>8, <1>9, <1>10

-----------------------------------------------------------------------------
(* The inductive invariant *)

(* The server starts in the invariant. *)
LEMMA InitInv == Init => Inv
<1> SUFFICES ASSUME Init PROVE Inv
  OBVIOUS
<1>1. context \in Context /\ context.version = 0
  <2>1. \A s \in Services : <<s>> \in Seq(Services)
    OBVIOUS
  <2>2. <<>> \in Seq(Services)
    OBVIOUS
  <2>3. \A e \in {<<>>} \cup {<<s>> : s \in Services} : e \in Seq(Services)
    BY <2>1, <2>2
  <2> QED BY <2>3 DEF Init, Context
<1>2. TypeOK /\ RequestsOK
  BY <1>1, IdleOK DEF Init, TypeOK, RequestsOK
<1>3. OneFetch
  BY IdleOK, CatalogAssumption DEF Init, OneFetch
<1>4. ShownOK /\ VersionsOK /\ ReadsMonotone /\ BaseCurrent
  BY <1>1, IdleOK DEF Init, ShownOK, Shown, VersionsOK, ReadsMonotone, BaseCurrent
<1> QED BY <1>2, <1>3, <1>4 DEF Inv

(* Every step keeps it. *)
LEMMA NextInv == Inv /\ [Next]_vars => Inv'
<1> SUFFICES ASSUME Inv, [Next]_vars PROVE Inv'
  OBVIOUS
<1>1. CASE UNCHANGED vars
  BY <1>1, EnvironmentStep DEF vars, Inv, TypeOK
<1>2. CASE Expire
  BY <1>2, EnvironmentStep DEF Expire
<1>3. CASE Edit
  <2>1. fresh' \in BOOLEAN
    BY <1>3 DEF Edit, Inv, TypeOK
  <2>2. Next
    BY <1>3 DEF Next
  <2> QED BY <1>3, <2>1, <2>2, ContextStep, EnvironmentStep DEF Edit
<1>4. ASSUME NEW r \in Requests, SubmitList(r) PROVE Inv'
  BY <1>4, SubmitStep DEF SubmitList, At
<1>5. ASSUME NEW r \in Requests, SubmitWrite(r) PROVE Inv'
  <2>1. PICK n \in Names, op \in {"add", "update", "remove"}, s \in Services \cup {None} :
          /\ op \in {"add", "update"} => s \in Services
          /\ requests' = [requests EXCEPT ![r] = NewRequest("read", op, n, s, known)]
    BY <1>5 DEF SubmitWrite
  <2> QED BY <1>5, <2>1, SubmitStep DEF SubmitWrite, At
<1>6. ASSUME NEW r \in Requests, Locking(r) PROVE Inv'
  BY <1>6, CacheHitStep, CacheMissStep, InvalidateStep DEF Locking
<1>7. ASSUME NEW r \in Requests, Running(r) PROVE Inv'
  <2>0. Next
    BY <1>7 DEF Next
  <2>1. CASE Fetch(r)
    BY <2>1, GetStep DEF Fetch, At
  <2>2. CASE FetchFails(r)
    BY <2>2, FetchFailsStep
  <2>3. CASE Store(r)
    BY <2>3, StoreStep
  <2>4. CASE Decide(r)
    <3>1. PICK pc \in {"get", "registry", "answer"} :
            Goto(r, pc) /\ (pc # "answer" => requests[r].op # "list")
      <4>1. requests[r].op \in {"list", "add", "update", "remove"}
        BY DEF Inv, TypeOK, Request
      <4>2. CASE requests[r].op = "list"
        BY <2>4, <4>2 DEF Decide
      <4>3. CASE requests[r].op = "add"
        BY <2>4, <4>3 DEF Decide
      <4>4. CASE requests[r].op = "update"
        BY <2>4, <4>4 DEF Decide
      <4>5. CASE requests[r].op = "remove"
        BY <2>4, <4>5 DEF Decide
      <4> QED BY <4>1, <4>2, <4>3, <4>4, <4>5
    <3> QED BY <2>4, <3>1, GotoStep DEF Decide, At
  <2>5. CASE CheckRegistry(r)
    <3>1. requests[r].op # "list" /\ requests[r].pc = "registry"
      BY <2>5 DEF CheckRegistry, At, Inv, RequestsOK, RequestOK
    <3> QED BY <2>5, <3>1, GotoStep, DoneStep DEF CheckRegistry
  <2>6. CASE GetContext(r)
    BY <2>6, GetStep, DoneStep DEF GetContext, At
  <2>7. CASE PutContext(r)
    BY <2>0, <2>7, ContextStep, PutContextStep
  <2>8. CASE PutConflict(r)
    BY <2>8, RetryStep, DoneStep DEF PutConflict, At
  <2>9. CASE PutFails(r)
    BY <2>0, <2>9, ContextStep, DoneStep DEF PutFails, At
  <2>10. CASE Answer(r)
    BY <2>10, AnswerStep
  <2> QED BY <1>7, <2>1, <2>2, <2>3, <2>4, <2>5, <2>6, <2>7, <2>8, <2>9, <2>10 DEF Running
<1> QED BY <1>1, <1>2, <1>3, <1>4, <1>5, <1>6, <1>7 DEF Next

(* So it always holds. *)
LEMMA AlwaysInv == Spec => []Inv
  BY InitInv, NextInv, PTL DEF Spec

-----------------------------------------------------------------------------
(* One writer *)

(* At most one request at a time changes the catalog, nobody else edits it, *)
(* and an Update that fails was not applied.                                *)
OneWriter ==
  /\ \A a, b \in Writers : a = b
  /\ ~LostAnswers
  /\ "catalog" \notin Edits

(* No write has been stored whose Invalidate is still to come. *)
Settled == \A r \in Requests : requests[r].pc # "invalidate"

(* What a write has checked is still so: the name is free, or taken. *)
Decided(q, catalog) ==
  q.pc \in {"registry", "get", "put"} =>
    /\ q.op = "add" => catalog[q.name] = <<>>
    /\ q.op = "update" => catalog[q.name] # <<>>

(* The copies of the catalog are current until it is written: the one that  *)
(* is fetched for the cache, and the one a write decides and works on.      *)
CopyCurrent(q, catalog) ==
  /\ q.pc = "fetched" /\ Settled => q.base.catalog = catalog
  /\ q.pc \in {"check", "registry", "get", "put"} /\ q.op # "list" => q.base.catalog = catalog

CopiesCurrent ==
  /\ cached # None /\ Settled => cached.catalog = context.catalog
  /\ \A r \in Requests : CopyCurrent(requests[r], context.catalog)

(* The inductive invariant with one writer, on top of Inv. *)
OneInv ==
  /\ NamesUnique /\ UpdateStored /\ CopiesCurrent
  /\ \A r \in Requests : requests[r].op # "list" => r \in Writers
  /\ \A r \in Requests : Decided(requests[r], context.catalog)

(* A write that has not been stored yet finds nothing to be invalidated: it *)
(* is the only one.                                                         *)
LEMMA SoleWriter ==
  ASSUME Inv, OneInv, OneWriter, NEW r \in Requests, requests[r].op # "list",
         requests[r].pc # "invalidate"
  PROVE  Settled
<1>1. ASSUME NEW d \in Requests, requests[d].pc = "invalidate" PROVE FALSE
  <2>1. requests[d].op # "list"
    BY <1>1 DEF Inv, RequestsOK, RequestOK
  <2>2. d \in Writers /\ r \in Writers
    BY <2>1 DEF OneInv
  <2>3. d = r
    BY <2>2 DEF OneWriter
  <2> QED BY <1>1, <2>3
<1> QED BY <1>1 DEF Settled

(* A request that moves while the catalog stays, and neither has nor gets   *)
(* anything to invalidate.                                                  *)
LEMMA OneMove ==
  ASSUME Inv, OneInv, NEW r \in Requests, NEW new, requests' = [requests EXCEPT ![r] = new],
         context'.catalog = context.catalog, requests[r].pc # "invalidate", new.pc # "invalidate",
         cached' = cached \/ (Settled => cached'.catalog = context.catalog),
         new.op # "list" => r \in Writers,
         CopyCurrent(new, context.catalog), Decided(new, context.catalog)
  PROVE  OneInv'
<1>1. /\ requests'[r] = new /\ \A d \in Requests : d # r => requests'[d] = requests[d]
      /\ \A d \in Requests : requests'[d] \in {new, requests[d]}
  BY DEF Inv, TypeOK
<1>2. Settled' <=> Settled
  BY <1>1 DEF Settled
<1>3. \A d \in Requests : requests'[d].op # "list" => d \in Writers
  BY <1>1 DEF OneInv
<1>4. \A d \in Requests : CopyCurrent(requests'[d], context.catalog) /\ Decided(requests'[d], context.catalog)
  BY <1>1 DEF OneInv, CopiesCurrent
<1>5. \A d \in Requests : Decided(requests[d], context.catalog)'
  BY <1>4 DEF Decided
<1>6. \A d \in Requests : CopyCurrent(requests[d], context.catalog)'
  BY <1>2, <1>4 DEF CopyCurrent
<1>7. CopiesCurrent'
  BY <1>2, <1>6 DEF OneInv, CopiesCurrent
<1>8. NamesUnique'
  BY DEF OneInv, NamesUnique
<1>9. UpdateStored'
  <2>1. ASSUME NEW d \in Requests, requests'[d].pc = "invalidate" PROVE requests'[d] = requests[d]
    BY <1>1, <2>1
  <2> QED BY <2>1 DEF OneInv, UpdateStored
<1> QED BY <1>3, <1>5, <1>7, <1>8, <1>9 DEF OneInv

(* A request that ends. *)
LEMMA OneDone ==
  ASSUME Inv, OneInv, NEW r \in Requests, Done(r), UNCHANGED <<context, cached>>,
         requests[r].pc # "invalidate"
  PROVE  OneInv'
<1>1. IdleRequest.pc = "idle" /\ IdleRequest.op = "list"
  BY DEF IdleRequest, NewRequest
<1>2. CopyCurrent(IdleRequest, context.catalog) /\ Decided(IdleRequest, context.catalog)
  BY <1>1 DEF CopyCurrent, Decided
<1> QED BY <1>1, <1>2, OneMove DEF Done

(* A request that arrives: only writers write. *)
LEMMA OneSubmit ==
  ASSUME Inv, OneInv, NEW r \in Requests, SubmitList(r) \/ SubmitWrite(r)
  PROVE  OneInv'
<1>1. PICK op, n, s : /\ requests' = [requests EXCEPT ![r] = NewRequest("read", op, n, s, known)]
                      /\ op # "list" => r \in Writers
  BY DEF SubmitList, SubmitWrite
<1> DEFINE new == NewRequest("read", op, n, s, known)
<1>2. new.pc = "read" /\ new.op = op
  BY DEF NewRequest
<1>3. requests[r].pc # "invalidate" /\ UNCHANGED <<context, cached>>
  BY DEF SubmitList, SubmitWrite, At
<1>4. requests' = [requests EXCEPT ![r] = new]
  BY <1>1
<1> HIDE DEF new
<1>5. CopyCurrent(new, context.catalog) /\ Decided(new, context.catalog)
  BY <1>2 DEF CopyCurrent, Decided
<1> QED BY <1>1, <1>2, <1>3, <1>4, <1>5, OneMove

(* A read of the cache or of the API server, and the caching of its answer: *)
(* a write then holds the current catalog.                                  *)
LEMMA OneRead ==
  ASSUME Inv, OneInv, OneWriter, NEW r \in Requests,
         CacheHit(r) \/ CacheMiss(r) \/ Fetch(r) \/ Store(r)
  PROVE  OneInv'
<1> DEFINE q == requests[r]
<1>0. q \in Request /\ (q.op # "list" => r \in Writers)
  BY DEF Inv, TypeOK, OneInv
<1>1. q.op # "list" /\ q.pc # "invalidate" => Settled
  BY SoleWriter
<1>2. CASE CacheHit(r)
  <2> DEFINE new == [q EXCEPT !.pc = "check", !.base = cached, !.seen = cached.version]
  <2>1. q.pc = "read" /\ cached # None /\ UNCHANGED <<context, cached>> /\ requests' = [requests EXCEPT ![r] = new]
    BY <1>2 DEF CacheHit, At
  <2>2. new.pc = "check" /\ new.op = q.op /\ new.base = cached
    BY <1>0 DEF Request
  <2> HIDE DEF new
  <2>3. Settled => cached.catalog = context.catalog
    BY <2>1 DEF OneInv, CopiesCurrent
  <2>4. CopyCurrent(new, context.catalog) /\ Decided(new, context.catalog)
    BY <1>1, <2>1, <2>2, <2>3 DEF CopyCurrent, Decided
  <2> QED BY <1>0, <2>1, <2>2, <2>4, OneMove
<1>3. CASE CacheMiss(r)
  <2> DEFINE new == [q EXCEPT !.pc = "fetch"]
  <2>1. q.pc = "read" /\ UNCHANGED <<context, cached>> /\ requests' = [requests EXCEPT ![r] = new]
    BY <1>3 DEF CacheMiss, At, Goto
  <2>2. new.pc = "fetch" /\ new.op = q.op
    BY <1>0 DEF Request
  <2> HIDE DEF new
  <2>3. CopyCurrent(new, context.catalog) /\ Decided(new, context.catalog)
    BY <2>2 DEF CopyCurrent, Decided
  <2> QED BY <1>0, <2>1, <2>2, <2>3, OneMove
<1>4. CASE Fetch(r)
  <2> DEFINE new == [q EXCEPT !.pc = "fetched", !.base = context]
  <2>1. q.pc = "fetch" /\ UNCHANGED <<context, cached>> /\ requests' = [requests EXCEPT ![r] = new]
    BY <1>4 DEF Fetch, At
  <2>2. new.pc = "fetched" /\ new.op = q.op /\ new.base = context
    BY <1>0 DEF Request
  <2> HIDE DEF new
  <2>3. CopyCurrent(new, context.catalog) /\ Decided(new, context.catalog)
    BY <2>2 DEF CopyCurrent, Decided
  <2> QED BY <1>0, <2>1, <2>2, <2>3, OneMove
<1>5. CASE Store(r)
  <2> DEFINE new == [q EXCEPT !.pc = "check", !.seen = q.base.version]
  <2>1. /\ q.pc = "fetched" /\ UNCHANGED context /\ cached' = q.base
        /\ requests' = [requests EXCEPT ![r] = new]
    BY <1>5 DEF Store, At
  <2>2. new.pc = "check" /\ new.op = q.op /\ new.base = q.base
    BY <1>0 DEF Request
  <2> HIDE DEF new
  <2>3. Settled => q.base.catalog = context.catalog
    BY <2>1 DEF OneInv, CopiesCurrent, CopyCurrent
  <2>4. CopyCurrent(new, context.catalog) /\ Decided(new, context.catalog)
    BY <1>1, <2>1, <2>2, <2>3 DEF CopyCurrent, Decided
  <2> QED BY <1>0, <2>1, <2>2, <2>3, <2>4, OneMove
<1> QED BY <1>2, <1>3, <1>4, <1>5

(* The decision, the registry, and the reads and retries of                 *)
(* mutateCategories: what was decided stays true.                           *)
LEMMA OnePrepare ==
  ASSUME Inv, OneInv, NEW r \in Requests,
         Decide(r) \/ CheckRegistry(r) \/ GetContext(r) \/ PutConflict(r)
  PROVE  OneInv'
<1> DEFINE q == requests[r]
           c == context.catalog
<1>0. /\ q \in Request /\ RequestOK(q) /\ (q.op # "list" => r \in Writers)
      /\ CopyCurrent(q, c) /\ Decided(q, c)
  BY DEF Inv, TypeOK, RequestsOK, OneInv, CopiesCurrent
<1>1. UNCHANGED <<context, cached>> /\ q.pc \in {"check", "registry", "get", "put"}
  BY DEF Decide, CheckRegistry, GetContext, PutConflict, At
<1>2. CASE Done(r)
  BY <1>1, <1>2, OneDone
<1>3. ASSUME NEW new, requests' = [requests EXCEPT ![r] = new], new.op = q.op, new.name = q.name,
             new.pc \in {"answer", "registry", "get", "put"}, new.base \in {q.base, context},
             new.pc # "answer" =>
               /\ q.op = "add" => c[q.name] = <<>>
               /\ q.op = "update" => c[q.name] # <<>>
      PROVE  OneInv'
  <2>1. CopyCurrent(new, c)
    BY <1>0, <1>1, <1>3 DEF CopyCurrent
  <2>2. Decided(new, c)
    BY <1>3 DEF Decided
  <2>3. new.pc # "invalidate" /\ q.pc # "invalidate" /\ (new.op # "list" => r \in Writers)
    BY <1>0, <1>1, <1>3
  <2> HIDE DEF c
  <2> QED BY <1>1, <1>3, <2>1, <2>2, <2>3, OneMove DEF c
<1>4. CASE Decide(r)
  <2> DEFINE next(pc) == [q EXCEPT !.pc = pc]
  <2>1. \A pc : next(pc).pc = pc /\ next(pc).op = q.op /\ next(pc).name = q.name /\ next(pc).base = q.base
    BY <1>0 DEF Request
  <2>2. q.pc = "check"
    BY <1>4 DEF Decide, At
  <2>3. PICK pc \in {"answer", "registry", "get"} :
          /\ requests' = [requests EXCEPT ![r] = next(pc)]
          /\ pc # "answer" => /\ q.op = "add" => q.base.catalog[q.name] = <<>>
                              /\ q.op = "update" => q.base.catalog[q.name] # <<>>
    <3>1. q.op \in {"list", "add", "update", "remove"}
      BY <1>0 DEF Request
    <3>2. CASE q.op = "list"
      BY <1>4, <3>2 DEF Decide, Goto
    <3>3. CASE q.op = "add"
      BY <1>4, <3>3 DEF Decide, Goto
    <3>4. CASE q.op = "update"
      BY <1>4, <3>4 DEF Decide, Goto
    <3>5. CASE q.op = "remove"
      BY <1>4, <3>5 DEF Decide, Goto
    <3> QED BY <3>1, <3>2, <3>3, <3>4, <3>5
  <2>4. q.op # "list" => q.base.catalog = c
    BY <1>0, <2>2 DEF CopyCurrent
  <2> HIDE DEF next
  <2>5. pc # "answer" => /\ q.op = "add" => c[q.name] = <<>>
                         /\ q.op = "update" => c[q.name] # <<>>
    BY <2>3, <2>4
  <2> HIDE DEF c
  <2> QED BY <1>3, <2>1, <2>3, <2>5
<1>5. CASE CheckRegistry(r) /\ ~Done(r)
  <2> DEFINE new == [q EXCEPT !.pc = "get"]
  <2>1. q.pc = "registry" /\ requests' = [requests EXCEPT ![r] = new]
    BY <1>5 DEF CheckRegistry, At, Goto
  <2>2. new.pc = "get" /\ new.op = q.op /\ new.name = q.name /\ new.base = q.base
    BY <1>0 DEF Request
  <2> HIDE DEF new
  <2>3. /\ q.op = "add" => c[q.name] = <<>>
        /\ q.op = "update" => c[q.name] # <<>>
    BY <1>0, <2>1 DEF Decided
  <2> HIDE DEF c
  <2> QED BY <1>3, <2>1, <2>2, <2>3
<1>6. CASE GetContext(r) /\ ~Done(r)
  <2> DEFINE new == [q EXCEPT !.pc = "put", !.base = context]
  <2>1. q.pc = "get" /\ requests' = [requests EXCEPT ![r] = new]
    BY <1>6 DEF GetContext, At
  <2>2. new.pc = "put" /\ new.op = q.op /\ new.name = q.name /\ new.base = context
    BY <1>0 DEF Request
  <2> HIDE DEF new
  <2>3. /\ q.op = "add" => c[q.name] = <<>>
        /\ q.op = "update" => c[q.name] # <<>>
    BY <1>0, <2>1 DEF Decided
  <2> HIDE DEF c
  <2> QED BY <1>3, <2>1, <2>2, <2>3
<1>7. CASE PutConflict(r) /\ ~Done(r)
  <2> DEFINE new == [q EXCEPT !.pc = "get", !.tries = q.tries + 1]
  <2>1. q.pc = "put" /\ requests' = [requests EXCEPT ![r] = new]
    BY <1>7 DEF PutConflict, At
  <2>2. new.pc = "get" /\ new.op = q.op /\ new.name = q.name /\ new.base = q.base
    BY <1>0 DEF Request
  <2> HIDE DEF new
  <2>3. /\ q.op = "add" => c[q.name] = <<>>
        /\ q.op = "update" => c[q.name] # <<>>
    BY <1>0, <2>1 DEF Decided
  <2> HIDE DEF c
  <2> QED BY <1>3, <2>1, <2>2, <2>3
<1> QED BY <1>2, <1>4, <1>5, <1>6, <1>7

(* What a decided write makes of the entries of its service: one, or none. *)
LEMMA WrittenEntries ==
  ASSUME NEW q \in Request, RequestOK(q), q.pc = "put", Decided(q, q.base.catalog)
  PROVE  /\ Len(Written(q).catalog[q.name]) <= 1
         /\ q.op = "update" => Written(q).catalog[q.name] = <<q.service>>
<1>1. q.op \in {"add", "update", "remove"} /\ q.name \in Names /\ q.base \in Context
  BY DEF RequestOK, Request
<1>2. /\ Len(Mutated(q)) <= 1
      /\ q.op = "update" => Mutated(q) = <<q.service>>
  <2>1. CASE q.op = "add"
    <3>1. q.base.catalog[q.name] = <<>>
      BY <2>1 DEF Decided
    <3>2. Mutated(q) = <<q.service>>
      BY <2>1, <3>1 DEF Mutated
    <3> QED BY <2>1, <3>2
  <2>2. CASE q.op = "update"
    <3>1. Mutated(q) = <<q.service>>
      BY <2>2 DEF Mutated, Decided
    <3> QED BY <3>1
  <2>3. CASE q.op = "remove"
    BY <2>3 DEF Mutated
  <2> QED BY <1>1, <2>1, <2>2, <2>3
<1>3. Written(q).catalog[q.name] = Mutated(q)
  <2> DEFINE entries == Mutated(q)
  <2>1. [q.base.catalog EXCEPT ![q.name] = entries][q.name] = entries
    BY <1>1 DEF Context
  <2>2. Written(q) = IF entries = q.base.catalog[q.name] THEN q.base
                     ELSE WithEntries(q.base, q.name, entries)
    BY DEF Written
  <2> HIDE DEF entries
  <2>3. WithEntries(q.base, q.name, entries).catalog[q.name] = entries
    BY <2>1 DEF WithEntries
  <2> QED BY <2>2, <2>3 DEF entries
<1> QED BY <1>2, <1>3

(* The write itself.  The copies of the others are out of date until        *)
(* Invalidate, and none of the others is going to write.                    *)
LEMMA OnePut ==
  ASSUME Inv, OneInv, OneWriter, NEW r \in Requests, PutContext(r)
  PROVE  OneInv'
<1> DEFINE q == requests[r]
           w == Written(q)
           new == [q EXCEPT !.pc = "invalidate", !.base = w]
<1>0. /\ q \in Request /\ RequestOK(q) /\ q.pc = "put" /\ q.base = context /\ q.op # "list"
      /\ q.name \in Names /\ Decided(q, context.catalog)
  BY DEF Inv, TypeOK, RequestsOK, RequestOK, BaseCurrent, PutContext, At, OneInv
<1>1. context' = w /\ requests' = [requests EXCEPT ![r] = new] /\ UNCHANGED cached
  BY DEF PutContext
<1>2. /\ new.pc = "invalidate" /\ new.op = q.op /\ new.name = q.name /\ new.service = q.service
      /\ new.base = w
  BY <1>0 DEF Request
<1>3. /\ Len(w.catalog[q.name]) <= 1
      /\ q.op = "update" => w.catalog[q.name] = <<q.service>>
      /\ \A n \in Names \ {q.name} : w.catalog[n] = context.catalog[n]
  BY <1>0, WrittenEntries, WrittenType
<1> HIDE DEF w, new
<1>4. NamesUnique'
  BY <1>1, <1>3 DEF OneInv, NamesUnique
<1>5. requests'[r] = new /\ \A d \in Requests : d # r => requests'[d] = requests[d]
  BY <1>1 DEF Inv, TypeOK
<1>6. r \in Writers /\ ~Settled'
  BY <1>0, <1>2, <1>5 DEF OneInv, Settled
<1>7. ASSUME NEW d \in Requests, d # r PROVE requests[d].op = "list" /\ requests[d].pc \notin {"registry", "get", "put", "invalidate"}
  <2>1. requests[d].op = "list"
    BY <1>6, <1>7 DEF OneInv, OneWriter
  <2> QED BY <2>1 DEF Inv, RequestsOK, RequestOK
<1>8. UpdateStored'
  <2>1. ASSUME NEW d \in Requests, requests'[d].pc = "invalidate", requests'[d].op = "update"
        PROVE  requests'[d].base.catalog[requests'[d].name] = <<requests'[d].service>>
    <3>1. d = r
      BY <1>5, <1>7, <2>1
    <3> QED BY <1>2, <1>3, <1>5, <2>1, <3>1
  <2> QED BY <2>1 DEF UpdateStored
<1>9. \A d \in Requests : CopyCurrent(requests[d], context.catalog)' /\ Decided(requests[d], context.catalog)'
  <2>1. ASSUME NEW d \in Requests
        PROVE  ~(requests'[d].pc \in {"check", "registry", "get", "put"} /\ requests'[d].op # "list")
    BY <1>2, <1>5, <1>7
  <2>2. ASSUME NEW d \in Requests PROVE requests'[d].pc \notin {"registry", "get", "put"}
    BY <1>2, <1>5, <1>7
  <2> QED BY <1>6, <2>1, <2>2 DEF CopyCurrent, Decided
<1>10. CopiesCurrent'
  BY <1>6, <1>9 DEF CopiesCurrent
<1>11. \A d \in Requests : requests'[d].op # "list" => d \in Writers
  BY <1>5, <1>6 DEF OneInv
<1> QED BY <1>4, <1>8, <1>9, <1>10, <1>11 DEF OneInv

(* Invalidate: nothing is cached and, under r.mu, nothing on its way into   *)
(* the cache.                                                               *)
LEMMA OneInvalidate ==
  ASSUME Inv, OneInv, NEW r \in Requests, Invalidate(r)
  PROVE  OneInv'
<1> DEFINE q == requests[r]
           new == [q EXCEPT !.pc = "answer", !.seen = q.base.version]
<1>0. q \in Request
  BY DEF Inv, TypeOK
<1>1. /\ mutex = None /\ cached' = None /\ UNCHANGED context
      /\ requests' = [requests EXCEPT ![r] = new]
  BY DEF Invalidate
<1>2. new.pc = "answer" /\ new.op = q.op
  BY <1>0 DEF Request
<1> HIDE DEF new
<1>3. requests'[r] = new /\ \A d \in Requests : d # r => requests'[d] = requests[d]
  BY <1>1 DEF Inv, TypeOK
<1>4. \A d \in Requests : requests'[d].pc # "fetched"
  BY <1>1, <1>2, <1>3, CatalogAssumption DEF Inv, OneFetch
<1>5. \A d \in Requests : requests'[d].op # "list" => d \in Writers
  BY <1>2, <1>3 DEF OneInv
<1>6. ASSUME NEW d \in Requests
      PROVE  CopyCurrent(requests[d], context.catalog)' /\ Decided(requests[d], context.catalog)'
  <2>1. CASE d = r
    BY <1>2, <1>3, <2>1 DEF CopyCurrent, Decided
  <2>2. CASE d # r
    BY <1>1, <1>3, <1>4, <2>2 DEF OneInv, CopiesCurrent, CopyCurrent, Decided
  <2> QED BY <2>1, <2>2
<1>7. CopiesCurrent'
  BY <1>1, <1>6 DEF CopiesCurrent
<1>8. NamesUnique' /\ UpdateStored'
  BY <1>1, <1>2, <1>3 DEF OneInv, NamesUnique, UpdateStored
<1> QED BY <1>5, <1>6, <1>7, <1>8 DEF OneInv

(* Time, and administrators who leave the catalog alone. *)
LEMMA OneOthers ==
  ASSUME Inv, OneInv, UNCHANGED <<cached, requests>>, context'.catalog = context.catalog
  PROVE  OneInv'
  BY DEF OneInv, NamesUnique, UpdateStored, CopiesCurrent, CopyCurrent, Decided, Settled

LEMMA AlwaysOne == ASSUME OneWriter PROVE Spec => [](Inv /\ OneInv)
<1>1. Init => Inv /\ OneInv
  <2> SUFFICES ASSUME Init PROVE OneInv
    BY InitInv
  <2>1. \A r \in Requests : requests[r] = IdleRequest
    BY DEF Init
  <2>2. IdleRequest.pc = "idle" /\ IdleRequest.op = "list"
    BY DEF IdleRequest, NewRequest
  <2>3. NamesUnique
    <3>1. ASSUME NEW n \in Names PROVE Len(context.catalog[n]) <= 1
      <4>1. context.catalog \in [Names -> {<<>>} \cup {<<s>> : s \in Services}]
        BY DEF Init
      <4>2. context.catalog[n] = <<>> \/ \E s \in Services : context.catalog[n] = <<s>>
        BY <4>1
      <4>3. Len(<<>>) = 0 /\ \A s : Len(<<s>>) = 1
        OBVIOUS
      <4>4. Len(context.catalog[n]) = 0 \/ Len(context.catalog[n]) = 1
        BY <4>2, <4>3, Zenon
      <4>5. 0 <= 1 /\ 1 <= 1
        OBVIOUS
      <4> QED BY <4>4, <4>5, Zenon
    <3> QED BY <3>1 DEF NamesUnique
  <2>4. cached = None
    BY DEF Init
  <2> QED BY <2>1, <2>2, <2>3, <2>4 DEF OneInv, UpdateStored, CopiesCurrent, CopyCurrent, Decided
<1>2. ASSUME Inv, OneInv, [Next]_vars PROVE OneInv'
  <2>1. CASE UNCHANGED vars \/ Expire
    BY <1>2, <2>1, OneOthers DEF vars, Expire
  <2>2. CASE Edit
    <3>1. context'.catalog = context.catalog
      BY <1>2, <2>2 DEF Edit, OneWriter, Inv, TypeOK, Context
    <3> QED BY <1>2, <2>2, <3>1, OneOthers DEF Edit
  <2>3. ASSUME NEW r \in Requests, SubmitList(r) \/ SubmitWrite(r) \/ Locking(r) \/ Running(r)
        PROVE  OneInv'
    <3>1. CASE FetchFails(r) \/ PutFails(r) \/ Answer(r)
      <4>1. Done(r) /\ UNCHANGED <<context, cached>> /\ requests[r].pc # "invalidate"
        BY <3>1 DEF FetchFails, PutFails, Answer, OneWriter, At
      <4> QED BY <1>2, <4>1, OneDone
    <3> QED BY <1>2, <2>3, <3>1, OneSubmit, OneRead, OnePrepare, OnePut, OneInvalidate DEF Locking, Running
  <2> QED BY <1>2, <2>1, <2>2, <2>3 DEF Next
<1>3. Inv /\ OneInv /\ [Next]_vars => Inv' /\ OneInv'
  BY <1>2, NextInv
<1> QED BY <1>1, <1>3, PTL DEF Spec

-----------------------------------------------------------------------------
(* Theorems *)

(* The state of the catalog service stays well formed. *)
THEOREM TypeCorrect == Spec => []TypeOK
  BY AlwaysInv, PTL DEF Inv

(* getContext's Get runs under r.mu: one fetch at a time. *)
THEOREM OneFetchHolds == Spec => []OneFetch
  BY AlwaysInv, PTL DEF Inv

(* The cache of getContext never makes a client's catalog go back. *)
THEOREM ReadsMonotoneHolds == Spec => []ReadsMonotone
  BY AlwaysInv, PTL DEF Inv

(* What getContext has cached is no older than what was answered before.    *)
THEOREM CacheKnownHolds == Spec => []CacheKnown
<1>1. Inv => CacheKnown
  BY VersionTypes DEF Inv, ShownOK, Shown, CacheKnown
<1> QED BY <1>1, AlwaysInv, PTL

(* A current resource version vouches for the content of mutateCategories'  *)
(* copy.                                                                    *)
THEOREM BaseCurrentHolds == Spec => []BaseCurrent
  BY AlwaysInv, PTL DEF Inv

(* mutateCategories never clobbers a concurrent edit. *)
THEOREM NoClobberHolds == Spec => NoClobber
<1> DEFINE Kept ==
      requests' # requests /\ context' # context =>
        /\ context'.rest = context.rest
        /\ \E r \in Requests : \A n \in Names :
             context'.catalog[n] # context.catalog[n] =>
               requests[r].name = n /\ requests'[r] # requests[r]
<1>1. ASSUME Inv, Next PROVE Kept
  <2>1. SUFFICES ASSUME requests' # requests, context' # context
                 PROVE  /\ context'.rest = context.rest
                        /\ \E r \in Requests : \A n \in Names :
                             context'.catalog[n] # context.catalog[n] =>
                               requests[r].name = n /\ requests'[r] # requests[r]
    OBVIOUS
  <2>2. PICK r \in Requests : PutContext(r) \/ PutFails(r)
    BY <1>1, <2>1
       DEF Next, Locking, Running, SubmitList, SubmitWrite, CacheHit, CacheMiss, Invalidate, Fetch,
           FetchFails, Store, Decide, CheckRegistry, GetContext, PutConflict, Answer, Expire, Edit
  <2>3. /\ requests[r].pc = "put" /\ requests[r].base.version = context.version
        /\ context' = Written(requests[r])
    BY <2>1, <2>2 DEF PutContext, PutFails, At
  <2>4. requests[r].base = context /\ requests[r] \in Request /\ RequestOK(requests[r])
    BY <1>1, <2>3 DEF Inv, BaseCurrent, TypeOK, RequestsOK
  <2>5. /\ context'.rest = context.rest
        /\ \A n \in Names : context'.catalog[n] # context.catalog[n] => requests[r].name = n
    BY <2>3, <2>4, WrittenType
  <2>6. requests'[r].pc \in {"invalidate", "idle"}
    <3>1. CASE PutContext(r)
      BY <1>1, <2>4, <3>1 DEF PutContext, Inv, TypeOK, Request
    <3>2. CASE PutFails(r)
      BY <1>1, <3>2, IdleOK DEF PutFails, Done, Inv, TypeOK
    <3> QED BY <2>2, <3>1, <3>2
  <2>7. requests'[r] # requests[r]
    BY <2>3, <2>6
  <2> QED BY <2>5, <2>7
<1>2. Inv /\ [Next]_vars => [Kept]_vars
  BY <1>1
<1> QED BY <1>2, AlwaysInv, PTL DEF Spec, NoClobber

(* With one writer at a time, names are unique and an acknowledged PUT is    *)
(* stored, whatever readers fill the cache of getContext with and when: the  *)
(* Invalidate of a write comes after every fetch that may have missed it.    *)
THEOREM WritesStoredHolds == ASSUME OneWriter PROVE Spec => []WritesStored
<1>1. Inv /\ OneInv => WritesStored
  BY DEF OneInv, WritesStored
<1> QED BY <1>1, AlwaysOne, PTL
=============================================================================
