---------------------------- MODULE PackageSchema ----------------------------
(***************************************************************************)
(* The parameter schemas and connection inputs of packages:                *)
(* DefaultPackageSchemaService.load and fetchAndCache for one service and  *)
(* one tag, the key of the cache.  The document comes from a dump of the   *)
(* OCI artifact, which takes up to dumpTimeout, is cached for cacheTTL and *)
(* is shared by the callers that wait for it (singleflight).  The key does *)
(* not name the repository, which the catalog may change, and a repository *)
(* may serve a new artifact under the same tag.                            *)
(***************************************************************************)
EXTENDS Naturals, FiniteSets

CONSTANTS
  Callers,     \* calls of GetParameterSchema and GetPackageInputs
  Repos,       \* OCI repositories the catalog may name for the service
  MaxVersion,  \* bound on the artifacts published under the tag
  NoDoc        \* nothing cached, no answer, an error

ASSUME PackageSchemaAssumption ==
  /\ Repos # {}
  /\ MaxVersion \in Nat
  /\ NoDoc \notin Callers \cup Repos \cup [repo : Repos, version : 0..MaxVersion]

VARIABLES
  named,      \* the repository the catalog names
  published,  \* the artifact each repository serves under the tag
  cache,      \* the cached document, and whether it is younger than cacheTTL
  flight,     \* the caller whose fetch is under way, if any
  calls       \* how far each caller is

pkgVars == <<named, published, cache, flight, calls>>

Doc == [repo : Repos, version : 0..MaxVersion]

(* repo: what resolvePackage found; doc: the document the caller dumped, or  *)
(* its answer.  History: floor is what the repositories served when the      *)
(* caller started, covered says that there was a fresh entry or a fetch then.*)
Caller ==
  [pc : {"start", "load", "do", "recheck", "dump", "store", "wait", "done"},
   repo : Repos \cup {NoDoc}, doc : Doc \cup {NoDoc},
   floor : [Repos -> 0..MaxVersion], covered : BOOLEAN]

PkgTypeOK ==
  /\ named \in Repos
  /\ published \in [Repos -> 0..MaxVersion]
  /\ cache \in [doc : Doc, fresh : BOOLEAN] \cup {NoDoc}
  /\ flight \in Callers \cup {NoDoc}
  /\ calls \in [Callers -> Caller]

PkgInit ==
  /\ named = CHOOSE r \in Repos : TRUE
  /\ published = [r \in Repos |-> 0]
  /\ cache = NoDoc
  /\ flight = NoDoc
  /\ calls = [c \in Callers |-> [pc |-> "start", repo |-> NoDoc, doc |-> NoDoc,
                                floor |-> [r \in Repos |-> 0], covered |-> FALSE]]

CallAt(c, pc) == calls[c].pc = pc
SameWorld == UNCHANGED <<named, published>>

(* Mutant: an entry is used whatever its age. *)
Usable_AnyAge(entry) == entry # NoDoc

(* A cached entry is used within cacheTTL. *)
Usable(entry) == entry # NoDoc /\ entry.fresh

(* resolvePackage reads the catalog; when it cannot, or does not know the    *)
(* service, the call fails.                                                  *)
Resolve(c) ==
  /\ CallAt(c, "start")
  /\ \/ calls' = [calls EXCEPT ![c].pc = "load", ![c].repo = named, ![c].floor = published,
           ![c].covered = flight # NoDoc \/ (cache # NoDoc /\ cache.fresh)]
     \/ calls' = [calls EXCEPT ![c].pc = "done"]
  /\ UNCHANGED <<cache, flight>> /\ SameWorld

(* load: a usable entry is the answer. *)
Load(c) ==
  /\ CallAt(c, "load")
  /\ calls' = [calls EXCEPT ![c] =
       IF Usable(cache) THEN [@ EXCEPT !.pc = "done", !.doc = cache.doc] ELSE [@ EXCEPT !.pc = "do"]]
  /\ UNCHANGED <<cache, flight>> /\ SameWorld

(* Mutant: every caller fetches for itself. *)
Do_Alone(c) ==
  /\ CallAt(c, "do")
  /\ calls' = [calls EXCEPT ![c].pc = "recheck"]
  /\ flight' = c
  /\ UNCHANGED cache /\ SameWorld

(* inflight.Do: the first caller fetches, the others wait for its result. *)
Do(c) ==
  /\ CallAt(c, "do")
  /\ \/ /\ flight = NoDoc
        /\ flight' = c
        /\ calls' = [calls EXCEPT ![c].pc = "recheck"]
     \/ /\ flight # NoDoc
        /\ calls' = [calls EXCEPT ![c].pc = "wait"]
        /\ UNCHANGED flight
  /\ UNCHANGED cache /\ SameWorld

(* The fetch of c ends, with a document or with an error (NoDoc): c and all  *)
(* who wait have their answer.                                               *)
Land(c, doc) ==
  /\ calls' = [d \in Callers |-> IF d = c \/ CallAt(d, "wait")
                                 THEN [calls[d] EXCEPT !.pc = "done", !.doc = doc] ELSE calls[d]]
  /\ flight' = NoDoc

(* Mutant: nobody looks again. *)
Recheck_Not(c) ==
  /\ CallAt(c, "recheck")
  /\ calls' = [calls EXCEPT ![c].pc = "dump"]
  /\ UNCHANGED <<cache, flight>> /\ SameWorld

(* fetchAndCache looks again: a fetch that ended just before has cached it. *)
Recheck(c) ==
  /\ CallAt(c, "recheck")
  /\ \/ Usable(cache) /\ Land(c, cache.doc)
     \/ /\ ~Usable(cache)
        /\ calls' = [calls EXCEPT ![c].pc = "dump"]
        /\ UNCHANGED flight
  /\ UNCHANGED cache /\ SameWorld

(* fetchGroomedDoc: the dump reads the artifact of the repository. *)
Dump(c) ==
  /\ CallAt(c, "dump")
  /\ calls' = [calls EXCEPT ![c].pc = "store",
                            ![c].doc = [repo |-> calls[c].repo, version |-> published[calls[c].repo]]]
  /\ UNCHANGED <<cache, flight>> /\ SameWorld

(* Mutant: the error of a dump reaches only the caller that ran it. *)
FetchFails_Alone(c) ==
  /\ calls[c].pc \in {"recheck", "dump", "store"}
  /\ calls' = [calls EXCEPT ![c].pc = "done", ![c].doc = NoDoc]
  /\ UNCHANGED <<cache, flight>> /\ SameWorld

(* Mutant: an error is cached like a document. *)
FetchFails_Cached(c) ==
  /\ calls[c].pc \in {"recheck", "dump", "store"}
  /\ Land(c, NoDoc)
  /\ cache' = [doc |-> NoDoc, fresh |-> TRUE]
  /\ SameWorld

(* No credential, a dump that fails or is killed after dumpTimeout, or a     *)
(* document without a schema: an error, which is not cached.                 *)
FetchFails(c) ==
  /\ calls[c].pc \in {"recheck", "dump", "store"}
  /\ Land(c, NoDoc)
  /\ UNCHANGED cache /\ SameWorld

Store(c) ==
  /\ CallAt(c, "store")
  /\ cache' = [doc |-> calls[c].doc, fresh |-> TRUE]
  /\ Land(c, calls[c].doc)
  /\ SameWorld

(* Time passes, an artifact is published, the catalog names another          *)
(* repository.                                                               *)
Expire ==
  /\ cache # NoDoc /\ cache.fresh
  /\ cache' = [cache EXCEPT !.fresh = FALSE]
  /\ UNCHANGED <<flight, calls>> /\ SameWorld

Publish(r) ==
  /\ published[r] < MaxVersion
  /\ published' = [published EXCEPT ![r] = @ + 1]
  /\ UNCHANGED <<named, cache, flight, calls>>

Rename(r) ==
  /\ named # r
  /\ named' = r
  /\ UNCHANGED <<published, cache, flight, calls>>

PkgStep(c) == Resolve(c) \/ Load(c) \/ Do(c) \/ Recheck(c) \/ Dump(c) \/ FetchFails(c) \/ Store(c)

PkgNext == (\E c \in Callers : PkgStep(c)) \/ Expire \/ (\E r \in Repos : Publish(r) \/ Rename(r))

(* The goroutine of a caller runs, and the context of a dump ends it. *)
PkgFairness == \A c \in Callers : WF_pkgVars(PkgStep(c))

PkgSpec == PkgInit /\ [][PkgNext]_pkgVars
PkgFairSpec == PkgSpec /\ PkgFairness

-----------------------------------------------------------------------------

Dumping == {c \in Callers : calls[c].pc \in {"recheck", "dump", "store"}}

(* At most one fetch of the package is under way, and it is the one the      *)
(* waiting callers wait for: fetchGroomedDoc starts a process per dump.      *)
OneDump ==
  /\ \A c, d \in Dumping : c = d
  /\ Dumping = {c \in Callers : c = flight}
  /\ flight = NoDoc => \A c \in Callers : ~CallAt(c, "wait")

(* No dump starts while the cache has a document that is still good, not     *)
(* even for a caller that missed it before another one stored it.            *)
NoRedundantDump ==
  [][\A c \in Callers : ~CallAt(c, "dump") /\ calls'[c].pc = "dump"
       => cache = NoDoc \/ ~cache.fresh]_pkgVars

(* A caller that found neither a fresh entry nor a fetch under way gets no   *)
(* document older than its call: staleness is bounded by cacheTTL and one    *)
(* fetch.                                                                    *)
StalenessBounded ==
  \A c \in Callers :
    CallAt(c, "done") /\ calls[c].doc # NoDoc /\ ~calls[c].covered
      => calls[c].doc.version >= calls[c].floor[calls[c].doc.repo]

(* Every call is answered, the ones that wait for another's fetch included:  *)
(* a registry that never answers ends in the timeout of the dump.            *)
CallsAnswered == \A c \in Callers : CallAt(c, "load") ~> CallAt(c, "done")

(* fetchAndCache: one child process per package at a time, none while the    *)
(* cache is good, and no document older than the call unless it was there or *)
(* on its way.                                                               *)
DumpsShared == [](OneDump /\ StalenessBounded) /\ NoRedundantDump
=============================================================================
