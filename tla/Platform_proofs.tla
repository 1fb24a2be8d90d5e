--------------------------- MODULE Platform_proofs ---------------------------
(***************************************************************************)
(* Proofs about the components that MC_Platform puts beside each other, in *)
(* turn PackageSchema, Projects, SparkApps, LogStreams, PackageVersions,   *)
(* and at the end about their composition: for any number of callers,      *)
(* requests, names, services and lines, with any interleaving.             *)
(***************************************************************************)
EXTENDS MC_Platform, FiniteSetTheorems, TLAPS

-----------------------------------------------------------------------------
(* PackageSchema                                                            *)

(* A caller that starts has no document, one between resolvePackage and its *)
(* answer knows its repository, and one that is about to cache a document   *)
(* has it.                                                                  *)
Placed ==
  \A c \in Callers :
    /\ calls[c].pc \notin {"start", "done"} => calls[c].repo \in Repos
    /\ calls[c].pc = "store" => calls[c].doc \in Doc
    /\ calls[c].pc = "start" => calls[c].doc = NoDoc

(* What a caller found published when it started is still served. *)
FloorServed == \A c \in Callers, r \in Repos : calls[c].floor[r] <= published[r]

(* A document is none of those that were replaced when c started. *)
NotBefore(c, doc) == doc.version >= calls[c].floor[doc.repo]

(* Whatever an uncovered caller can be answered with was dumped after it    *)
(* started: a fresh entry, a document about to be cached, its own answer.   *)
DumpedSince ==
  \A c \in Callers : ~calls[c].covered =>
    /\ cache # NoDoc /\ cache.fresh => NotBefore(c, cache.doc)
    /\ \A d \in Callers : calls[d].pc = "store" => NotBefore(c, calls[d].doc)
    /\ calls[c].pc = "done" /\ calls[c].doc # NoDoc => NotBefore(c, calls[c].doc)

(* The inductive invariant. *)
PkgInv == PkgTypeOK /\ Placed /\ OneDump /\ FloorServed /\ DumpedSince

-----------------------------------------------------------------------------

(* NoDoc is neither a caller nor a document nor a cache entry's document. *)
LEMMA NoDocApart == NoDoc \notin Callers /\ NoDoc \notin Repos /\ NoDoc \notin Doc
  BY PackageSchemaAssumption DEF Doc

LEMMA PkgInitInv == PkgInit => PkgInv
<1> SUFFICES ASSUME PkgInit PROVE PkgInv
  OBVIOUS
<1>1. named \in Repos
  BY PackageSchemaAssumption DEF PkgInit
<1>2. 0 \in 0..MaxVersion
  BY PackageSchemaAssumption
<1>3. PkgTypeOK
  BY <1>1, <1>2 DEF PkgInit, PkgTypeOK, Caller
<1>4. Placed /\ FloorServed
  BY <1>2 DEF PkgInit, Placed, FloorServed
<1>5. OneDump
  BY NoDocApart DEF PkgInit, OneDump, Dumping, CallAt
<1>6. DumpedSince
  BY DEF PkgInit, DumpedSince
<1> QED BY <1>3, <1>4, <1>5, <1>6 DEF PkgInv

-----------------------------------------------------------------------------
(* One step keeps the types and places. *)


(* A caller that goes to another place of its own keeps the types. *)
LEMMA GoesOn ==
  ASSUME PkgTypeOK, Placed, NEW c \in Callers, NEW q \in Caller,
         calls' = [calls EXCEPT ![c] = q],
         q.pc # "start", q.pc # "done" => q.repo \in Repos,
         q.pc = "store" => q.doc \in Doc
  PROVE  calls' \in [Callers -> Caller] /\ Placed'
  BY DEF PkgTypeOK, Placed

(* The end of a fetch, with a document or with an error. *)
LEMMA Lands ==
  ASSUME PkgTypeOK, Placed, NEW c \in Callers, NEW doc \in Doc \cup {NoDoc}, Land(c, doc)
  PROVE  flight' \in Callers \cup {NoDoc} /\ calls' \in [Callers -> Caller] /\ Placed'
  BY DEF PkgTypeOK, Placed, Land, Caller, CallAt

LEMMA StepType ==
  ASSUME PkgInv, NEW c \in Callers, PkgStep(c)
  PROVE  PkgTypeOK' /\ Placed' /\ UNCHANGED <<named, published>>
<1> USE DEF SameWorld, CallAt
<1>a. PkgTypeOK /\ Placed
  BY DEF PkgInv
<1>b. calls[c] \in Caller
  BY <1>a DEF PkgTypeOK
<1>0. UNCHANGED <<named, published>>
  BY DEF PkgStep, Resolve, Load, Do, Recheck, Dump, FetchFails, Store
<1>1. CASE Resolve(c)
  <2>1. CASE calls' = [calls EXCEPT ![c].pc = "done"]
    <3> DEFINE q == [calls[c] EXCEPT !.pc = "done"]
    <3>1. q \in Caller /\ q.pc = "done"
      BY <1>b DEF Caller
    <3>2. calls' = [calls EXCEPT ![c] = q]
      BY <2>1
    <3> QED BY <1>a, <1>0, <1>1, <3>1, <3>2, GoesOn DEF Resolve, PkgTypeOK
  <2>2. ASSUME NEW b \in BOOLEAN,
               calls' = [calls EXCEPT ![c].pc = "load", ![c].repo = named, ![c].floor = published, ![c].covered = b]
        PROVE  calls' \in [Callers -> Caller] /\ Placed'
    <3> DEFINE q == [calls[c] EXCEPT !.pc = "load", !.repo = named, !.floor = published, !.covered = b]
    <3>1. q \in Caller /\ q.pc = "load" /\ q.repo \in Repos
      BY <1>a, <1>b DEF Caller, PkgTypeOK
    <3>2. calls' = [calls EXCEPT ![c] = q]
      BY <2>2
    <3> QED BY <1>a, <3>1, <3>2, GoesOn
  <2>3. (flight # NoDoc \/ (cache # NoDoc /\ cache.fresh)) \in BOOLEAN
    OBVIOUS
  <2> QED BY <1>a, <1>0, <1>1, <2>1, <2>2, <2>3 DEF Resolve, PkgTypeOK
<1>2. CASE Load(c)
  <2> DEFINE q == IF Usable(cache) THEN [calls[c] EXCEPT !.pc = "done", !.doc = cache.doc]
                  ELSE [calls[c] EXCEPT !.pc = "do"]
  <2>1. Usable(cache) => cache.doc \in Doc
    BY <1>a DEF Usable, PkgTypeOK
  <2>2. q \in Caller /\ q.pc \in {"done", "do"} /\ q.repo = calls[c].repo
    BY <1>b, <2>1 DEF Caller
  <2>3. calls' = [calls EXCEPT ![c] = q]
    BY <1>2 DEF Load
  <2>4. calls[c].repo \in Repos
    BY <1>2, <1>a DEF Load, Placed
  <2> HIDE DEF q
  <2> QED BY <1>a, <1>0, <1>2, <2>2, <2>3, <2>4, GoesOn DEF Load, PkgTypeOK
<1>3. ASSUME NEW pc \in {"recheck", "wait", "dump"}, calls[c].pc \in {"do", "recheck"},
             calls' = [calls EXCEPT ![c].pc = pc]
      PROVE  calls' \in [Callers -> Caller] /\ Placed'
  <2> DEFINE q == [calls[c] EXCEPT !.pc = pc]
  <2>1. q \in Caller /\ q.pc = pc /\ q.repo = calls[c].repo
    BY <1>b DEF Caller
  <2>2. calls[c].repo \in Repos
    BY <1>3, <1>a DEF Placed
  <2>3. calls' = [calls EXCEPT ![c] = q]
    BY <1>3
  <2> QED BY <1>a, <2>1, <2>2, <2>3, GoesOn
<1>4. CASE Do(c)
  BY <1>a, <1>0, <1>3, <1>4 DEF Do, PkgTypeOK
<1>5. CASE Recheck(c)
  <2>1. Usable(cache) => cache.doc \in Doc
    BY <1>a DEF Usable, PkgTypeOK
  <2> QED BY <1>a, <1>0, <1>3, <1>5, <2>1, Lands DEF Recheck, PkgTypeOK
<1>6. CASE Dump(c)
  <2> DEFINE doc == [repo |-> calls[c].repo, version |-> published[calls[c].repo]]
             q == [calls[c] EXCEPT !.pc = "store", !.doc = doc]
  <2>1. calls[c].repo \in Repos
    BY <1>6, <1>a DEF Dump, Placed
  <2>2. doc \in Doc
    BY <1>a, <2>1 DEF Doc, PkgTypeOK
  <2>3. q \in Caller /\ q.pc = "store" /\ q.repo \in Repos /\ q.doc \in Doc
    BY <1>b, <2>1, <2>2 DEF Caller
  <2>4. calls' = [calls EXCEPT ![c] = q]
    BY <1>6 DEF Dump
  <2> QED BY <1>a, <1>0, <1>6, <2>3, <2>4, GoesOn DEF Dump, PkgTypeOK
<1>7. CASE FetchFails(c)
  BY <1>a, <1>0, <1>7, Lands DEF FetchFails, PkgTypeOK
<1>8. CASE Store(c)
  <2>1. calls[c].doc \in Doc
    BY <1>8, <1>a DEF Store, Placed
  <2> QED BY <1>a, <1>0, <1>8, <2>1, Lands DEF Store, PkgTypeOK
<1> QED BY <1>1, <1>2, <1>4, <1>5, <1>6, <1>7, <1>8 DEF PkgStep

-----------------------------------------------------------------------------
(* OneDump: the flight is the one caller that fetches. *)

LEMMA StepOneDump ==
  ASSUME PkgInv, NEW c \in Callers, PkgStep(c)
  PROVE  OneDump'
<1>a. /\ calls \in [Callers -> Caller] /\ flight \in Callers \cup {NoDoc}
      /\ NoDoc \notin Callers
  BY NoDocApart DEF PkgInv, PkgTypeOK
<1>b. \A d \in Callers : /\ calls[d].pc \in {"recheck", "dump", "store"} <=> d = flight
                         /\ flight = NoDoc => calls[d].pc # "wait"
  BY DEF PkgInv, OneDump, Dumping, CallAt
<1>c. calls[c] \in Caller
  BY <1>a
<1> SUFFICES \A d \in Callers : /\ calls'[d].pc \in {"recheck", "dump", "store"} <=> d = flight'
                                /\ flight' = NoDoc => calls'[d].pc # "wait"
  BY DEF OneDump, Dumping, CallAt
<1>1. ASSUME NEW doc, Land(c, doc), c = flight
      PROVE  \A d \in Callers : /\ calls'[d].pc \in {"recheck", "dump", "store"} <=> d = flight'
                                /\ flight' = NoDoc => calls'[d].pc # "wait"
  <2>1. ASSUME NEW d \in Callers
        PROVE  calls'[d].pc = IF d = c \/ calls[d].pc = "wait" THEN "done" ELSE calls[d].pc
    BY <1>1, <1>a DEF Land, CallAt, Caller
  <2>2. flight' = NoDoc
    BY <1>1 DEF Land
  <2>3. ASSUME NEW d \in Callers
        PROVE  calls'[d].pc \notin {"recheck", "dump", "store", "wait"} /\ d # flight'
    <3>1. CASE d = c \/ calls[d].pc = "wait"
      BY <1>a, <2>1, <2>2, <3>1
    <3>2. CASE d # c /\ calls[d].pc # "wait"
      BY <1>1, <1>a, <1>b, <2>1, <2>2, <3>2
    <3> QED BY <3>1, <3>2
  <2> QED BY <2>3
<1>2. ASSUME flight' = flight, \A d \in Callers \ {c} : calls'[d] = calls[d],
             c = flight <=> calls'[c].pc \in {"recheck", "dump", "store"},
             flight = NoDoc => calls'[c].pc # "wait"
      PROVE  \A d \in Callers : /\ calls'[d].pc \in {"recheck", "dump", "store"} <=> d = flight'
                                /\ flight' = NoDoc => calls'[d].pc # "wait"
  BY <1>2, <1>b
<1>3. CASE Resolve(c)
  BY <1>a, <1>b, <1>c, <1>2, <1>3 DEF Resolve, CallAt, Caller
<1>4. CASE Load(c)
  BY <1>a, <1>b, <1>c, <1>2, <1>4 DEF Load, CallAt, Caller
<1>5. CASE Do(c)
  <2>1. calls[c].pc = "do"
    BY <1>5 DEF Do, CallAt
  <2>2. CASE flight = NoDoc /\ flight' = c /\ calls' = [calls EXCEPT ![c].pc = "recheck"]
    <3>1. calls'[c].pc = "recheck" /\ \A d \in Callers \ {c} : calls'[d] = calls[d]
      BY <1>a, <1>c, <2>2 DEF Caller
    <3> QED BY <1>a, <1>b, <2>1, <2>2, <3>1
  <2>3. CASE flight # NoDoc /\ flight' = flight /\ calls' = [calls EXCEPT ![c].pc = "wait"]
    <3>1. calls'[c].pc = "wait" /\ \A d \in Callers \ {c} : calls'[d] = calls[d]
      BY <1>a, <1>c, <2>3 DEF Caller
    <3> QED BY <1>b, <1>2, <2>1, <2>3, <3>1
  <2> QED BY <1>5, <2>2, <2>3 DEF Do
<1>6. CASE Recheck(c)
  BY <1>a, <1>b, <1>c, <1>1, <1>2, <1>6 DEF Recheck, CallAt, Caller
<1>7. CASE Dump(c)
  BY <1>a, <1>b, <1>c, <1>2, <1>7 DEF Dump, CallAt, Caller
<1>8. CASE FetchFails(c)
  BY <1>b, <1>1, <1>8 DEF FetchFails, CallAt
<1>9. CASE Store(c)
  BY <1>b, <1>1, <1>9 DEF Store, CallAt
<1> QED BY <1>3, <1>4, <1>5, <1>6, <1>7, <1>8, <1>9 DEF PkgStep

-----------------------------------------------------------------------------
(* What a caller may be answered with is no older than its start. *)

(* Only resolvePackage sets what a caller is measured by. *)
LEMMA StepFloor ==
  ASSUME PkgInv, NEW c \in Callers, PkgStep(c), NEW d \in Callers
  PROVE  \/ calls'[d].floor = calls[d].floor /\ calls'[d].covered = calls[d].covered
         \/ /\ d = c /\ Resolve(c) /\ calls'[d].floor = published
            /\ calls'[d].covered = (flight # NoDoc \/ (cache # NoDoc /\ cache.fresh))
<1>a. calls \in [Callers -> Caller] /\ calls[c] \in Caller /\ calls[d] \in Caller
  BY DEF PkgInv, PkgTypeOK
<1>1. ASSUME NEW doc, Land(c, doc)
      PROVE  calls'[d].floor = calls[d].floor /\ calls'[d].covered = calls[d].covered
  BY <1>1, <1>a DEF Land, Caller
<1>2. CASE Resolve(c)
  BY <1>2, <1>a DEF Resolve, Caller
<1>3. CASE Load(c)
  BY <1>3, <1>a DEF Load, Caller
<1>4. CASE Do(c)
  BY <1>4, <1>a DEF Do, Caller
<1>5. CASE Recheck(c)
  BY <1>5, <1>a, <1>1 DEF Recheck, Caller
<1>6. CASE Dump(c)
  BY <1>6, <1>a DEF Dump, Caller
<1>7. CASE FetchFails(c)
  BY <1>7, <1>1 DEF FetchFails
<1>8. CASE Store(c)
  BY <1>8, <1>1 DEF Store
<1> QED BY <1>2, <1>3, <1>4, <1>5, <1>6, <1>7, <1>8 DEF PkgStep

LEMMA StepFloorServed ==
  ASSUME PkgInv, NEW c \in Callers, PkgStep(c)
  PROVE  FloorServed'
<1> SUFFICES ASSUME NEW d \in Callers, NEW r \in Repos PROVE calls'[d].floor[r] <= published'[r]
  BY DEF FloorServed
<1>1. published' = published /\ published[r] \in Nat
  BY StepType DEF PkgInv, PkgTypeOK
<1>2. calls[d].floor[r] <= published[r]
  BY DEF PkgInv, FloorServed
<1> QED BY <1>1, <1>2, StepFloor

(* A landing answers with the document that is cached then or was cached    *)
(* before, an error, or leaves a caller as it was.                          *)
LEMMA LandAnswers ==
  ASSUME PkgInv, NEW c \in Callers, NEW doc, Land(c, doc), NEW d \in Callers
  PROVE  \/ calls'[d] = calls[d] /\ d # c
         \/ calls'[d].pc = "done" /\ calls'[d].doc = doc
  BY DEF PkgInv, PkgTypeOK, Caller, Land

LEMMA StepDumpedSince ==
  ASSUME PkgInv, NEW c \in Callers, PkgStep(c)
  PROVE  DumpedSince'
<1>a. calls \in [Callers -> Caller] /\ \A d \in Callers : calls[d] \in Caller
  BY DEF PkgInv, PkgTypeOK
<1> SUFFICES ASSUME NEW e \in Callers, ~calls'[e].covered
             PROVE  /\ cache' # NoDoc /\ cache'.fresh => NotBefore(e, cache.doc)'
                    /\ \A d \in Callers : calls'[d].pc = "store" => NotBefore(e, calls[d].doc)'
                    /\ calls'[e].pc = "done" /\ calls'[e].doc # NoDoc => NotBefore(e, calls[e].doc)'
  BY DEF DumpedSince
<1> DEFINE NB(doc) == doc.version >= calls'[e].floor[doc.repo]
           G == /\ cache' # NoDoc /\ cache'.fresh => NB(cache'.doc)
                /\ \A d \in Callers : calls'[d].pc = "store" => NB(calls'[d].doc)
                /\ calls'[e].pc = "done" /\ calls'[e].doc # NoDoc => NB(calls'[e].doc)
<1> SUFFICES G
  BY DEF NotBefore
<1>1. CASE Resolve(c) /\ e = c
  <2>1. cache' = cache /\ \A d \in Callers \ {c} : calls'[d] = calls[d]
    BY <1>1, <1>a DEF Resolve
  <2>2. CASE calls' = [calls EXCEPT ![c].pc = "done"]
    <3>1. /\ calls'[c].floor = calls[c].floor /\ calls'[c].doc = calls[c].doc
          /\ calls'[c].covered = calls[c].covered /\ calls'[c].pc = "done"
      BY <1>a, <2>2 DEF Caller
    <3>2. calls[c].doc = NoDoc
      BY <1>1 DEF Resolve, CallAt, PkgInv, Placed
    <3> QED BY <1>1, <2>1, <3>1, <3>2 DEF PkgInv, DumpedSince, NotBefore
  <2>3. CASE ~(flight # NoDoc \/ (cache # NoDoc /\ cache.fresh)) /\ calls'[c].pc = "load"
    <3>1. \A d \in Callers : calls'[d].pc # "store"
      BY <2>1, <2>3, NoDocApart DEF PkgInv, OneDump, Dumping
    <3> QED BY <1>1, <2>1, <2>3, <3>1
  <2>4. \/ calls' = [calls EXCEPT ![c].pc = "done"]
        \/ /\ calls'[c].pc = "load"
           /\ calls'[c].covered = (flight # NoDoc \/ (cache # NoDoc /\ cache.fresh))
    BY <1>1, <1>a DEF Resolve, Caller
  <2> QED BY <1>1, <2>2, <2>3, <2>4
<1>2. CASE /\ calls'[e].floor = calls[e].floor /\ calls'[e].covered = calls[e].covered
           /\ ~(Resolve(c) /\ e = c)
  <2>1. /\ cache # NoDoc /\ cache.fresh => NB(cache.doc)
        /\ \A d \in Callers : calls[d].pc = "store" => NB(calls[d].doc)
        /\ calls[e].pc = "done" /\ calls[e].doc # NoDoc => NB(calls[e].doc)
    BY <1>2 DEF PkgInv, DumpedSince, NotBefore
  <2> HIDE DEF NB
  <2>2. ASSUME cache' = cache, \A d \in Callers \ {c} : calls'[d] = calls[d],
               calls'[c].pc = "store" => NB(calls'[c].doc),
               e = c /\ calls'[c].pc = "done" => NB(calls'[c].doc)
        PROVE  G
    BY <2>1, <2>2
  <2>3. ASSUME NEW doc, Land(c, doc), doc = NoDoc \/ NB(doc),
               cache' = cache \/ (cache'.doc = doc /\ doc # NoDoc)
        PROVE  G
    <3>1. \A d \in Callers : \/ calls'[d] = calls[d]
                             \/ calls'[d].pc = "done" /\ calls'[d].doc = doc
      BY <2>3, LandAnswers
    <3> QED BY <2>1, <2>3, <3>1
  <2>4. CASE Resolve(c)
    <3>1. calls'[c].pc \in {"load", "done"} /\ cache' = cache /\ \A d \in Callers \ {c} : calls'[d] = calls[d]
      BY <2>4, <1>a DEF Resolve, Caller
    <3> QED BY <1>2, <2>2, <2>4, <3>1
  <2>5. CASE Load(c)
    <3>1. /\ cache' = cache /\ \A d \in Callers \ {c} : calls'[d] = calls[d]
          /\ \/ Usable(cache) /\ calls'[c].pc = "done" /\ calls'[c].doc = cache.doc
             \/ calls'[c].pc = "do"
      BY <2>5, <1>a DEF Load, Caller
    <3> QED BY <2>1, <2>2, <3>1 DEF Usable
  <2>6. CASE Do(c)
    <3>1. calls'[c].pc \in {"recheck", "wait"} /\ cache' = cache /\ \A d \in Callers \ {c} : calls'[d] = calls[d]
      BY <2>6, <1>a DEF Do, Caller
    <3> QED BY <2>2, <3>1
  <2>7. CASE Recheck(c)
    <3>1. CASE Usable(cache) /\ Land(c, cache.doc)
      <4>1. cache' = cache /\ Land(c, cache.doc)
        BY <2>7, <3>1 DEF Recheck
      <4>2. NB(cache.doc)
        BY <2>1, <3>1 DEF Usable
      <4> HIDE DEF G
      <4> QED BY <2>3, <4>1, <4>2
    <3>2. CASE calls' = [calls EXCEPT ![c].pc = "dump"]
      <4>1. calls'[c].pc = "dump" /\ cache' = cache /\ \A d \in Callers \ {c} : calls'[d] = calls[d]
        BY <2>7, <1>a, <3>2 DEF Recheck, Caller
      <4> QED BY <2>2, <4>1
    <3> QED BY <2>7, <3>1, <3>2 DEF Recheck
  <2>8. CASE Dump(c)
    <3>1. /\ calls'[c].pc = "store" /\ cache' = cache /\ \A d \in Callers \ {c} : calls'[d] = calls[d]
          /\ calls'[c].doc.repo = calls[c].repo /\ calls'[c].doc.version = published[calls[c].repo]
      BY <2>8, <1>a DEF Dump, Caller
    <3>2. calls[c].repo \in Repos
      BY <2>8 DEF Dump, CallAt, PkgInv, Placed
    <3>3. /\ calls[e].floor[calls[c].repo] <= published[calls[c].repo]
          /\ calls[e].floor[calls[c].repo] \in Nat /\ published[calls[c].repo] \in Nat
      BY <1>a, <3>2 DEF PkgInv, FloorServed, PkgTypeOK, Caller
    <3>4. NB(calls'[c].doc)
      BY <1>2, <3>1, <3>3 DEF NB
    <3> QED BY <2>2, <3>1, <3>4
  <2>9. CASE FetchFails(c)
    <3>1. cache' = cache /\ Land(c, NoDoc)
      BY <2>9 DEF FetchFails
    <3> HIDE DEF G
    <3> QED BY <2>3, <3>1
  <2>10. CASE Store(c)
    <3>1. /\ calls[c].doc \in Doc /\ calls[c].pc = "store" /\ Land(c, calls[c].doc)
          /\ cache'.doc = calls[c].doc
      BY <2>10 DEF Store, CallAt, PkgInv, Placed
    <3> QED BY <2>1, <2>3, <3>1, NoDocApart
  <2> QED BY <2>4, <2>5, <2>6, <2>7, <2>8, <2>9, <2>10 DEF PkgStep
<1> QED BY <1>1, <1>2, StepFloor

-----------------------------------------------------------------------------
(* The world around the callers. *)

LEMMA WorldInv ==
  ASSUME PkgInv, Expire \/ (\E r \in Repos : Publish(r) \/ Rename(r))
  PROVE  PkgInv'
<1>1. flight' = flight /\ calls' = calls
  BY DEF Expire, Publish, Rename
<1>2. OneDump' /\ Placed'
  BY <1>1 DEF PkgInv, OneDump, Placed, Dumping, CallAt
<1>3. CASE Expire
  <2>1. cache' = [cache EXCEPT !.fresh = FALSE] /\ cache \in [doc : Doc, fresh : BOOLEAN]
    BY <1>3 DEF Expire, PkgInv, PkgTypeOK
  <2>2. cache' \in [doc : Doc, fresh : BOOLEAN] /\ ~cache'.fresh
    BY <2>1
  <2>3. PkgTypeOK' /\ FloorServed'
    BY <1>1, <1>3, <2>2 DEF Expire, SameWorld, PkgInv, PkgTypeOK, FloorServed
  <2>4. DumpedSince'
    BY <1>1, <2>2 DEF PkgInv, DumpedSince, NotBefore
  <2> QED BY <1>2, <2>3, <2>4 DEF PkgInv
<1>4. ASSUME NEW r \in Repos, Publish(r) PROVE PkgInv'
  <2>1. /\ published' = [published EXCEPT ![r] = @ + 1] /\ published[r] < MaxVersion
        /\ published \in [Repos -> 0..MaxVersion] /\ named' = named /\ cache' = cache
        /\ MaxVersion \in Nat
    BY <1>4, PackageSchemaAssumption DEF Publish, PkgInv, PkgTypeOK
  <2>2. published' \in [Repos -> 0..MaxVersion] /\ \A x \in Repos : published[x] <= published'[x]
    BY <2>1
  <2>3. PkgTypeOK'
    BY <1>1, <2>1, <2>2 DEF PkgInv, PkgTypeOK
  <2>4. FloorServed'
    <3> SUFFICES ASSUME NEW c \in Callers, NEW x \in Repos PROVE calls[c].floor[x] <= published'[x]
      BY <1>1 DEF FloorServed
    <3>1. calls[c].floor[x] <= published[x] /\ calls[c].floor[x] \in Nat
      BY DEF PkgInv, FloorServed, PkgTypeOK, Caller
    <3>2. published[x] \in Nat /\ published'[x] \in Nat
      BY <2>1, <2>2
    <3> QED BY <2>2, <3>1, <3>2
  <2>5. DumpedSince'
    BY <1>1, <2>1 DEF PkgInv, DumpedSince, NotBefore
  <2> QED BY <1>2, <2>3, <2>4, <2>5 DEF PkgInv
<1>5. ASSUME NEW r \in Repos, Rename(r) PROVE PkgInv'
  <2>1. PkgTypeOK' /\ FloorServed' /\ DumpedSince'
    BY <1>5 DEF Rename, PkgInv, PkgTypeOK, FloorServed, DumpedSince, NotBefore
  <2> QED BY <1>2, <2>1 DEF PkgInv
<1> QED BY <1>3, <1>4, <1>5

LEMMA PkgNextInv == PkgInv /\ [PkgNext]_pkgVars => PkgInv'
<1> SUFFICES ASSUME PkgInv, [PkgNext]_pkgVars PROVE PkgInv'
  OBVIOUS
<1>1. ASSUME NEW c \in Callers, PkgStep(c) PROVE PkgInv'
  BY <1>1, StepType, StepOneDump, StepFloorServed, StepDumpedSince DEF PkgInv
<1>2. CASE UNCHANGED pkgVars
  BY <1>2 DEF pkgVars, PkgInv, PkgTypeOK, Placed, OneDump, Dumping, CallAt, FloorServed, DumpedSince, NotBefore
<1> QED BY <1>1, <1>2, WorldInv DEF PkgNext

LEMMA AlwaysPkgInv == PkgSpec => []PkgInv
  BY PkgInitInv, PkgNextInv, PTL DEF PkgSpec

-----------------------------------------------------------------------------

(* The callers, the cache and the flight keep their types. *)
THEOREM PkgTypeCorrect == PkgSpec => []PkgTypeOK
  BY AlwaysPkgInv, PTL DEF PkgInv

(* fetchAndCache, for any number of callers and any history of the package:  *)
(* the callers share one dump, none is started while the cache is good, and  *)
(* a caller that found nothing fresh and no fetch gets a document dumped     *)
(* after it started.                                                         *)
THEOREM DumpsSharedHolds == PkgSpec => DumpsShared
<1>1. PkgInv => OneDump /\ StalenessBounded
  BY DEF PkgInv, DumpedSince, NotBefore, StalenessBounded, CallAt
<1>2. ASSUME PkgInv, PkgNext, NEW c \in Callers, ~CallAt(c, "dump"), calls'[c].pc = "dump"
      PROVE  cache = NoDoc \/ ~cache.fresh
  <2>1. PICK d \in Callers : PkgStep(d)
    BY <1>2 DEF PkgNext, Expire, Publish, Rename, CallAt
  <2>2. calls \in [Callers -> Caller] /\ calls[c] \in Caller
    BY <1>2 DEF PkgInv, PkgTypeOK
  <2>3. ASSUME NEW doc, Land(d, doc) PROVE FALSE
    BY <1>2, <2>2, <2>3 DEF Land, Caller, CallAt
  <2>4. ~(Resolve(d) \/ Load(d) \/ Do(d) \/ Dump(d))
    <3>1. calls[c].pc # "dump" /\ calls'[c].pc = "dump"
      BY <1>2 DEF CallAt
    <3>2. ~Resolve(d)
      <4>1. ASSUME Resolve(d), c = d PROVE calls'[c].pc \in {"load", "done"}
        BY <2>2, <4>1 DEF Resolve, Caller
      <4>2. ASSUME Resolve(d), c # d PROVE calls'[c] = calls[c]
        BY <2>2, <4>2 DEF Resolve
      <4> QED BY <3>1, <4>1, <4>2
    <3>3. ~Load(d)
      BY <2>2, <3>1 DEF Load, Caller
    <3>4. ~Do(d)
      BY <2>2, <3>1 DEF Do, Caller
    <3>5. ~Dump(d)
      BY <2>2, <3>1 DEF Dump, Caller
    <3> QED BY <3>2, <3>3, <3>4, <3>5
  <2>5. ~(FetchFails(d) \/ Store(d))
    BY <2>3 DEF FetchFails, Store
  <2> QED BY <2>1, <2>3, <2>4, <2>5 DEF PkgStep, Recheck, Usable
<1>3. PkgInv /\ [PkgNext]_pkgVars =>
        [\A c \in Callers : ~CallAt(c, "dump") /\ calls'[c].pc = "dump"
           => cache = NoDoc \/ ~cache.fresh]_pkgVars
  BY <1>2
<1> QED BY <1>1, <1>3, AlwaysPkgInv, PTL DEF PkgSpec, DumpsShared, NoRedundantDump

-----------------------------------------------------------------------------
(* Projects                                                                 *)

(* The part of the state that updates and deletions depend on is typed. *)
NamespacesTyped ==
  /\ namespaces \in [Names -> Namespace \cup {Gone}]
  /\ requests \in [Requests -> Request]

(* A request that would write under a version that is current has read the   *)
(* namespace as it is, and found the label on it.                            *)
ReadHeld ==
  \A r \in Requests :
    RequestAt(r, "write") /\ requests[r].kind # "create" /\ requests[r].fresh
      => /\ requests[r].read = namespaces[requests[r].name]
         /\ requests[r].read # Gone /\ requests[r].read.label = "set"

(* Only a request that is over has an answer. *)
Unanswered == \A r \in Requests : requests[r].pc # "done" => requests[r].code = "none"

(* The inductive invariant. *)
ProjInv == NamespacesTyped /\ ReadHeld /\ Unanswered

LEMMA GoneApart == Gone \notin Namespace
  BY ProjectsAssumption DEF Namespace

-----------------------------------------------------------------------------
(* What the helpers do to the requests. *)

LEMMA AnsweredIs ==
  ASSUME NamespacesTyped, NEW r \in Requests, NEW code \in {"201", "200", "204", "404", "500"}
  PROVE  /\ Answered(r, code) \in [Requests -> Request]
         /\ Answered(r, code)[r].pc = "done" /\ Answered(r, code)[r].code = code
         /\ \A d \in Requests \ {r} : Answered(r, code)[d] = requests[d]
  BY DEF NamespacesTyped, Answered, Request

LEMMA StaleIs ==
  ASSUME NEW n \in Names, NEW rs \in [Requests -> Request]
  PROVE  /\ Stale(n, rs) \in [Requests -> Request]
         /\ \A d \in Requests :
              /\ rs[d].name # n => Stale(n, rs)[d] = rs[d]
              /\ rs[d].name = n => ~Stale(n, rs)[d].fresh
              /\ Stale(n, rs)[d].pc = rs[d].pc /\ Stale(n, rs)[d].code = rs[d].code
  BY DEF Stale, Request

(* A write to n takes the version from all who have read n; the others have  *)
(* read another namespace.                                                   *)
LEMMA WriteKeeps ==
  ASSUME ProjInv, NEW n \in Names, NEW ns \in Namespace \cup {Gone}, PutNamespace(n, ns),
         NEW rs \in [Requests -> Request], requests' = Stale(n, rs),
         \A d \in Requests : rs[d] = requests[d] \/ rs[d].pc = "done"
  PROVE  ProjInv'
<1>1. namespaces \in [Names -> Namespace \cup {Gone}] /\ namespaces' = [namespaces EXCEPT ![n] = ns]
  BY DEF ProjInv, NamespacesTyped, PutNamespace
<1>2. NamespacesTyped'
  BY <1>1, StaleIs DEF NamespacesTyped
<1>3. Unanswered'
  BY StaleIs DEF ProjInv, Unanswered
<1>4. ReadHeld'
  <2> SUFFICES ASSUME NEW d \in Requests, requests'[d].pc = "write",
                      requests'[d].kind # "create", requests'[d].fresh
               PROVE  /\ requests'[d].read = namespaces'[requests'[d].name]
                      /\ requests'[d].read # Gone /\ requests'[d].read.label = "set"
    BY DEF ReadHeld, RequestAt
  <2>1. rs[d].name # n /\ rs[d] = requests[d] /\ requests'[d] = requests[d]
    BY StaleIs
  <2>2. requests[d].name \in Names
    BY DEF ProjInv, NamespacesTyped, Request
  <2>3. namespaces'[requests[d].name] = namespaces[requests[d].name]
    BY <1>1, <2>1, <2>2
  <2> QED BY <2>1, <2>3 DEF ProjInv, ReadHeld, RequestAt
<1> QED BY <1>2, <1>3, <1>4 DEF ProjInv

(* An answer without a write. *)
LEMMA AnswerKeeps ==
  ASSUME ProjInv, NEW r \in Requests, NEW code \in {"201", "200", "204", "404", "500"},
         requests' = Answered(r, code), namespaces' = namespaces
  PROVE  ProjInv'
<1>1. /\ requests' \in [Requests -> Request] /\ requests'[r].pc = "done"
      /\ \A d \in Requests \ {r} : requests'[d] = requests[d]
  BY AnsweredIs DEF ProjInv
<1> QED BY <1>1 DEF ProjInv, NamespacesTyped, ReadHeld, Unanswered, RequestAt

-----------------------------------------------------------------------------

LEMMA ProjInitInv == ProjInit => ProjInv
<1> SUFFICES ASSUME ProjInit PROVE ProjInv
  OBVIOUS
<1>1. (CHOOSE n \in Names : TRUE) \in Names
  BY ProjectsAssumption
<1> QED BY <1>1 DEF ProjInit, ProjInv, NamespacesTyped, ReadHeld, Unanswered, RequestAt, Request

LEMMA SubmitInv ==
  ASSUME ProjInv, NEW r \in Requests, Submit(r)
  PROVE  ProjInv'
<1>1. PICK k \in {"create", "update", "delete"}, n \in Names :
        requests' = [requests EXCEPT ![r].kind = k, ![r].name = n,
                                     ![r].pc = IF k = "create" THEN "write" ELSE "read"]
  BY DEF Submit
<1>2. namespaces' = namespaces /\ requests[r].pc = "ready" /\ requests[r] \in Request
  BY DEF Submit, RequestAt, ProjInv, NamespacesTyped
<1>3. requests' \in [Requests -> Request] /\ \A d \in Requests \ {r} : requests'[d] = requests[d]
  BY <1>1, <1>2 DEF ProjInv, NamespacesTyped, Request
<1>4. /\ requests'[r].kind = k /\ requests'[r].code = requests[r].code
      /\ requests'[r].pc = IF k = "create" THEN "write" ELSE "read"
  BY <1>1, <1>2 DEF ProjInv, NamespacesTyped, Request
<1> QED BY <1>2, <1>3, <1>4 DEF ProjInv, NamespacesTyped, ReadHeld, Unanswered, RequestAt

LEMMA GetInv ==
  ASSUME ProjInv, NEW r \in Requests, GetNamespace(r)
  PROVE  ProjInv'
<1> DEFINE ns == namespaces[requests[r].name]
<1>1. namespaces' = namespaces /\ requests[r].pc = "read" /\ requests[r] \in Request
  BY DEF GetNamespace, RequestAt, ProjInv, NamespacesTyped
<1>2. CASE ~(ns # Gone /\ ns.label = "set")
  BY <1>1, <1>2, AnswerKeeps DEF GetNamespace
<1>3. CASE ns # Gone /\ ns.label = "set"
  <2>1. requests' = [requests EXCEPT ![r].pc = "write", ![r].read = ns, ![r].fresh = TRUE]
    BY <1>3 DEF GetNamespace
  <2>2. requests[r].name \in Names /\ ns \in Namespace
    BY <1>1, <1>3 DEF ProjInv, NamespacesTyped, Request
  <2>3. requests' \in [Requests -> Request] /\ \A d \in Requests \ {r} : requests'[d] = requests[d]
    BY <1>1, <2>1, <2>2 DEF ProjInv, NamespacesTyped, Request
  <2>4. /\ requests'[r].read = ns /\ requests'[r].name = requests[r].name
        /\ requests'[r].code = requests[r].code
    BY <1>1, <2>1 DEF ProjInv, NamespacesTyped, Request
  <2> QED BY <1>1, <1>3, <2>3, <2>4 DEF ProjInv, NamespacesTyped, ReadHeld, Unanswered, RequestAt
<1> QED BY <1>2, <1>3

(* A write that succeeds, and its answer. *)
LEMMA WriteAnswered ==
  ASSUME ProjInv, NEW r \in Requests, NEW code \in {"201", "200", "204"},
         NEW ns \in Namespace \cup {Gone}, PutNamespace(requests[r].name, ns),
         requests' = Stale(requests[r].name, Answered(r, code))
  PROVE  ProjInv'
<1>1. requests[r].name \in Names
  BY DEF ProjInv, NamespacesTyped, Request
<1>2. /\ Answered(r, code) \in [Requests -> Request] /\ Answered(r, code)[r].pc = "done"
      /\ \A d \in Requests \ {r} : Answered(r, code)[d] = requests[d]
  BY AnsweredIs DEF ProjInv
<1> QED BY <1>1, <1>2, WriteKeeps

(* The three outcomes of UpdateNamespace. *)
LEMMA UpdateCases ==
  ASSUME ProjInv, NEW r \in Requests, UpdateNamespace(r)
  PROVE  \/ \E code \in {"404", "500"} : requests' = Answered(r, code) /\ namespaces' = namespaces
         \/ /\ requests[r].fresh
            /\ PutNamespace(requests[r].name, [requests[r].read EXCEPT !.desc = "new"])
            /\ requests' = Stale(requests[r].name, Answered(r, "200"))
<1> DEFINE n == requests[r].name
<1>1. CASE namespaces[n] = Gone
  BY <1>1 DEF UpdateNamespace
<1>2. CASE namespaces[n] # Gone /\ ~requests[r].fresh
  BY <1>2 DEF UpdateNamespace
<1>3. CASE namespaces[n] # Gone /\ requests[r].fresh
  BY <1>3 DEF UpdateNamespace
<1> QED BY <1>1, <1>2, <1>3

LEMMA RequestInv ==
  ASSUME ProjInv, NEW r \in Requests, RequestStep(r)
  PROVE  ProjInv'
<1>1. CASE Submit(r)
  BY <1>1, SubmitInv
<1>2. CASE CreateNamespace(r)
  <2>1. [label |-> "set", desc |-> "old"] \in Namespace
    BY DEF Namespace
  <2> QED BY <1>2, <2>1, WriteAnswered, AnswerKeeps DEF CreateNamespace
<1>3. CASE GetNamespace(r)
  BY <1>3, GetInv
<1>4. CASE UpdateNamespace(r)
  <2>1. CASE \E code \in {"404", "500"} : requests' = Answered(r, code) /\ namespaces' = namespaces
    BY <2>1, AnswerKeeps
  <2>2. CASE /\ PutNamespace(requests[r].name, [requests[r].read EXCEPT !.desc = "new"])
             /\ requests' = Stale(requests[r].name, Answered(r, "200")) /\ requests[r].fresh
    <3>1. requests[r].read \in Namespace
      BY <1>4, <2>2 DEF UpdateNamespace, RequestAt, ProjInv, ReadHeld, NamespacesTyped, Request
    <3>2. [requests[r].read EXCEPT !.desc = "new"] \in Namespace
      BY <3>1 DEF Namespace
    <3> QED BY <2>2, <3>2, WriteAnswered
  <2> QED BY <1>4, <2>1, <2>2, UpdateCases
<1>5. CASE DeleteNamespace(r)
  BY <1>5, WriteAnswered, AnswerKeeps DEF DeleteNamespace
<1>6. CASE RequestFails(r)
  BY <1>6, AnswerKeeps DEF RequestFails
<1> QED BY <1>1, <1>2, <1>3, <1>4, <1>5, <1>6 DEF RequestStep

LEMMA ProjNextInv == ProjInv /\ [ProjNext]_projVars => ProjInv'
<1> SUFFICES ASSUME ProjInv, [ProjNext]_projVars PROVE ProjInv'
  OBVIOUS
<1>1. ASSUME NEW n \in Names, AdminWrites(n) PROVE ProjInv'
  <2>1. PICK ns \in [label : {"none", "empty", "set"}, desc : {"old"}] \cup {Gone} : PutNamespace(n, ns)
    BY <1>1 DEF AdminWrites
  <2>2. ns \in Namespace \cup {Gone}
    BY DEF Namespace
  <2>3. requests \in [Requests -> Request] /\ requests' = Stale(n, requests)
    BY <1>1 DEF AdminWrites, ProjInv, NamespacesTyped
  <2> QED BY <2>1, <2>2, <2>3, WriteKeeps
<1>2. CASE UNCHANGED <<namespaces, requests>>
  BY <1>2 DEF ProjInv, NamespacesTyped, ReadHeld, Unanswered, RequestAt
<1>3. CASE OpenStream \/ Forward \/ CloseStream \/ UNCHANGED projVars
  BY <1>2, <1>3 DEF OpenStream, Forward, CloseStream, projVars
<1> QED BY <1>1, <1>3, RequestInv DEF ProjNext

LEMMA AlwaysProjInv == ProjSpec => []ProjInv
  BY ProjInitInv, ProjNextInv, PTL DEF ProjSpec

-----------------------------------------------------------------------------

(* A request in its last call gets its answer by a step of its own. *)
LEMMA OwnAnswer ==
  ASSUME ProjInv, ProjNext, NEW r \in Requests, RequestAt(r, "write"), requests'[r].code # "none"
  PROVE  RequestStep(r)
<1>0. requests \in [Requests -> Request] /\ requests[r].code = "none" /\ requests[r].name \in Names
  BY DEF ProjInv, NamespacesTyped, Unanswered, RequestAt, Request
<1>1. ASSUME NEW n \in Names, AdminWrites(n) PROVE FALSE
  BY <1>0, <1>1, StaleIs DEF AdminWrites
<1>2. ASSUME OpenStream \/ Forward \/ CloseStream PROVE FALSE
  BY <1>0, <1>2 DEF OpenStream, Forward, CloseStream
<1>3. ASSUME NEW d \in Requests, RequestStep(d), d # r PROVE FALSE
  <2>0. requests[d].name \in Names
    BY <1>0 DEF Request
  <2>1. ASSUME NEW code \in {"201", "200", "204", "404", "500"}, requests' = Answered(d, code)
        PROVE  FALSE
    BY <1>0, <1>3, <2>1, AnsweredIs DEF ProjInv
  <2>2. ASSUME NEW code \in {"201", "200", "204", "404", "500"},
               requests' = Stale(requests[d].name, Answered(d, code))
        PROVE  FALSE
    <3>1. Answered(d, code) \in [Requests -> Request] /\ Answered(d, code)[r] = requests[r]
      BY <1>3, AnsweredIs DEF ProjInv
    <3> QED BY <1>0, <2>0, <2>2, <3>1, StaleIs
  <2>3. CASE Submit(d)
    BY <1>0, <1>3, <2>3 DEF Submit
  <2>4. CASE CreateNamespace(d)
    BY <2>1, <2>2, <2>4 DEF CreateNamespace
  <2>5. CASE GetNamespace(d)
    <3>1. CASE requests' = Answered(d, "404")
      BY <2>1, <3>1
    <3>2. CASE requests' # Answered(d, "404")
      BY <1>0, <1>3, <2>5, <3>2 DEF GetNamespace
    <3> QED BY <3>1, <3>2
  <2>6. CASE UpdateNamespace(d)
    BY <2>1, <2>2, <2>6, UpdateCases
  <2>7. CASE DeleteNamespace(d)
    BY <2>1, <2>2, <2>7 DEF DeleteNamespace
  <2>8. CASE RequestFails(d)
    BY <2>1, <2>8 DEF RequestFails
  <2> QED BY <1>3, <2>3, <2>4, <2>5, <2>6, <2>7, <2>8 DEF RequestStep
<1> QED BY <1>1, <1>2, <1>3 DEF ProjNext

(* An update that is accepted writes over the labelled namespace it read. *)
LEMMA EditedIsProject ==
  ASSUME ProjInv, ProjNext, NEW r \in Requests, RequestAt(r, "write"),
         requests[r].kind = "update", requests'[r].code = "200"
  PROVE  /\ namespaces[requests[r].name].label = "set"
         /\ namespaces'[requests[r].name].label = "set"
<1>1. RequestStep(r)
  BY OwnAnswer
<1>2. UpdateNamespace(r) \/ RequestFails(r)
  BY <1>1 DEF RequestStep, Submit, CreateNamespace, GetNamespace, DeleteNamespace, RequestAt
<1>3. ASSUME NEW code \in {"404", "500"}, requests' = Answered(r, code) PROVE FALSE
  BY <1>3, AnsweredIs DEF ProjInv
<1>4. /\ requests[r].fresh
      /\ PutNamespace(requests[r].name, [requests[r].read EXCEPT !.desc = "new"])
  BY <1>2, <1>3, UpdateCases DEF RequestFails
<1>5. /\ requests[r].read = namespaces[requests[r].name] /\ requests[r].read.label = "set"
      /\ requests[r].read # Gone
  BY <1>4 DEF ProjInv, ReadHeld
<1>6. requests[r].name \in Names /\ requests[r].read \in Namespace
  BY <1>5 DEF ProjInv, NamespacesTyped, Request
<1>7. namespaces'[requests[r].name] = [requests[r].read EXCEPT !.desc = "new"]
  BY <1>4, <1>6 DEF PutNamespace, ProjInv, NamespacesTyped
<1> QED BY <1>5, <1>6, <1>7 DEF Namespace

(* UpdateProject and DeleteProject, for any interleaving with other requests *)
(* and with administrators: what is edited carries the label and keeps it,   *)
(* and what is deleted carried it when the request read it.                  *)
THEOREM ForeignSparedHolds == ProjSpec => ForeignSpared
<1> DEFINE E == \A r \in Requests : RequestAt(r, "write") /\ requests[r].kind = "update"
                  /\ requests'[r].code = "200"
                 => /\ namespaces[requests[r].name].label = "set"
                    /\ namespaces'[requests[r].name].label = "set"
           D == \A r \in Requests : RequestAt(r, "write") /\ requests[r].kind = "delete"
                  /\ requests'[r].code = "204"
                 => namespaces[requests[r].name].label = "set" \/ ~requests[r].fresh
<1>1. ProjInv /\ [ProjNext]_projVars => [E]_projVars
  BY EditedIsProject
<1>2. ProjInv /\ [ProjNext]_projVars => [D]_projVars
  BY DEF ProjInv, ReadHeld
<1> QED BY <1>1, <1>2, AlwaysProjInv, PTL DEF ProjSpec, ForeignSpared, ForeignNotEdited, ForeignNotDeleted

-----------------------------------------------------------------------------

(* Event i, and no later one, says d of n, or the view does and no event. *)
Follows(ev, vw, n, d) ==
  \/ \E i \in DOMAIN ev : /\ ev[i] = [name |-> n, desc |-> d]
                          /\ \A j \in DOMAIN ev : j > i => ev[j].name # n
  \/ vw[n] = d /\ \A j \in DOMAIN ev : ev[j].name # n

(* The inductive invariant of the stream, beside ProjInv. *)
StreamInv ==
  /\ changes \in 0..MaxChanges
  /\ stream \in [state : {"new", "open", "closed"}, events : Seq(Event)]
  /\ view \in [Names -> {"old", "new", Gone}]
  /\ stream.state = "new" => \A n \in Names : view[n] = Gone
  /\ EventsComplete

LEMMA CompleteIs ==
  EventsComplete <=>
    (stream.state = "open" => \A n \in Names : Follows(stream.events, view, n, Listed(namespaces[n])))
  BY DEF EventsComplete, Follows

LEMMA ListedIs ==
  ASSUME NEW ns \in Namespace \cup {Gone} PROVE Listed(ns) \in {"old", "new", Gone}
  BY DEF Listed, Namespace

LEMMA FollowsNext ==
  ASSUME NEW ev \in Seq(Event), NEW vw, NEW e \in Event
  PROVE  /\ Follows(Append(ev, e), vw, e.name, e.desc)
         /\ \A n, d : n # e.name /\ Follows(ev, vw, n, d) => Follows(Append(ev, e), vw, n, d)
<1>1. /\ Len(ev) \in Nat /\ DOMAIN ev = 1..Len(ev) /\ DOMAIN Append(ev, e) = 1..(Len(ev) + 1)
      /\ Append(ev, e)[Len(ev) + 1] = e /\ \A i \in 1..Len(ev) : Append(ev, e)[i] = ev[i]
  OBVIOUS
<1>2. e = [name |-> e.name, desc |-> e.desc]
  BY DEF Event
<1>3. Follows(Append(ev, e), vw, e.name, e.desc)
  BY <1>1, <1>2 DEF Follows
<1>4. ASSUME NEW n, NEW d, n # e.name, Follows(ev, vw, n, d)
      PROVE  Follows(Append(ev, e), vw, n, d)
  <2>1. CASE vw[n] = d /\ \A j \in DOMAIN ev : ev[j].name # n
    BY <1>1, <1>4, <2>1 DEF Follows
  <2>2. ASSUME NEW i \in DOMAIN ev, ev[i] = [name |-> n, desc |-> d],
               \A j \in DOMAIN ev : j > i => ev[j].name # n
        PROVE  Follows(Append(ev, e), vw, n, d)
    BY <1>1, <1>4, <2>2 DEF Follows
  <2> QED BY <1>4, <2>1, <2>2 DEF Follows
<1> QED BY <1>3, <1>4

LEMMA FollowsRest ==
  ASSUME NEW ev \in Seq(Event), ev # <<>>, NEW vw \in [Names -> {"old", "new", Gone}],
         NEW n \in Names, NEW d, Follows(ev, vw, n, d)
  PROVE  Follows(Tail(ev), [vw EXCEPT ![Head(ev).name] = Head(ev).desc], n, d)
<1> DEFINE e == Head(ev)
           w == [vw EXCEPT ![e.name] = e.desc]
           t == Tail(ev)
<1>1. /\ Len(ev) \in Nat /\ Len(ev) >= 1 /\ DOMAIN ev = 1..Len(ev) /\ DOMAIN t = 1..(Len(ev) - 1)
      /\ e = ev[1] /\ e \in Event /\ \A i \in 1..(Len(ev) - 1) : t[i] = ev[i + 1]
  OBVIOUS
<1>2. e.name \in Names
  BY <1>1 DEF Event
<1>3. w[n] = IF e.name = n THEN e.desc ELSE vw[n]
  BY <1>2
<1> HIDE DEF e, w, t
<1>4. ASSUME vw[n] = d, \A j \in DOMAIN ev : ev[j].name # n
      PROVE  Follows(t, w, n, d)
  <2>1. w[n] = d
    BY <1>1, <1>3, <1>4
  <2>2. \A j \in DOMAIN t : j + 1 \in DOMAIN ev /\ t[j] = ev[j + 1]
    BY <1>1
  <2>3. \A j \in DOMAIN t : t[j].name # n
    BY <1>4, <2>2
  <2> QED BY <2>1, <2>3 DEF Follows
<1>5. ASSUME NEW i \in DOMAIN ev, ev[i] = [name |-> n, desc |-> d],
             \A j \in DOMAIN ev : j > i => ev[j].name # n
      PROVE  Follows(t, w, n, d)
  <2>1. CASE i = 1
    BY <1>1, <1>3, <1>5, <2>1 DEF Follows
  <2>2. CASE i > 1
    <3>1. i - 1 \in DOMAIN t /\ t[i - 1] = [name |-> n, desc |-> d]
      BY <1>1, <1>5, <2>2
    <3>2. ASSUME NEW j \in DOMAIN t, j > i - 1 PROVE t[j].name # n
      <4>1. j + 1 \in DOMAIN ev /\ j + 1 > i /\ t[j] = ev[j + 1]
        BY <1>1, <1>5, <3>2
      <4> QED BY <1>5, <4>1
    <3> QED BY <3>1, <3>2 DEF Follows
  <2> QED BY <1>1, <2>1, <2>2
<1>6. \/ vw[n] = d /\ \A j \in DOMAIN ev : ev[j].name # n
      \/ \E i \in DOMAIN ev : /\ ev[i] = [name |-> n, desc |-> d]
                              /\ \A j \in DOMAIN ev : j > i => ev[j].name # n
  BY DEF Follows
<1>7. Follows(t, w, n, d)
  BY <1>4, <1>5, <1>6
<1> QED BY <1>7 DEF e, w, t

LEMMA PutFollows ==
  ASSUME ProjInv, StreamInv, NEW n \in Names, NEW ns \in Namespace \cup {Gone}, PutNamespace(n, ns),
         view' = view, changes' \in 0..MaxChanges
  PROVE  StreamInv'
<1> DEFINE e == [name |-> n, desc |-> Listed(ns)]
<1>1. /\ namespaces \in [Names -> Namespace \cup {Gone}] /\ namespaces' = [namespaces EXCEPT ![n] = ns]
      /\ stream \in [state : {"new", "open", "closed"}, events : Seq(Event)]
  BY DEF ProjInv, NamespacesTyped, PutNamespace, StreamInv
<1>2. namespaces'[n] = ns /\ \A m \in Names \ {n} : namespaces'[m] = namespaces[m]
  BY <1>1
<1>3. e \in Event /\ e.name = n /\ e.desc = Listed(ns)
  BY ListedIs DEF Event
<1>4. stream.state = "open" => \A m \in Names : Follows(stream.events, view, m, Listed(namespaces[m]))
  BY CompleteIs DEF StreamInv
<1>5. EventsComplete' <=>
        (stream'.state = "open" => \A m \in Names : Follows(stream'.events, view', m, Listed(namespaces'[m])))
  BY DEF EventsComplete, Follows, Listed
<1>6. CASE stream.state = "open" /\ Listed(ns) # Listed(namespaces[n])
  <2>1. stream' = [stream EXCEPT !.events = Append(stream.events, e)]
    BY <1>6 DEF PutNamespace
  <2> HIDE DEF e
  <2>2. stream.events \in Seq(Event) /\ Append(stream.events, e) \in Seq(Event)
    BY <1>1, <1>3
  <2>3. /\ stream' \in [state : {"new", "open", "closed"}, events : Seq(Event)]
        /\ stream'.state = "open" /\ stream'.events = Append(stream.events, e)
    BY <1>1, <1>6, <2>1, <2>2
  <2>4. ASSUME NEW m \in Names PROVE Follows(Append(stream.events, e), view, m, Listed(namespaces'[m]))
    <3>1. CASE m = n
      BY <1>2, <1>3, <2>2, <3>1, FollowsNext
    <3>2. CASE m # n
      BY <1>2, <1>3, <1>4, <1>6, <2>2, <3>2, FollowsNext
    <3> QED BY <3>1, <3>2
  <2>5. EventsComplete'
    BY <1>5, <2>3, <2>4
  <2> QED BY <2>3, <2>5 DEF StreamInv
<1>7. CASE ~(stream.state = "open" /\ Listed(ns) # Listed(namespaces[n]))
  <2>1. stream' = stream
    BY <1>7 DEF PutNamespace
  <2>2. stream.state = "open" => \A m \in Names : Listed(namespaces'[m]) = Listed(namespaces[m])
    BY <1>2, <1>7
  <2>3. EventsComplete'
    BY <1>4, <1>5, <2>1, <2>2
  <2> QED BY <2>1, <2>3 DEF StreamInv
<1> QED BY <1>6, <1>7

(* A request writes one namespace or none. *)
LEMMA RequestWrites ==
  ASSUME ProjInv, NEW r \in Requests, RequestStep(r)
  PROVE  /\ UNCHANGED <<changes, view>>
         /\ \/ UNCHANGED <<namespaces, stream>>
            \/ \E n \in Names, ns \in Namespace \cup {Gone} : PutNamespace(n, ns)
<1>1. requests[r].name \in Names /\ requests[r].read \in Namespace \cup {Gone}
  BY DEF ProjInv, NamespacesTyped, Request
<1>2. CASE CreateNamespace(r)
  <2>1. [label |-> "set", desc |-> "old"] \in Namespace
    BY DEF Namespace
  <2> QED BY <1>1, <1>2, <2>1 DEF CreateNamespace
<1>3. CASE UpdateNamespace(r)
  <2>1. CASE /\ PutNamespace(requests[r].name, [requests[r].read EXCEPT !.desc = "new"])
             /\ requests[r].fresh
    <3>1. requests[r].read \in Namespace
      BY <1>1, <1>3, <2>1 DEF UpdateNamespace, RequestAt, ProjInv, ReadHeld
    <3>2. [requests[r].read EXCEPT !.desc = "new"] \in Namespace
      BY <3>1 DEF Namespace
    <3> QED BY <1>1, <1>3, <2>1, <3>2 DEF UpdateNamespace
  <2>2. CASE UNCHANGED <<namespaces, stream>>
    BY <1>3, <2>2 DEF UpdateNamespace
  <2>3. \/ UNCHANGED <<namespaces, stream>>
        \/ /\ PutNamespace(requests[r].name, [requests[r].read EXCEPT !.desc = "new"])
           /\ requests[r].fresh
    <3>1. CASE namespaces[requests[r].name] = Gone
      BY <1>3, <3>1 DEF UpdateNamespace
    <3>2. CASE namespaces[requests[r].name] # Gone /\ ~requests[r].fresh
      BY <1>3, <3>2 DEF UpdateNamespace
    <3>3. CASE namespaces[requests[r].name] # Gone /\ requests[r].fresh
      BY <1>3, <3>3 DEF UpdateNamespace
    <3> QED BY <3>1, <3>2, <3>3
  <2> QED BY <2>1, <2>2, <2>3
<1>4. CASE DeleteNamespace(r)
  <2>1. Gone \in Namespace \cup {Gone}
    OBVIOUS
  <2> QED BY <1>1, <1>4, <2>1 DEF DeleteNamespace
<1>5. CASE Submit(r) \/ GetNamespace(r) \/ RequestFails(r)
  <2>1. UNCHANGED <<namespaces, changes, stream, view>>
    BY <1>5, Zenon DEF Submit, GetNamespace, RequestFails
  <2> QED BY <2>1
<1> QED BY <1>2, <1>3, <1>4, <1>5 DEF RequestStep

(* The events a watch starts with, in whatever order, tell of every project. *)
LEMMA OpenFollows ==
  ASSUME ProjInv, StreamInv, OpenStream
  PROVE  StreamInv'
<1> DEFINE there == {n \in Names : Listed(namespaces[n]) # Gone}
           D == 1..Cardinality(there)
<1>1. IsFiniteSet(there) /\ Cardinality(there) \in Nat
  BY ProjectsAssumption, FS_Subset, FS_CardinalityType
<1>2. PICK order \in SetToSeqs(there) :
        stream' = [state |-> "open", events |->
          [i \in DOMAIN order |-> [name |-> order[i], desc |-> Listed(namespaces[order[i]])]]]
  BY DEF OpenStream
<1>3. order \in [D -> there] /\ \A i, j \in D : i # j => order[i] # order[j]
  BY DEF SetToSeqs
<1>4. ASSUME NEW n \in there PROVE \E i \in D : order[i] = n
  <2>1. SUFFICES ASSUME \A i \in D : order[i] # n PROVE FALSE
    OBVIOUS
  <2>2. order \in [D -> there \ {n}]
    BY <1>3, <2>1
  <2>3. IsFiniteSet(there \ {n}) /\ Cardinality(there \ {n}) = Cardinality(there) - 1
    BY <1>1, FS_RemoveElement
  <2>4. IsFiniteSet(D) /\ Cardinality(D) = Cardinality(there)
    BY <1>1, FS_Interval
  <2> HIDE DEF D, there
  <2>5. \E x, y \in D : x # y /\ order[x] = order[y]
    BY <1>1, <2>2, <2>3, <2>4, FS_PigeonHole
  <2> QED BY <1>3, <2>5
<1> DEFINE ev == [i \in D |-> [name |-> order[i], desc |-> Listed(namespaces[order[i]])]]
<1>5. stream' = [state |-> "open", events |-> ev]
  BY <1>2, <1>3
<1>6. namespaces \in [Names -> Namespace \cup {Gone}] /\ UNCHANGED <<namespaces, changes, view>>
  BY DEF ProjInv, NamespacesTyped, OpenStream
<1>7. \A i \in D : ev[i] \in Event /\ ev[i].name = order[i]
  BY <1>3, <1>6, ListedIs DEF Event
<1>8. \A n \in Names : Listed(namespaces[n]) = Gone => \A i \in D : order[i] # n
  BY <1>3
<1>9. view \in [Names -> {"old", "new", Gone}] /\ \A n \in Names : view[n] = Gone
  BY DEF StreamInv, OpenStream
<1>10. \A n \in there : \E i \in D : ev[i] = [name |-> n, desc |-> Listed(namespaces[n])]
  BY <1>4
<1>11. ev \in Seq(Event) /\ DOMAIN ev = D
  <2>1. ev \in [1..Cardinality(there) -> Event]
    BY <1>7
  <2> HIDE DEF ev, there
  <2> QED BY <1>1, <2>1
<1> HIDE DEF ev
<1>12. ASSUME NEW n \in Names PROVE Follows(ev, view, n, Listed(namespaces[n]))
  <2>1. CASE Listed(namespaces[n]) = Gone
    BY <1>7, <1>8, <1>9, <1>11, <2>1 DEF Follows
  <2>2. CASE Listed(namespaces[n]) # Gone
    <3>1. PICK i \in D : ev[i] = [name |-> n, desc |-> Listed(namespaces[n])]
      BY <1>10, <2>2
    <3>2. \A j \in D : j > i => ev[j].name # n
      BY <1>3, <1>7, <3>1
    <3> QED BY <1>11, <3>1, <3>2 DEF Follows
  <2> QED BY <2>1, <2>2
<1>13. EventsComplete'
  <2>1. EventsComplete' <=>
          (stream'.state = "open" => \A n \in Names : Follows(stream'.events, view', n, Listed(namespaces'[n])))
    BY DEF EventsComplete, Follows, Listed
  <2> QED BY <1>5, <1>6, <1>12, <2>1
<1> QED BY <1>5, <1>6, <1>9, <1>11, <1>13 DEF StreamInv

LEMMA ForwardFollows ==
  ASSUME ProjInv, StreamInv, Forward
  PROVE  StreamInv'
<1> DEFINE ev == stream.events
           w == [view EXCEPT ![Head(ev).name] = Head(ev).desc]
<1>1. /\ stream \in [state : {"new", "open", "closed"}, events : Seq(Event)] /\ stream.state = "open"
      /\ ev # <<>> /\ view \in [Names -> {"old", "new", Gone}]
      /\ view' = w /\ stream' = [stream EXCEPT !.events = Tail(ev)]
      /\ UNCHANGED <<namespaces, changes>> /\ changes \in 0..MaxChanges
  BY DEF StreamInv, Forward
<1>2. ev \in Seq(Event)
  BY <1>1
<1>3. \A n \in Names : Follows(ev, view, n, Listed(namespaces[n]))
  BY <1>1, CompleteIs DEF StreamInv
<1>4. Head(ev) \in Event /\ Tail(ev) \in Seq(Event)
  BY <1>1, <1>2
<1>5. w \in [Names -> {"old", "new", Gone}]
  BY <1>1, <1>4 DEF Event
<1>6. /\ stream' \in [state : {"new", "open", "closed"}, events : Seq(Event)]
      /\ stream'.state = "open" /\ stream'.events = Tail(ev)
  BY <1>1, <1>4
<1> HIDE DEF ev
<1>7. \A n \in Names : Follows(Tail(ev), w, n, Listed(namespaces[n]))
  BY <1>1, <1>2, <1>3, FollowsRest
<1>8. EventsComplete'
  <2>1. EventsComplete' <=>
          (stream'.state = "open" => \A n \in Names : Follows(stream'.events, view', n, Listed(namespaces'[n])))
    BY DEF EventsComplete, Follows, Listed
  <2> QED BY <1>1, <1>6, <1>7, <2>1
<1> QED BY <1>1, <1>5, <1>6, <1>8 DEF StreamInv

LEMMA StreamInitInv == ProjInit => StreamInv
<1> SUFFICES ASSUME ProjInit PROVE StreamInv
  OBVIOUS
<1>1. stream = [state |-> "new", events |-> <<>>] /\ <<>> \in Seq(Event)
  BY DEF ProjInit
<1>2. stream \in [state : {"new", "open", "closed"}, events : Seq(Event)] /\ stream.state = "new"
  BY <1>1
<1> QED BY <1>2, ProjectsAssumption DEF ProjInit, StreamInv, EventsComplete

LEMMA StreamNextInv == ProjInv /\ StreamInv /\ [ProjNext]_projVars => StreamInv'
<1> SUFFICES ASSUME ProjInv, StreamInv, [ProjNext]_projVars PROVE StreamInv'
  OBVIOUS
<1>1. CASE UNCHANGED <<namespaces, changes, stream, view>>
  BY <1>1 DEF StreamInv, EventsComplete, Listed
<1>2. ASSUME NEW r \in Requests, RequestStep(r) PROVE StreamInv'
  <2>1. changes' \in 0..MaxChanges /\ view' = view /\ changes' = changes
    BY <1>2, RequestWrites DEF StreamInv
  <2>2. CASE UNCHANGED <<namespaces, stream>>
    BY <1>1, <2>1, <2>2
  <2>3. CASE \E n \in Names, ns \in Namespace \cup {Gone} : PutNamespace(n, ns)
    BY <2>1, <2>3, PutFollows
  <2> QED BY <1>2, <2>2, <2>3, RequestWrites
<1>3. ASSUME NEW n \in Names, AdminWrites(n) PROVE StreamInv'
  <2>1. changes' \in 0..MaxChanges /\ view' = view
    BY <1>3, ProjectsAssumption DEF AdminWrites, StreamInv
  <2>2. PICK ns \in [label : {"none", "empty", "set"}, desc : {"old"}] \cup {Gone} : PutNamespace(n, ns)
    BY <1>3 DEF AdminWrites
  <2>3. ns \in Namespace \cup {Gone}
    BY DEF Namespace
  <2> QED BY <2>1, <2>2, <2>3, PutFollows
<1>4. CASE CloseStream
  <2>1. stream' = [state |-> "closed", events |-> <<>>] /\ <<>> \in Seq(Event)
        /\ UNCHANGED <<changes, view>>
    BY <1>4 DEF CloseStream
  <2>2. stream' \in [state : {"new", "open", "closed"}, events : Seq(Event)] /\ stream'.state = "closed"
    BY <2>1
  <2> QED BY <2>1, <2>2 DEF StreamInv, EventsComplete
<1>5. CASE UNCHANGED projVars
  BY <1>1, <1>5 DEF projVars
<1> QED BY <1>2, <1>3, <1>4, <1>5, OpenFollows, ForwardFollows DEF ProjNext

LEMMA StreamTyped == ProjInv /\ StreamInv => ProjTypeOK
<1> SUFFICES ASSUME ProjInv, StreamInv PROVE ProjTypeOK
  OBVIOUS
<1>1. stream.state \in {"new", "open", "closed"} /\ stream.events \in Seq(Event)
  BY DEF StreamInv
<1>2. \A i \in DOMAIN stream.events : stream.events[i] \in Event
  BY <1>1
<1> QED BY <1>1, <1>2 DEF ProjInv, NamespacesTyped, StreamInv, ProjTypeOK

-----------------------------------------------------------------------------
(* SparkApps                                                                *)

(* The place of a request in its handler: a submission has the settings it   *)
(* was sent, none without a spec, an edit that would pass the version check  *)
(* has read the application as it is, and only a request that is over has an *)
(* answer.                                                                   *)
AppRequestOK(q) ==
  /\ q \in AppRequest
  /\ q.pc = "create" => \E c \in SUBSET Settings : q.confs = {c} /\ (~q.spec => c = {})
  /\ q.pc \in {"get", "update"} => q.confs = {} \/ \E c \in SUBSET Settings : q.confs = {c}
  /\ q.pc = "update" /\ q.fresh => q.read = app /\ app # NoApp
  /\ q.pc # "done" => q.code = "none"

(* What the user sent has the user's value, and an event log of the server's *)
(* has its volumes.                                                          *)
Complete(a) ==
  /\ \A k \in a.asked : \/ a.conf[k] = "user"
                        \/ k = "driverMount" /\ a.conf["driverClaim"] = "default"
                        \/ k = "execMount" /\ a.conf["execClaim"] = "default"
  /\ a.conf["eventLog"] = "default" => a.conf["driverClaim"] # "unset" /\ a.conf["execClaim"] # "unset"

(* The inductive invariant. *)
SparkInv ==
  /\ app \in App \cup {NoApp}
  /\ appRequests \in [AppRequests -> AppRequest]
  /\ \A r \in AppRequests : AppRequestOK(appRequests[r])
  /\ app # NoApp => Complete(app)

-----------------------------------------------------------------------------
(* The defaults. *)

(* Where each setting of a submitted application comes from. *)
LEMMA DefaultsOf ==
  ASSUME NEW keys \in SUBSET Settings, NEW suffix \in BOOLEAN, NEW pvc \in BOOLEAN
  PROVE  LET conf == WithDefaults(Sent(keys), suffix, pvc)
         IN  /\ conf \in [Settings -> {"unset", "user", "default"}]
             /\ \A k \in keys : \/ conf[k] = "user"
                                \/ k = "driverMount" /\ conf["driverClaim"] = "default"
                                \/ k = "execMount" /\ conf["execClaim"] = "default"
             /\ conf["eventLog"] = "default" => conf["driverClaim"] # "unset" /\ conf["execClaim"] # "unset"
<1> DEFINE vals == {"unset", "user", "default"}
           shown == Defaulted(Sent(keys), {"ui"} \cup (IF suffix THEN {"proxyUrl"} ELSE {}))
           logged == Defaulted(shown, {"eventLog"})
           driver == InjectVolume(logged, "driverClaim", "driverMount")
           both == InjectVolume(driver, "execClaim", "execMount")
<1>0. /\ "driverClaim" \in Settings /\ "driverMount" \in Settings /\ "execClaim" \in Settings
      /\ "execMount" \in Settings /\ "eventLog" \in Settings
  BY DEF Settings
<1>1. /\ shown \in [Settings -> vals]
      /\ \A k \in keys : shown[k] = "user"
      /\ \A k \in Settings \ keys : shown[k] \in {"unset", "default"}
      /\ shown["eventLog"] # "default"
  BY <1>0 DEF Defaulted, Sent
<1> HIDE DEF shown
<1>2. logged \in [Settings -> vals] /\ \A k \in keys : logged[k] = "user"
  BY <1>1 DEF Defaulted
<1> HIDE DEF logged
<1>3. /\ driver \in [Settings -> vals] /\ driver["driverClaim"] # "unset"
      /\ \A k \in keys : driver[k] = "user" \/ (k = "driverMount" /\ driver["driverClaim"] = "default")
  BY <1>0, <1>2 DEF InjectVolume
<1> HIDE DEF driver
<1>4. /\ both \in [Settings -> vals] /\ both["execClaim"] # "unset"
      /\ both["driverClaim"] = driver["driverClaim"]
      /\ \A k \in keys : both[k] = driver[k] \/ (k = "execMount" /\ both["execClaim"] = "default")
  BY <1>0, <1>2, <1>3 DEF InjectVolume
<1> HIDE DEF both
<1>5. WithDefaults(Sent(keys), suffix, pvc) = IF pvc THEN both ELSE shown
  BY DEF WithDefaults, both, driver, logged, shown
<1> QED BY <1>1, <1>3, <1>4, <1>5

(* What a submission stores. *)
LEMMA NewAppOK ==
  ASSUME NEW q, NEW keys \in SUBSET Settings, q.confs = {keys}, q.spec \in BOOLEAN,
         ~q.spec => keys = {}, NEW suffix \in BOOLEAN, NEW pvc \in BOOLEAN
  PROVE  NewApp(q, suffix, pvc) \in App /\ Complete(NewApp(q, suffix, pvc))
<1> DEFINE a == NewApp(q, suffix, pvc)
<1>1. (CHOOSE c \in q.confs : TRUE) = keys
  OBVIOUS
<1>2. a = [conf |-> IF q.spec THEN WithDefaults(Sent(keys), suffix, pvc) ELSE Sent({}),
           image |-> "v1", extra |-> q.kind = "yaml", asked |-> keys]
  BY <1>1 DEF NewApp
<1> HIDE DEF a
<1>3. a.asked = keys /\ a.conf = IF q.spec THEN WithDefaults(Sent(keys), suffix, pvc) ELSE Sent({})
  BY <1>2
<1>4. a.conf \in [Settings -> {"unset", "user", "default"}]
  <2>1. Sent({}) \in [Settings -> {"unset", "user", "default"}]
    BY DEF Sent
  <2> QED BY <1>3, <2>1, DefaultsOf
<1>5. a \in App
  BY <1>2, <1>3, <1>4 DEF App
<1>6. ASSUME q.spec PROVE Complete(a)
  BY <1>3, <1>6, DefaultsOf DEF Complete
<1>7. ASSUME ~q.spec PROVE Complete(a)
  <2>1. keys = {} /\ Sent({})["eventLog"] = "unset"
    BY <1>7 DEF Sent, Settings
  <2> QED BY <1>3, <1>7, <2>1 DEF Complete
<1> QED BY <1>5, <1>6, <1>7 DEF a

LEMMA SparkInitInv == SparkInit => SparkInv
<1> SUFFICES ASSUME SparkInit PROVE SparkInv
  OBVIOUS
<1>1. app \in App /\ Complete(app)
  <2> DEFINE q == [kind |-> "form", spec |-> TRUE, confs |-> {{}}]
  <2>1. q.confs = {{}} /\ q.spec = TRUE /\ {} \in SUBSET Settings
    OBVIOUS
  <2>2. app = NewApp(q, TRUE, FALSE)
    BY DEF SparkInit
  <2> HIDE DEF q
  <2> QED BY <2>1, <2>2, NewAppOK
<1>2. \A r \in AppRequests : AppRequestOK(appRequests[r])
  BY DEF SparkInit, AppRequestOK, AppRequest
<1> QED BY <1>1, <1>2 DEF SparkInit, SparkInv, AppRequestOK

-----------------------------------------------------------------------------
(* The steps. *)

LEMMA AppAnswerIs ==
  ASSUME SparkInv, NEW r \in AppRequests, NEW code \in {"201", "200", "204", "404", "409", "500"}
  PROVE  LET rs == AppAnswer(r, code)
         IN  /\ rs \in [AppRequests -> AppRequest]
             /\ rs[r].pc = "done" /\ rs[r].code = code
             /\ \A d \in AppRequests \ {r} : rs[d] = appRequests[d]
<1> DEFINE q == [appRequests[r] EXCEPT !.pc = "done", !.code = code]
<1>1. appRequests \in [AppRequests -> AppRequest] /\ appRequests[r] \in AppRequest
  BY DEF SparkInv
<1>2. AppAnswer(r, code) = [appRequests EXCEPT ![r] = q]
  BY DEF AppAnswer
<1>3. q \in AppRequest /\ q.pc = "done" /\ q.code = code
  BY <1>1 DEF AppRequest
<1> HIDE DEF q
<1> QED BY <1>1, <1>2, <1>3

LEMMA AllStaleIs ==
  ASSUME NEW rs \in [AppRequests -> AppRequest]
  PROVE  /\ AllStale(rs) \in [AppRequests -> AppRequest]
         /\ \A d \in AppRequests :
              /\ AllStale(rs)[d].fresh = FALSE
              /\ AllStale(rs)[d].pc = rs[d].pc /\ AllStale(rs)[d].code = rs[d].code
              /\ AllStale(rs)[d].confs = rs[d].confs /\ AllStale(rs)[d].spec = rs[d].spec
<1>1. ASSUME NEW d \in AppRequests
      PROVE  LET q == [rs[d] EXCEPT !.fresh = FALSE]
             IN  /\ q \in AppRequest /\ q.fresh = FALSE /\ q.pc = rs[d].pc
                 /\ q.code = rs[d].code /\ q.confs = rs[d].confs /\ q.spec = rs[d].spec
  <2>1. rs[d] \in AppRequest
    OBVIOUS
  <2> QED BY <2>1 DEF AppRequest
<1> QED BY <1>1 DEF AllStale

(* A write takes the version from everybody. *)
LEMMA AppWriteKeeps ==
  ASSUME SparkInv, NEW rs \in [AppRequests -> AppRequest], appRequests' = AllStale(rs),
         \A d \in AppRequests : rs[d] = appRequests[d] \/ rs[d].pc = "done",
         app' = NoApp \/ (app' \in App /\ Complete(app'))
  PROVE  SparkInv'
<1>1. ASSUME NEW d \in AppRequests PROVE AppRequestOK(appRequests[d])'
  <2>1. /\ appRequests'[d] \in AppRequest /\ appRequests'[d].fresh = FALSE
        /\ appRequests'[d].pc = rs[d].pc /\ appRequests'[d].code = rs[d].code
        /\ appRequests'[d].confs = rs[d].confs /\ appRequests'[d].spec = rs[d].spec
    BY AllStaleIs
  <2>2. AppRequestOK(appRequests[d])
    BY DEF SparkInv
  <2>3. CASE rs[d].pc = "done"
    BY <2>1, <2>3 DEF AppRequestOK
  <2>4. CASE rs[d] = appRequests[d]
    BY <2>1, <2>2, <2>4 DEF AppRequestOK
  <2> QED BY <2>3, <2>4
<1> QED BY <1>1, AllStaleIs DEF SparkInv

LEMMA AppAnswerKeeps ==
  ASSUME SparkInv, NEW r \in AppRequests, NEW code \in {"201", "200", "204", "404", "409", "500"},
         appRequests' = AppAnswer(r, code), app' = app
  PROVE  SparkInv'
<1>1. /\ appRequests' \in [AppRequests -> AppRequest] /\ appRequests'[r].pc = "done"
      /\ \A d \in AppRequests \ {r} : appRequests'[d] = appRequests[d]
  BY AppAnswerIs
<1>2. ASSUME NEW d \in AppRequests PROVE AppRequestOK(appRequests[d])'
  BY <1>1 DEF SparkInv, AppRequestOK
<1> QED BY <1>1, <1>2 DEF SparkInv

LEMMA AppWriteAnswered ==
  ASSUME SparkInv, NEW r \in AppRequests, NEW code \in {"201", "200", "204"},
         appRequests' = AllStale(AppAnswer(r, code)),
         app' = NoApp \/ (app' \in App /\ Complete(app'))
  PROVE  SparkInv'
<1>1. /\ AppAnswer(r, code) \in [AppRequests -> AppRequest] /\ AppAnswer(r, code)[r].pc = "done"
      /\ \A d \in AppRequests \ {r} : AppAnswer(r, code)[d] = appRequests[d]
  BY AppAnswerIs
<1> QED BY <1>1, AppWriteKeeps

(* A request that goes on by itself. *)
LEMMA AppGoesOn ==
  ASSUME SparkInv, NEW r \in AppRequests, NEW q, AppRequestOK(q),
         appRequests' = [appRequests EXCEPT ![r] = q], app' = app
  PROVE  SparkInv'
<1>1. appRequests' \in [AppRequests -> AppRequest]
  BY DEF SparkInv, AppRequestOK
<1>2. ASSUME NEW d \in AppRequests PROVE AppRequestOK(appRequests[d])'
  BY DEF SparkInv, AppRequestOK
<1> QED BY <1>1, <1>2 DEF SparkInv

LEMMA SubmitAppInv ==
  ASSUME SparkInv, NEW r \in AppRequests, SubmitAppRequest(r)
  PROVE  SparkInv'
<1>1. PICK kind \in {"form", "yaml", "edit", "delete"}, c \in UserConfs,
           has \in BOOLEAN, image \in BOOLEAN, spec \in BOOLEAN :
        /\ kind \in {"form", "yaml"} => has /\ ~image
        /\ kind = "delete" => ~has /\ ~image
        /\ ~spec => kind = "yaml" /\ c = {}
        /\ appRequests' = [appRequests EXCEPT ![r] =
             [@ EXCEPT !.kind = kind, !.image = image, !.spec = spec, !.confs = IF has THEN {c} ELSE {},
                       !.pc = CASE kind = "edit" -> "get" [] kind = "delete" -> "delete" [] OTHER -> "create"]]
  BY DEF SubmitAppRequest
<1> DEFINE p == CASE kind = "edit" -> "get" [] kind = "delete" -> "delete" [] OTHER -> "create"
           cs == IF has THEN {c} ELSE {}
           q == [appRequests[r] EXCEPT !.kind = kind, !.image = image, !.spec = spec, !.confs = cs, !.pc = p]
<1>2. p \in {"get", "delete", "create"} /\ (p = "create" <=> kind \in {"form", "yaml"})
  OBVIOUS
<1>3. c \in SUBSET Settings /\ cs \in SUBSET (SUBSET Settings)
  BY SparkAppsAssumption
<1>4. p = "create" => cs = {c}
  BY <1>1, <1>2
<1>5. appRequests[r] \in AppRequest /\ appRequests[r].pc = "ready" /\ AppRequestOK(appRequests[r])
  BY DEF SparkInv, SubmitAppRequest, AppAt
<1>6. appRequests' = [appRequests EXCEPT ![r] = q] /\ app' = app
  BY <1>1 DEF SubmitAppRequest, SparkInv
<1> HIDE DEF p
<1>7. /\ q \in AppRequest /\ q.pc = p /\ q.confs = cs /\ q.spec = spec
      /\ q.code = appRequests[r].code
  BY <1>2, <1>3, <1>5 DEF AppRequest
<1>8. cs = {} \/ cs = {c}
  OBVIOUS
<1> HIDE DEF q, cs
<1>9. AppRequestOK(q)
  BY <1>1, <1>2, <1>3, <1>4, <1>5, <1>7, <1>8 DEF AppRequestOK
<1> QED BY <1>6, <1>9, AppGoesOn

LEMMA GetAppInv ==
  ASSUME SparkInv, NEW r \in AppRequests, GetApp(r)
  PROVE  SparkInv'
<1>1. CASE app = NoApp
  BY <1>1, AppAnswerKeeps DEF GetApp
<1>2. CASE app # NoApp
  <2> DEFINE q == [appRequests[r] EXCEPT !.pc = "update", !.read = app, !.fresh = TRUE]
  <2>1. app \in App /\ appRequests[r] \in AppRequest /\ appRequests[r].pc = "get"
    BY <1>2 DEF SparkInv, GetApp, AppAt
  <2>2. /\ q \in AppRequest /\ q.pc = "update" /\ q.read = app /\ q.code = appRequests[r].code
        /\ q.confs = appRequests[r].confs
    BY <2>1 DEF AppRequest
  <2>3. appRequests' = [appRequests EXCEPT ![r] = q] /\ app' = app
    BY <1>2 DEF GetApp, SparkInv
  <2> HIDE DEF q
  <2>4. AppRequestOK(q)
    BY <1>2, <2>1, <2>2 DEF AppRequestOK, SparkInv
  <2> QED BY <2>3, <2>4, AppGoesOn
<1> QED BY <1>1, <1>2

(* The three outcomes of UpdateApp's write; an accepted one starts from the  *)
(* application as it is.                                                     *)
LEMMA EditCases ==
  ASSUME SparkInv, NEW r \in AppRequests, EditApp(r)
  PROVE  \/ \E code \in {"404", "500"} : appRequests' = AppAnswer(r, code) /\ app' = app
         \/ /\ appRequests' = AllStale(AppAnswer(r, "200"))
            /\ app \in App /\ app # NoApp
            /\ appRequests[r].confs = {} =>
                 app' = [app EXCEPT !.extra = FALSE, !.image = IF appRequests[r].image THEN "v2" ELSE @]
            /\ \A c \in SUBSET Settings : appRequests[r].confs = {c} =>
                 app' = [app EXCEPT !.conf = Sent(c), !.asked = c, !.extra = FALSE,
                                    !.image = IF appRequests[r].image THEN "v2" ELSE @]
<1>1. CASE app = NoApp
  BY <1>1 DEF EditApp
<1>2. CASE app # NoApp /\ ~appRequests[r].fresh
  BY <1>2 DEF EditApp
<1>3. CASE app # NoApp /\ appRequests[r].fresh
  <2>1. appRequests[r].read = app /\ app \in App
    BY <1>3 DEF EditApp, AppAt, SparkInv, AppRequestOK
  <2>2. appRequests' = AllStale(AppAnswer(r, "200"))
    BY <1>3 DEF EditApp
  <2>3. CASE appRequests[r].confs = {}
    BY <1>3, <2>1, <2>2, <2>3 DEF EditApp, App
  <2>4. ASSUME NEW c \in SUBSET Settings, appRequests[r].confs = {c}
        PROVE  app' = [app EXCEPT !.conf = Sent(c), !.asked = c, !.extra = FALSE,
                                  !.image = IF appRequests[r].image THEN "v2" ELSE @]
    <3>1. (CHOOSE x \in appRequests[r].confs : TRUE) = c /\ appRequests[r].confs # {}
      BY <2>4
    <3> QED BY <1>3, <2>1, <3>1 DEF EditApp, App
  <2> QED BY <1>3, <2>1, <2>2, <2>3, <2>4
<1> QED BY <1>1, <1>2, <1>3

LEMMA EditInv ==
  ASSUME SparkInv, NEW r \in AppRequests, EditApp(r)
  PROVE  SparkInv'
<1>1. CASE \E code \in {"404", "500"} : appRequests' = AppAnswer(r, code) /\ app' = app
  BY <1>1, AppAnswerKeeps
<1>2. CASE ~ \E code \in {"404", "500"} : appRequests' = AppAnswer(r, code) /\ app' = app
  <2>1. /\ appRequests' = AllStale(AppAnswer(r, "200")) /\ app \in App /\ app # NoApp
        /\ appRequests[r].image \in BOOLEAN
        /\ appRequests[r].confs = {} \/ \E c \in SUBSET Settings : appRequests[r].confs = {c}
    BY <1>2, EditCases DEF EditApp, AppAt, SparkInv, AppRequestOK, AppRequest
  <2>2. Complete(app)
    BY <2>1 DEF SparkInv
  <2>3. CASE appRequests[r].confs = {}
    <3>1. app' = [app EXCEPT !.extra = FALSE, !.image = IF appRequests[r].image THEN "v2" ELSE @]
      BY <1>2, <2>3, EditCases
    <3>2. app' \in App /\ app'.conf = app.conf /\ app'.asked = app.asked
      BY <2>1, <3>1 DEF App
    <3>3. Complete(app')
      BY <2>2, <3>2 DEF Complete
    <3> QED BY <2>1, <3>2, <3>3, AppWriteAnswered
  <2>4. ASSUME NEW c \in SUBSET Settings, appRequests[r].confs = {c} PROVE SparkInv'
    <3>1. app' = [app EXCEPT !.conf = Sent(c), !.asked = c, !.extra = FALSE,
                             !.image = IF appRequests[r].image THEN "v2" ELSE @]
      BY <1>2, <2>4, EditCases
    <3>2. Sent(c) \in [Settings -> {"unset", "user", "default"}]
      BY DEF Sent
    <3>3. app' \in App /\ app'.conf = Sent(c) /\ app'.asked = c
      BY <2>1, <3>1, <3>2 DEF App
    <3>4. Complete(app')
      BY <3>3 DEF Complete, Sent, Settings
    <3> QED BY <2>1, <3>3, <3>4, AppWriteAnswered
  <2> QED BY <2>1, <2>3, <2>4
<1> QED BY <1>1, <1>2

LEMMA CreateInv ==
  ASSUME SparkInv, NEW r \in AppRequests, CreateApp(r)
  PROVE  SparkInv'
<1>1. CASE app # NoApp
  BY <1>1, AppAnswerKeeps DEF CreateApp
<1>2. CASE app = NoApp
  <2>1. PICK suffix \in BOOLEAN, pvc \in BOOLEAN : app' = NewApp(appRequests[r], suffix, pvc)
    BY <1>2 DEF CreateApp
  <2>2. PICK c \in SUBSET Settings : appRequests[r].confs = {c} /\ (~appRequests[r].spec => c = {})
    BY DEF CreateApp, AppAt, SparkInv, AppRequestOK
  <2>3. appRequests[r].spec \in BOOLEAN
    BY DEF SparkInv, AppRequest
  <2>4. app' \in App /\ Complete(app')
    BY <2>1, <2>2, <2>3, NewAppOK
  <2> QED BY <1>2, <2>4, AppWriteAnswered DEF CreateApp
<1> QED BY <1>1, <1>2

LEMMA SparkNextInv == SparkInv /\ [SparkNext]_appVars => SparkInv'
<1> SUFFICES ASSUME SparkInv, [SparkNext]_appVars PROVE SparkInv'
  OBVIOUS
<1>1. ASSUME NEW r \in AppRequests, SparkStep(r) PROVE SparkInv'
  <2>1. CASE DeleteApp(r)
    BY <2>1, AppAnswerKeeps, AppWriteAnswered DEF DeleteApp
  <2>2. CASE AppCallFails(r)
    BY <2>2, AppAnswerKeeps DEF AppCallFails
  <2> QED BY <1>1, <2>1, <2>2, SubmitAppInv, CreateInv, GetAppInv, EditInv DEF SparkStep
<1>2. CASE OperatorWrites
  <2>1. appRequests \in [AppRequests -> AppRequest] /\ appRequests' = AllStale(appRequests)
    BY <1>2 DEF SparkInv, OperatorWrites
  <2>2. app' = NoApp \/ (app' \in App /\ Complete(app'))
    BY <1>2 DEF SparkInv, OperatorWrites
  <2> QED BY <2>1, <2>2, AppWriteKeeps
<1>3. CASE UNCHANGED appVars
  BY <1>3 DEF appVars, SparkInv, AppRequestOK
<1> QED BY <1>1, <1>2, <1>3 DEF SparkNext

LEMMA AlwaysSparkInv == SparkSpec => []SparkInv
  BY SparkInitInv, SparkNextInv, PTL DEF SparkSpec

-----------------------------------------------------------------------------

(* The application and the requests keep their types. *)
THEOREM SparkTypeCorrect == SparkSpec => []SparkTypeOK
<1>1. SparkInv => SparkTypeOK
  BY DEF SparkInv, SparkTypeOK
<1> QED BY <1>1, AlwaysSparkInv, PTL

(* SubmitApp, SubmitAppYAML and UpdateApp: after any history, what the user  *)
(* sent has the user's value, and an event log the server turned on has its  *)
(* volume on both sides.                                                     *)
THEOREM DefaultsCompleteHolds == SparkSpec => []DefaultsComplete
<1>1. SparkInv => DefaultsComplete
  BY DEF SparkInv, Complete, DefaultsComplete, UserSettingsKept, EventLogMounted
<1> QED BY <1>1, AlwaysSparkInv, PTL

(* An accepted edit keeps what it did not send of the application as it is   *)
(* when the write lands.                                                     *)
LEMMA EditKeepsRest ==
  ASSUME SparkInv, SparkNext, NEW r \in AppRequests, AppAt(r, "update"), appRequests'[r].code = "200"
  PROVE  /\ ~appRequests[r].image => app'.image = app.image
         /\ appRequests[r].confs = {} => app'.conf = app.conf
<1>0. /\ appRequests \in [AppRequests -> AppRequest] /\ appRequests[r].code = "none"
      /\ appRequests[r].confs = {} \/ \E c \in SUBSET Settings : appRequests[r].confs = {c}
  BY DEF SparkInv, AppRequestOK, AppAt
<1>1. ASSUME NEW d \in AppRequests, NEW code \in {"201", "200", "204", "404", "409", "500"},
             appRequests' = AppAnswer(d, code) \/ appRequests' = AllStale(AppAnswer(d, code))
      PROVE  d = r /\ code = "200"
  <2>1. /\ AppAnswer(d, code) \in [AppRequests -> AppRequest]
        /\ AppAnswer(d, code)[d].code = code /\ (d # r => AppAnswer(d, code)[r] = appRequests[r])
    BY AppAnswerIs
  <2>2. AllStale(AppAnswer(d, code))[r].code = AppAnswer(d, code)[r].code
    BY <2>1, AllStaleIs
  <2> QED BY <1>0, <1>1, <2>1, <2>2
<1>2. ~OperatorWrites
  BY <1>0, AllStaleIs DEF OperatorWrites
<1>3. PICK d \in AppRequests : SparkStep(d)
  BY <1>2 DEF SparkNext
<1>4. ~SubmitAppRequest(d)
  <2> SUFFICES ASSUME SubmitAppRequest(d) PROVE FALSE
    OBVIOUS
  <2>1. d # r
    BY DEF SubmitAppRequest, AppAt
  <2>2. appRequests'[r] = appRequests[r]
    BY <1>0, <2>1 DEF SubmitAppRequest
  <2> QED BY <1>0, <2>2
<1>5. ~CreateApp(d)
  BY <1>1 DEF CreateApp, AppAt
<1>6. ~GetApp(d)
  <2> SUFFICES ASSUME GetApp(d) PROVE FALSE
    OBVIOUS
  <2>1. d # r
    BY DEF GetApp, AppAt
  <2>2. appRequests' # AppAnswer(d, "404")
    BY <1>1
  <2>3. appRequests'[r] = appRequests[r]
    BY <1>0, <2>1, <2>2 DEF GetApp
  <2> QED BY <1>0, <2>3
<1>7. ~DeleteApp(d) /\ ~AppCallFails(d)
  BY <1>1 DEF DeleteApp, AppCallFails
<1>8. EditApp(d)
  BY <1>3, <1>4, <1>5, <1>6, <1>7 DEF SparkStep
<1>9. appRequests' # AppAnswer(d, "404") /\ appRequests' # AppAnswer(d, "500")
  BY <1>1
<1>10. appRequests' = AllStale(AppAnswer(d, "200"))
  BY <1>8, <1>9, EditCases
<1>11. d = r /\ app \in App
  BY <1>1, <1>8, <1>9, <1>10, EditCases
<1>12. CASE appRequests[r].confs = {}
  <2>1. app' = [app EXCEPT !.extra = FALSE, !.image = IF appRequests[r].image THEN "v2" ELSE @]
    BY <1>8, <1>9, <1>11, <1>12, EditCases
  <2> QED BY <1>11, <2>1 DEF App
<1>13. ASSUME NEW c \in SUBSET Settings, appRequests[r].confs = {c}
       PROVE  ~appRequests[r].image => app'.image = app.image
  <2>1. app' = [app EXCEPT !.conf = Sent(c), !.asked = c, !.extra = FALSE,
                           !.image = IF appRequests[r].image THEN "v2" ELSE @]
    BY <1>8, <1>9, <1>11, <1>13, EditCases
  <2> QED BY <1>11, <2>1 DEF App
<1> QED BY <1>0, <1>12, <1>13

(* UpdateApp: no interleaving of edits, deletions, new submissions and the   *)
(* operator lets an edit undo what another one has written.                  *)
THEOREM EditsComposeHolds == SparkSpec => EditsCompose
<1>1. SparkInv /\ [SparkNext]_appVars =>
        [\A r \in AppRequests : AppAt(r, "update") /\ appRequests'[r].code = "200" =>
           /\ ~appRequests[r].image => app'.image = app.image
           /\ appRequests[r].confs = {} => app'.conf = app.conf]_appVars
  BY EditKeepsRest
<1> QED BY <1>1, AlwaysSparkInv, PTL DEF SparkSpec, EditsCompose

-----------------------------------------------------------------------------
(* LogStreams *)

LogTyped ==
  /\ pod \in [lines : 0..MaxLines, end : {"open", "eof", "error"}]
  /\ scanner \in [pc : {"scan", "send", "err", "close", "done"}, read : 0..MaxLines, err : BOOLEAN]
  /\ handler \in {"serve", "ended", "left"}
  /\ chans \in [closed : BOOLEAN, scanErr : {"none", "nil", "error"}]
  /\ ctxDone \in BOOLEAN
  /\ sent \in Seq(0..MaxLines)

(* The lines sent are the first ones of the log, and the error event is the  *)
(* last thing the handler writes.                                            *)
InOrder == \A i \in DOMAIN sent : \/ sent[i] = i
                                  \/ i = Len(sent) /\ sent[i] = ErrorEvent /\ handler # "serve"

(* How far the goroutine and the handler are apart. *)
Paced ==
  /\ scanner.read <= pod.lines
  /\ chans.closed <=> scanner.pc = "done"
  /\ handler = "serve" =>
       /\ scanner.pc = "send" => Len(sent) + 1 = scanner.read
       /\ scanner.pc \in {"scan", "err", "close"} => Len(sent) = scanner.read
       /\ scanner.pc = "done" /\ ~ctxDone => Len(sent) = scanner.read

(* While nobody has cancelled, the goroutine leaves its loop only at the end *)
(* of the log, and says how it ended before it closes the channel.           *)
Drained ==
  handler = "serve" /\ ~ctxDone =>
    /\ scanner.pc \in {"err", "close", "done"} =>
         scanner.read = pod.lines /\ pod.end # "open" /\ (scanner.err <=> pod.end = "error")
    /\ scanner.pc \in {"close", "done"} => chans.scanErr = IF scanner.err THEN "error" ELSE "nil"

(* What the handler has written when the log is over. *)
Ended ==
  handler = "ended" /\ ~ctxDone =>
    /\ pod.end # "open"
    /\ Len(sent) = pod.lines + (IF pod.end = "error" THEN 1 ELSE 0)
    /\ EndsInError <=> pod.end = "error"

LogInv == LogTyped /\ InOrder /\ Paced /\ Drained /\ Ended

LEMMA LogInitInv == LogInit => LogInv
<1> SUFFICES ASSUME LogInit PROVE LogInv
  OBVIOUS
<1>1. /\ pod = [lines |-> 0, end |-> "open"] /\ scanner = [pc |-> "scan", read |-> 0, err |-> FALSE]
      /\ handler = "serve" /\ chans = [closed |-> FALSE, scanErr |-> "none"] /\ ~ctxDone /\ sent = <<>>
      /\ 0 \in 0..MaxLines
  BY LogStreamsAssumption DEF LogInit
<1>2. sent \in Seq(0..MaxLines) /\ Len(sent) = 0 /\ DOMAIN sent = {}
  BY <1>1
<1>3. LogTyped
  <2>1. pod \in [lines : 0..MaxLines, end : {"open", "eof", "error"}]
    BY <1>1
  <2>2. scanner \in [pc : {"scan", "send", "err", "close", "done"}, read : 0..MaxLines, err : BOOLEAN]
    BY <1>1
  <2>3. chans \in [closed : BOOLEAN, scanErr : {"none", "nil", "error"}]
    BY <1>1
  <2>4. handler \in {"serve", "ended", "left"} /\ ctxDone \in BOOLEAN
    BY DEF LogInit
  <2> QED BY <1>2, <2>1, <2>2, <2>3, <2>4 DEF LogTyped
<1> QED BY <1>1, <1>2, <1>3 DEF LogInv, InOrder, Paced, Drained, Ended

LEMMA ServeLineInv ==
  ASSUME LogInv, ServeLine PROVE LogInv'
<1>1. /\ handler = "serve" /\ scanner.pc = "send" /\ scanner' = [scanner EXCEPT !.pc = "scan"]
      /\ sent' = Append(sent, scanner.read) /\ UNCHANGED <<pod, handler, chans, ctxDone>>
  BY DEF ServeLine
<1>2. LogTyped /\ scanner.read \in 0..MaxLines /\ sent \in Seq(0..MaxLines)
  BY DEF LogInv, LogTyped
<1>3. /\ scanner' \in [pc : {"scan", "send", "err", "close", "done"}, read : 0..MaxLines, err : BOOLEAN]
      /\ scanner'.pc = "scan" /\ scanner'.read = scanner.read
  BY <1>1 DEF LogInv, LogTyped
<1>4. /\ sent' \in Seq(0..MaxLines) /\ Len(sent') = Len(sent) + 1 /\ Len(sent) \in Nat
      /\ DOMAIN sent = 1..Len(sent) /\ DOMAIN sent' = 1..(Len(sent) + 1)
      /\ sent'[Len(sent) + 1] = scanner.read /\ \A i \in 1..Len(sent) : sent'[i] = sent[i]
  BY <1>1, <1>2
<1>5. LogTyped'
  BY <1>1, <1>2, <1>3, <1>4 DEF LogTyped
<1>6. Len(sent) + 1 = scanner.read
  BY <1>1 DEF LogInv, Paced
<1>7. InOrder'
  BY <1>1, <1>4, <1>6 DEF LogInv, InOrder
<1>8. Paced'
  BY <1>1, <1>3, <1>4, <1>6 DEF LogInv, Paced
<1>9. Drained' /\ Ended'
  BY <1>1, <1>3 DEF Drained, Ended
<1> QED BY <1>5, <1>7, <1>8, <1>9 DEF LogInv

LEMMA ServeEndInv ==
  ASSUME LogInv, ServeEnd PROVE LogInv'
<1>1. /\ handler = "serve" /\ chans.closed /\ handler' = "ended"
      /\ sent' = IF chans.scanErr = "error" THEN Append(sent, ErrorEvent) ELSE sent
      /\ chans' = [chans EXCEPT !.scanErr = "none"] /\ UNCHANGED <<pod, scanner, ctxDone>>
  BY DEF ServeEnd
<1>2. LogTyped /\ sent \in Seq(0..MaxLines) /\ 0 \in 0..MaxLines /\ scanner.pc = "done"
  BY <1>1, LogStreamsAssumption DEF LogInv, LogTyped, Paced
<1>3. /\ chans' \in [closed : BOOLEAN, scanErr : {"none", "nil", "error"}] /\ chans'.closed
  BY <1>1 DEF LogInv, LogTyped
<1>4. Paced'
  BY <1>1, <1>2, <1>3 DEF LogInv, Paced
<1>5. CASE chans.scanErr = "error"
  <2>1. /\ sent' \in Seq(0..MaxLines) /\ Len(sent') = Len(sent) + 1 /\ Len(sent) \in Nat
        /\ DOMAIN sent = 1..Len(sent) /\ DOMAIN sent' = 1..(Len(sent) + 1) /\ sent' # <<>>
        /\ sent'[Len(sent')] = 0 /\ \A i \in 1..Len(sent) : sent'[i] = sent[i]
    BY <1>1, <1>2, <1>5 DEF ErrorEvent
  <2>2. LogTyped'
    BY <1>1, <1>2, <1>3, <2>1 DEF LogTyped
  <2>3. InOrder'
    BY <1>1, <2>1 DEF LogInv, InOrder, ErrorEvent
  <2>4. ~ctxDone => /\ Len(sent) = scanner.read /\ scanner.read = pod.lines
                    /\ pod.end # "open" /\ pod.end = "error"
    BY <1>1, <1>2, <1>5 DEF LogInv, Paced, Drained
  <2>5. Ended'
    BY <1>1, <2>1, <2>4 DEF Ended, EndsInError, ErrorEvent
  <2> QED BY <1>1, <1>4, <2>2, <2>3, <2>5 DEF LogInv, Drained
<1>6. CASE chans.scanErr # "error"
  <2>1. sent' = sent
    BY <1>1, <1>6
  <2>2. LogTyped'
    BY <1>1, <1>2, <1>3, <2>1 DEF LogTyped
  <2>3. InOrder'
    BY <1>1, <2>1 DEF LogInv, InOrder, ErrorEvent
  <2>4. ~ctxDone => /\ Len(sent) = scanner.read /\ scanner.read = pod.lines
                    /\ pod.end # "open" /\ pod.end # "error"
    BY <1>1, <1>2, <1>6 DEF LogInv, Paced, Drained
  <2>5. Len(sent) \in Nat /\ DOMAIN sent = 1..Len(sent) /\ (sent # <<>> => Len(sent) \in DOMAIN sent)
    BY <1>2
  <2>6. sent # <<>> => sent[Len(sent)] # 0
    BY <1>1, <2>5 DEF LogInv, InOrder
  <2>7. Ended'
    BY <1>1, <1>2, <2>1, <2>4, <2>6 DEF Ended, EndsInError, ErrorEvent, LogTyped
  <2> QED BY <1>1, <1>4, <2>2, <2>3, <2>7 DEF LogInv, Drained
<1> QED BY <1>5, <1>6

LEMMA LogNextInv == LogInv /\ [LogNext]_logVars => LogInv'
<1> SUFFICES ASSUME LogInv, [LogNext]_logVars PROVE LogInv'
  OBVIOUS
<1> USE DEF LogInv
<1>0. sent \in Seq(0..MaxLines) /\ Len(sent) \in Nat
  BY DEF LogTyped
<1>1. CASE PodWrites
  <2>1. /\ pod' \in [lines : 0..MaxLines, end : {"open", "eof", "error"}] /\ pod.lines <= pod'.lines
        /\ pod.end = "open" /\ UNCHANGED <<scanner, handler, chans, ctxDone, sent>>
    BY <1>1, LogStreamsAssumption DEF PodWrites, LogTyped
  <2>2. LogTyped' /\ InOrder' /\ Drained' /\ Ended'
    BY <2>1 DEF LogTyped, InOrder, Drained, Ended
  <2>3. Paced'
    BY <2>1 DEF LogTyped, Paced
  <2> QED BY <2>2, <2>3
<1>2. CASE ClientLeaves \/ CancelContext
  <2>1. ctxDone' = TRUE /\ UNCHANGED <<pod, scanner, handler, chans, sent>>
    BY <1>2 DEF ClientLeaves, CancelContext
  <2> QED BY <2>1 DEF LogTyped, InOrder, Paced, Drained, Ended
<1>3. CASE Scan
  <2>1. scanner.pc = "scan" /\ UNCHANGED <<pod, handler, chans, ctxDone, sent>>
    BY <1>3 DEF Scan
  <2>2. CASE scanner.read < pod.lines /\ scanner' = [scanner EXCEPT !.pc = "send", !.read = @ + 1]
    <3>1. /\ scanner' \in [pc : {"scan", "send", "err", "close", "done"}, read : 0..MaxLines, err : BOOLEAN]
          /\ scanner'.pc = "send" /\ scanner'.read = scanner.read + 1 /\ scanner'.read <= pod.lines
      <4> DEFINE m == scanner.read + 1
      <4>1. scanner \in [pc : {"scan", "send", "err", "close", "done"}, read : 0..MaxLines, err : BOOLEAN]
        BY DEF LogTyped
      <4>2. scanner' = [scanner EXCEPT !.pc = "send", !.read = m]
        BY <2>2
      <4>3. m \in 0..MaxLines /\ m <= pod.lines
        BY <2>2, LogStreamsAssumption DEF LogTyped
      <4> HIDE DEF m
      <4>4. /\ scanner' \in [pc : {"scan", "send", "err", "close", "done"}, read : 0..MaxLines, err : BOOLEAN]
            /\ scanner'.pc = "send" /\ scanner'.read = m
        BY <4>1, <4>2, <4>3
      <4> QED BY <4>3, <4>4 DEF m
    <3>2. LogTyped' /\ InOrder' /\ Drained' /\ Ended'
      BY <2>1, <3>1 DEF LogTyped, InOrder, Drained, Ended, EndsInError
    <3>3. Paced'
      BY <2>1, <3>1 DEF Paced, LogTyped
    <3> QED BY <3>2, <3>3
  <2>3. ASSUME scanner' \in [pc : {"scan", "send", "err", "close", "done"}, read : 0..MaxLines, err : BOOLEAN],
               scanner'.pc = "err", scanner'.read = scanner.read,
               handler = "serve" /\ ~ctxDone =>
                 scanner.read = pod.lines /\ pod.end # "open" /\ (scanner'.err <=> pod.end = "error")
        PROVE  LogTyped' /\ InOrder' /\ Paced' /\ Drained' /\ Ended'
    <3>2. LogTyped' /\ InOrder' /\ Ended'
      BY <2>1, <2>3 DEF LogTyped, InOrder, Ended, EndsInError
    <3>3. Paced'
      BY <2>1, <2>3 DEF Paced, LogTyped
    <3>4. Drained'
      BY <2>1, <2>3 DEF Drained
    <3> QED BY <3>2, <3>3, <3>4
  <2>4. CASE /\ scanner.read = pod.lines /\ pod.end # "open"
             /\ scanner' = [scanner EXCEPT !.pc = "err", !.err = pod.end = "error"]
    <3>1. /\ scanner' \in [pc : {"scan", "send", "err", "close", "done"}, read : 0..MaxLines, err : BOOLEAN]
          /\ scanner'.pc = "err" /\ scanner'.read = scanner.read /\ (scanner'.err <=> pod.end = "error")
      BY <2>4 DEF LogTyped
    <3> QED BY <2>3, <2>4, <3>1
  <2>5. CASE (ctxDone \/ handler # "serve") /\ scanner' = [scanner EXCEPT !.pc = "err", !.err = TRUE]
    <3>1. /\ scanner' \in [pc : {"scan", "send", "err", "close", "done"}, read : 0..MaxLines, err : BOOLEAN]
          /\ scanner'.pc = "err" /\ scanner'.read = scanner.read
      BY <2>5 DEF LogTyped
    <3> QED BY <2>3, <2>5, <3>1
  <2> QED BY <1>3, <2>2, <2>4, <2>5 DEF Scan
<1>4. CASE SendCancelled
  <2>1. /\ scanner.pc = "send" /\ ctxDone /\ UNCHANGED <<pod, handler, ctxDone, sent>>
        /\ scanner' = [scanner EXCEPT !.pc = "done"] /\ chans' = [chans EXCEPT !.closed = TRUE]
    BY <1>4 DEF SendCancelled
  <2>2. /\ scanner' \in [pc : {"scan", "send", "err", "close", "done"}, read : 0..MaxLines, err : BOOLEAN]
        /\ chans' \in [closed : BOOLEAN, scanErr : {"none", "nil", "error"}]
        /\ scanner'.pc = "done" /\ scanner'.read = scanner.read /\ chans'.closed
    BY <2>1 DEF LogTyped
  <2> QED BY <2>1, <2>2 DEF LogTyped, InOrder, Paced, Drained, Ended
<1>5. CASE ReportScanErr
  <2>1. UNCHANGED <<pod, handler, ctxDone, sent>>
    BY <1>5 DEF ReportScanErr
  <2>2. CASE scanner.pc = "err"
    <3> DEFINE v == IF scanner.err THEN "error" ELSE "nil"
    <3>1. scanner' = [scanner EXCEPT !.pc = "close"] /\ chans' = [chans EXCEPT !.scanErr = v]
      BY <1>5, <2>2 DEF ReportScanErr
    <3>2. /\ scanner' \in [pc : {"scan", "send", "err", "close", "done"}, read : 0..MaxLines, err : BOOLEAN]
          /\ chans' \in [closed : BOOLEAN, scanErr : {"none", "nil", "error"}]
          /\ scanner'.pc = "close" /\ scanner'.read = scanner.read /\ (scanner'.err <=> scanner.err)
          /\ (chans'.closed <=> chans.closed) /\ chans'.scanErr = v
      BY <3>1 DEF LogTyped
    <3>3. LogTyped' /\ InOrder' /\ Ended'
      BY <2>1, <3>2 DEF LogTyped, InOrder, Ended, EndsInError
    <3>4. Paced' /\ Drained'
      BY <2>1, <2>2, <3>2 DEF Paced, Drained
    <3> QED BY <3>3, <3>4
  <2>3. CASE scanner.pc = "close"
    <3>1. scanner' = [scanner EXCEPT !.pc = "done"] /\ chans' = [chans EXCEPT !.closed = TRUE]
      BY <1>5, <2>3 DEF ReportScanErr
    <3>2. /\ scanner' \in [pc : {"scan", "send", "err", "close", "done"}, read : 0..MaxLines, err : BOOLEAN]
          /\ chans' \in [closed : BOOLEAN, scanErr : {"none", "nil", "error"}]
          /\ scanner'.pc = "done" /\ scanner'.read = scanner.read /\ (scanner'.err <=> scanner.err)
          /\ chans'.closed /\ chans'.scanErr = chans.scanErr
      BY <3>1 DEF LogTyped
    <3>3. LogTyped' /\ InOrder' /\ Ended'
      BY <2>1, <3>2 DEF LogTyped, InOrder, Ended, EndsInError
    <3>4. Paced' /\ Drained'
      BY <2>1, <2>3, <3>2 DEF Paced, Drained
    <3> QED BY <3>3, <3>4
  <2> QED BY <1>5, <2>2, <2>3 DEF ReportScanErr
<1>6. CASE Leave
  <2>1. handler' = "left" /\ UNCHANGED <<pod, scanner, chans, ctxDone, sent>>
    BY <1>6 DEF Leave
  <2> QED BY <2>1 DEF LogTyped, InOrder, Paced, Drained, Ended
<1>7. CASE UNCHANGED logVars
  BY <1>7 DEF logVars, LogTyped, InOrder, Paced, Drained, Ended, EndsInError
<1> QED BY <1>1, <1>2, <1>3, <1>4, <1>5, <1>6, <1>7, ServeLineInv, ServeEndInv DEF LogNext

LEMMA LogFaithful == LogInv => LogTypeOK /\ Faithful
<1> SUFFICES ASSUME LogInv PROVE LogTypeOK /\ Faithful
  OBVIOUS
<1>1. sent \in Seq(0..MaxLines)
  BY DEF LogInv, LogTyped
<1>2. \A i \in DOMAIN sent : sent[i] \in 0..MaxLines
  <2> DEFINE S == 0..MaxLines
  <2>1. sent \in Seq(S)
    BY <1>1
  <2> HIDE DEF S
  <2>2. \A i \in DOMAIN sent : sent[i] \in S
    BY <2>1
  <2> QED BY <2>2 DEF S
<1>3. LogTypeOK
  BY <1>2 DEF LogInv, LogTyped, LogTypeOK
<1>4. Faithful
  BY DEF LogInv, InOrder, Ended, Faithful
<1> QED BY <1>3, <1>4

-----------------------------------------------------------------------------
(* PackageVersions *)

Asking ==
  [pc : {"idle", "wait", "drain", "single", "done"}, asked : SUBSET Services, listers : [Services -> Lister],
   results : Seq(Result), versions : [Services -> Tags \cup {NoVersions}]]
CachedTags == [tags : Tags, young : BOOLEAN]

VerTyped ==
  /\ registry \in [Services -> Tags]
  /\ tagsCache \in [Services -> CachedTags]
  /\ listing \in [Listings -> Asking]

(* A request reads its channel once its goroutines have ended; one for a     *)
(* single service has only that goroutine, and nothing to return before.     *)
Waited(c) ==
  /\ c.pc \in {"idle", "single", "done"} => c.results = <<>>
  /\ c.pc \in {"idle", "drain", "done"} => \A s \in Services : c.listers[s].pc = "done"
  /\ c.pc = "single" => /\ \E s \in Services : c.asked = {s} /\ \A t \in Services \ {s} : c.listers[t].pc = "done"
                        /\ \A s \in Services : c.versions[s] = NoVersions

(* What is on the channel, or in the map, is what the goroutine found; and   *)
(* what a goroutine has found is in one of the two.                          *)
Genuine(c) ==
  /\ \A i \in DOMAIN c.results : /\ c.listers[c.results[i].name].pc = "done"
                                 /\ c.results[i].tags = c.listers[c.results[i].name].tags
  /\ \A s \in Services : c.versions[s] # NoVersions => c.listers[s].pc = "done" /\ c.versions[s] = c.listers[s].tags

Delivered(c, s) == c.versions[s] = c.listers[s].tags \/ \E i \in DOMAIN c.results : c.results[i].name = s
Nothing(c, s) == s \notin HasDefault /\ c.listers[s].tags = 0
NoneLost(c) == c.pc # "idle" => \A s \in c.asked : c.listers[s].pc = "done" => Delivered(c, s) \/ Nothing(c, s)

Coherent(c) == Waited(c) /\ Genuine(c) /\ NoneLost(c)

(* No tags that a goroutine x may take, of a registry at r and a cache at e, *)
(* are behind all that was at hand when its request came.                    *)
Covers(first, t) == \E u \in first : u <= t
Fresh(r, e, x) ==
  /\ x.pc \in {"look", "get"} => Covers(x.first, r)
  /\ x.pc = "look" /\ e.young => Covers(x.first, e.tags)
  /\ x.pc \notin {"look", "get"} /\ x.tags # 0 => Covers(x.first, x.tags)

(* Nor are those that the goroutine y of another request is about to store.  *)
Awaits(x, y) == x.pc = "look" /\ y.pc = "store" => Covers(x.first, y.tags)

Current ==
  \A s \in Services, l \in Listings :
    /\ Fresh(registry[s], tagsCache[s], listing[l].listers[s])
    /\ \A k \in Listings : Awaits(listing[l].listers[s], listing[k].listers[s])

VerInv == VerTyped /\ (\A l \in Listings : Coherent(listing[l])) /\ Current

LEMMA TagsAre == Tags \subseteq Nat /\ 0 \in Tags /\ 1 \in Tags /\ NoVersions \notin Tags
  BY PackageVersionsAssumption DEF Tags, NoVersions

LEMMA TagsOrder == \A t \in Tags : t \in Nat /\ t <= t
<1>1. \A t \in Nat : t <= t
  OBVIOUS
<1> QED BY <1>1, TagsAre

LEMMA CoversMore ==
  ASSUME NEW F \in SUBSET Tags, NEW t \in Tags, NEW u \in Tags, t <= u, Covers(F, t)
  PROVE  Covers(F, u)
<1>1. PICK v \in F : v <= t
  BY DEF Covers
<1>2. v \in Nat /\ t \in Nat /\ u \in Nat
  BY TagsAre
<1>3. v <= u
  BY <1>1, <1>2
<1> QED BY <1>3 DEF Covers

LEMMA VerInitInv == VerInit => VerInv
<1> SUFFICES ASSUME VerInit PROVE VerInv
  OBVIOUS
<1> DEFINE c == [pc |-> "idle", asked |-> {}, listers |-> [s \in Services |-> AtRest], results |-> <<>>,
                 versions |-> [s \in Services |-> NoVersions]]
<1>1. AtRest \in Lister /\ AtRest.pc = "done" /\ AtRest.tags = 0
  BY TagsAre DEF AtRest, Lister
<1>2. c \in Asking
  BY <1>1 DEF Asking
<1>3. \A l \in Listings : listing[l] = c
  BY DEF VerInit
<1>4. /\ c.pc = "idle" /\ c.results = <<>> /\ \A s \in Services : c.listers[s] = AtRest
      /\ \A s \in Services : c.versions[s] = NoVersions
  OBVIOUS
<1>5. VerTyped
  <2>1. listing = [l \in Listings |-> c]
    BY DEF VerInit
  <2> HIDE DEF c
  <2> QED BY <1>2, <2>1, TagsAre DEF VerInit, VerTyped, CachedTags
<1> HIDE DEF c
<1>6. Coherent(c)
  BY <1>1, <1>4 DEF Coherent, Waited, Genuine, NoneLost
<1>7. Current
  BY <1>1, <1>3, <1>4 DEF Current, Fresh, Awaits
<1> QED BY <1>3, <1>5, <1>6, <1>7 DEF VerInv

(* One request moves on.                                                     *)
LEMMA RequestMoves ==
  ASSUME VerInv, NEW l \in Listings, NEW d \in Asking, Coherent(d), listing' = [listing EXCEPT ![l] = d],
         registry' = registry, tagsCache' \in [Services -> CachedTags],
         \A s \in Services : Fresh(registry[s], tagsCache'[s], d.listers[s]),
         \A s \in Services, k \in Listings \ {l} :
           /\ Fresh(registry[s], tagsCache'[s], listing[k].listers[s])
           /\ Awaits(d.listers[s], listing[k].listers[s]) /\ Awaits(listing[k].listers[s], d.listers[s])
  PROVE  VerInv'
<1>1. VerTyped' /\ listing'[l] = d /\ \A k \in Listings \ {l} : listing'[k] = listing[k]
  BY DEF VerInv, VerTyped
<1>2. \A k \in Listings : Coherent(listing'[k])
  BY <1>1 DEF VerInv
<1>3. ASSUME NEW s \in Services, NEW k \in Listings PROVE Fresh(registry'[s], tagsCache'[s], listing'[k].listers[s])
  <2>1. CASE k = l
    BY <1>1, <2>1
  <2>2. CASE k # l
    BY <1>1, <2>2
  <2> QED BY <2>1, <2>2
<1>4. ASSUME NEW s \in Services, NEW k \in Listings, NEW m \in Listings
      PROVE  Awaits(listing'[k].listers[s], listing'[m].listers[s])
  <2>1. CASE k = l /\ m = l
    BY <2>1 DEF Awaits
  <2>2. CASE k = l /\ m # l
    BY <1>1, <2>2
  <2>3. CASE k # l /\ m = l
    BY <1>1, <2>3
  <2>4. CASE k # l /\ m # l
    BY <1>1, <2>4 DEF VerInv, Current
  <2> QED BY <2>1, <2>2, <2>3, <2>4
<1>5. Current'
  BY <1>3, <1>4, Zenon DEF Current
<1> QED BY <1>1, <1>2, <1>5, Zenon DEF VerInv

(* Its goroutines have at most ended; nothing else has changed.              *)
LEMMA ReaderMoves ==
  ASSUME VerInv, NEW l \in Listings, NEW d \in Asking, Coherent(d), listing' = [listing EXCEPT ![l] = d],
         UNCHANGED <<registry, tagsCache>>,
         \A s \in Services : \/ d.listers[s] = listing[l].listers[s]
                             \/ /\ listing[l].listers[s].pc = "send" /\ d.listers[s].pc = "done"
                                /\ d.listers[s].tags = listing[l].listers[s].tags
                                /\ d.listers[s].first = listing[l].listers[s].first
  PROVE  VerInv'
<1>1. tagsCache' \in [Services -> CachedTags]
  BY DEF VerInv, VerTyped
<1>2. \A s \in Services, k \in Listings \ {l} :
        /\ Fresh(registry[s], tagsCache'[s], listing[k].listers[s])
        /\ Awaits(listing[l].listers[s], listing[k].listers[s]) /\ Awaits(listing[k].listers[s], listing[l].listers[s])
  BY DEF VerInv, Current
<1>3. \A s \in Services : Fresh(registry[s], tagsCache'[s], listing[l].listers[s])
  BY DEF VerInv, Current
<1>4. ASSUME NEW s \in Services PROVE Fresh(registry[s], tagsCache'[s], d.listers[s])
  <2>1. CASE d.listers[s] = listing[l].listers[s]
    BY <1>3, <2>1
  <2>2. CASE d.listers[s] # listing[l].listers[s]
    BY <1>3, <2>2 DEF Fresh
  <2> QED BY <2>1, <2>2
<1>5. ASSUME NEW s \in Services, NEW k \in Listings \ {l}
      PROVE  Awaits(d.listers[s], listing[k].listers[s]) /\ Awaits(listing[k].listers[s], d.listers[s])
  <2>1. CASE d.listers[s] = listing[l].listers[s]
    BY <1>2, <2>1
  <2>2. CASE d.listers[s] # listing[l].listers[s]
    BY <2>2 DEF Awaits
  <2> QED BY <2>1, <2>2
<1> QED BY <1>1, <1>2, <1>4, <1>5, RequestMoves

(* One goroutine moves on; nothing is sent.                                  *)
LEMMA ListerMoves ==
  ASSUME VerInv, NEW l \in Listings, NEW s \in Services, NEW x \in Lister, listing' = [listing EXCEPT ![l].listers[s] = x],
         listing[l].listers[s].pc # "done", x.pc # "look", registry' = registry,
         NEW e \in CachedTags, tagsCache' = [tagsCache EXCEPT ![s] = e],
         Fresh(registry[s], e, x), x.pc = "done" => s \notin HasDefault /\ x.tags = 0,
         \A k \in Listings \ {l} : /\ Fresh(registry[s], e, listing[k].listers[s])
                                   /\ Awaits(listing[k].listers[s], x)
  PROVE  VerInv'
<1> DEFINE c == listing[l]
           y == [c.listers EXCEPT ![s] = x]
           d == [c EXCEPT !.listers = y]
<1>1. c \in Asking /\ Coherent(c) /\ c.listers \in [Services -> Lister] /\ c.results \in Seq(Result)
  BY DEF VerInv, VerTyped, Asking
<1>2. listing' = [listing EXCEPT ![l] = d]
  OBVIOUS
<1>3. y \in [Services -> Lister] /\ y[s] = x /\ \A t \in Services \ {s} : y[t] = c.listers[t]
  BY <1>1
<1>a. c.listers[s].pc # "done"
  OBVIOUS
<1> HIDE DEF y
<1>4. /\ d \in Asking /\ d.listers = y /\ d.pc = c.pc /\ d.asked = c.asked /\ d.results = c.results
      /\ d.versions = c.versions
  BY <1>1, <1>3 DEF Asking
<1>5. \A i \in DOMAIN c.results : c.results[i] \in Result
  BY <1>1
<1> HIDE DEF c, d
<1>6. c.pc \in {"wait", "single"}
  BY <1>1, <1>a DEF Coherent, Waited, Asking
<1>7. Waited(d)
  BY <1>1, <1>3, <1>4, <1>6, <1>a DEF Coherent, Waited
<1>8. Genuine(d)
  <2>1. \A i \in DOMAIN c.results : c.results[i].name \in Services /\ c.results[i].name # s
    BY <1>1, <1>5, <1>a DEF Coherent, Genuine, Result
  <2> QED BY <1>1, <1>3, <1>4, <1>a, <2>1 DEF Coherent, Genuine
<1>9. NoneLost(d)
  <2>1. ASSUME NEW t \in d.asked, d.listers[t].pc = "done" PROVE Delivered(d, t) \/ Nothing(d, t)
    <3>0. t \in Services
      BY <1>4 DEF Asking
    <3>1. CASE t = s
      BY <1>3, <1>4, <2>1, <3>1 DEF Nothing
    <3>2. CASE t # s
      BY <1>1, <1>3, <1>4, <1>6, <2>1, <3>0, <3>2 DEF Coherent, NoneLost, Delivered, Nothing
    <3> QED BY <3>1, <3>2
  <2> QED BY <2>1 DEF NoneLost
<1>10. Coherent(d)
  BY <1>7, <1>8, <1>9 DEF Coherent
<1>11. /\ tagsCache' \in [Services -> CachedTags] /\ tagsCache'[s] = e
       /\ \A t \in Services \ {s} : tagsCache'[t] = tagsCache[t]
  BY DEF VerInv, VerTyped
<1>12. ASSUME NEW t \in Services PROVE Fresh(registry[t], tagsCache'[t], d.listers[t])
  <2>1. CASE t = s
    BY <1>3, <1>4, <1>11, <2>1
  <2>2. CASE t # s
    <3>1. Fresh(registry[t], tagsCache[t], c.listers[t])
      BY DEF VerInv, Current, c
    <3> QED BY <1>3, <1>4, <1>11, <2>2, <3>1
  <2> QED BY <2>1, <2>2
<1>13. ASSUME NEW t \in Services, NEW k \in Listings \ {l}
       PROVE  /\ Fresh(registry[t], tagsCache'[t], listing[k].listers[t])
              /\ Awaits(d.listers[t], listing[k].listers[t]) /\ Awaits(listing[k].listers[t], d.listers[t])
  <2>1. CASE t = s
    <3>1. Awaits(x, listing[k].listers[t])
      BY DEF Awaits
    <3> QED BY <1>3, <1>4, <1>11, <2>1, <3>1
  <2>2. CASE t # s
    <3>1. /\ Fresh(registry[t], tagsCache[t], listing[k].listers[t])
          /\ Awaits(c.listers[t], listing[k].listers[t]) /\ Awaits(listing[k].listers[t], c.listers[t])
      BY DEF VerInv, Current, c
    <3> QED BY <1>3, <1>4, <1>11, <2>2, <3>1
  <2> QED BY <2>1, <2>2
<1> QED BY <1>2, <1>4, <1>10, <1>11, <1>12, <1>13, RequestMoves

LEMMA ListerInv ==
  ASSUME VerInv, NEW l \in Listings, NEW s \in Services,
         LookUp(l, s) \/ GetTags(l, s) \/ StoreTags(l, s) \/ GetTagsFails(l, s)
  PROVE  VerInv'
<1> DEFINE z == listing[l].listers[s]
<1>1. /\ z \in Lister /\ registry[s] \in Tags /\ tagsCache[s] \in CachedTags
      /\ tagsCache \in [Services -> CachedTags]
  BY DEF VerInv, VerTyped, Asking
<1>2. /\ Fresh(registry[s], tagsCache[s], z)
      /\ \A k \in Listings : /\ Fresh(registry[s], tagsCache[s], listing[k].listers[s])
                             /\ Awaits(listing[k].listers[s], z)
  BY DEF VerInv, Current
<1>3. tagsCache[s].tags \in Tags /\ z.tags \in Tags
  BY <1>1 DEF CachedTags, Lister
<1>4. CASE LookUp(l, s) /\ tagsCache[s].young
  <2> DEFINE x == [z EXCEPT !.pc = "send", !.tags = tagsCache[s].tags]
  <2>1. x \in Lister /\ x.pc = "send" /\ x.first = z.first /\ x.tags = tagsCache[s].tags
    BY <1>1, <1>3 DEF Lister
  <2>2. /\ listing' = [listing EXCEPT ![l].listers[s] = x] /\ z.pc = "look"
        /\ UNCHANGED <<registry, tagsCache>>
    BY <1>4 DEF LookUp, Listing, Goes
  <2>3. tagsCache' = [tagsCache EXCEPT ![s] = tagsCache[s]]
    BY <1>1, <2>2
  <2>4. Fresh(registry[s], tagsCache[s], x)
    BY <1>2, <1>4, <2>1, <2>2 DEF Fresh
  <2>5. \A k \in Listings : Awaits(listing[k].listers[s], x)
    BY <2>1 DEF Awaits
  <2> HIDE DEF x
  <2> QED BY <1>1, <1>2, <2>1, <2>2, <2>3, <2>4, <2>5, ListerMoves
<1>5. CASE LookUp(l, s) /\ ~tagsCache[s].young
  <2> DEFINE x == [z EXCEPT !.pc = "get"]
  <2>1. x \in Lister /\ x.pc = "get" /\ x.first = z.first
    BY <1>1 DEF Lister
  <2>2. /\ listing' = [listing EXCEPT ![l].listers[s] = x] /\ z.pc = "look"
        /\ UNCHANGED <<registry, tagsCache>>
    BY <1>5 DEF LookUp, Listing, Goes
  <2>3. tagsCache' = [tagsCache EXCEPT ![s] = tagsCache[s]]
    BY <1>1, <2>2
  <2>4. Fresh(registry[s], tagsCache[s], x)
    BY <1>2, <2>1, <2>2 DEF Fresh
  <2>5. \A k \in Listings : Awaits(listing[k].listers[s], x)
    BY <2>1 DEF Awaits
  <2> HIDE DEF x
  <2> QED BY <1>1, <1>2, <2>1, <2>2, <2>3, <2>4, <2>5, ListerMoves
<1>6. CASE GetTags(l, s)
  <2> DEFINE x == [z EXCEPT !.pc = "store", !.tags = registry[s]]
  <2>1. x \in Lister /\ x.pc = "store" /\ x.first = z.first /\ x.tags = registry[s]
    BY <1>1 DEF Lister
  <2>2. /\ listing' = [listing EXCEPT ![l].listers[s] = x] /\ z.pc = "get"
        /\ UNCHANGED <<registry, tagsCache>>
    BY <1>6 DEF GetTags, Listing, Goes
  <2>3. tagsCache' = [tagsCache EXCEPT ![s] = tagsCache[s]]
    BY <1>1, <2>2
  <2>4. Fresh(registry[s], tagsCache[s], x)
    BY <1>2, <2>1, <2>2 DEF Fresh
  <2>5. \A k \in Listings : Awaits(listing[k].listers[s], x)
    BY <1>2, <2>1 DEF Awaits, Fresh
  <2> HIDE DEF x
  <2> QED BY <1>1, <1>2, <2>1, <2>2, <2>3, <2>4, <2>5, ListerMoves
<1>7. CASE StoreTags(l, s)
  <2> DEFINE x == [z EXCEPT !.pc = "send"]
             e == [tags |-> z.tags, young |-> TRUE]
  <2>1. x \in Lister /\ x.pc = "send" /\ x.first = z.first /\ x.tags = z.tags
    BY <1>1 DEF Lister
  <2>2. /\ listing' = [listing EXCEPT ![l].listers[s] = x] /\ z.pc = "store"
        /\ tagsCache' = [tagsCache EXCEPT ![s] = e] /\ registry' = registry
    BY <1>7 DEF StoreTags, Listing, Goes
  <2>3. e \in CachedTags /\ e.tags = z.tags
    BY <1>3 DEF CachedTags
  <2>4. Fresh(registry[s], e, x)
    BY <1>2, <2>1, <2>2 DEF Fresh
  <2>5. \A k \in Listings : Awaits(listing[k].listers[s], x)
    BY <2>1 DEF Awaits
  <2>6. \A k \in Listings : Fresh(registry[s], e, listing[k].listers[s])
    BY <1>2, <2>2, <2>3 DEF Awaits, Fresh
  <2> HIDE DEF x, e
  <2> QED BY <1>1, <2>1, <2>2, <2>3, <2>4, <2>5, <2>6, ListerMoves
<1>8. CASE GetTagsFails(l, s)
  <2> DEFINE pc == IF s \in HasDefault THEN "send" ELSE "done"
             x == [z EXCEPT !.pc = pc, !.tags = 0]
  <2>1. x \in Lister /\ x.pc = pc /\ x.first = z.first /\ x.tags = 0
    BY <1>1, TagsAre DEF Lister
  <2>2. /\ listing' = [listing EXCEPT ![l].listers[s] = x] /\ z.pc = "get"
        /\ UNCHANGED <<registry, tagsCache>>
    BY <1>8 DEF GetTagsFails, Listing, Goes
  <2>3. tagsCache' = [tagsCache EXCEPT ![s] = tagsCache[s]]
    BY <1>1, <2>2
  <2>4. Fresh(registry[s], tagsCache[s], x)
    BY <2>1 DEF Fresh
  <2>5. \A k \in Listings : Awaits(listing[k].listers[s], x)
    BY <2>1 DEF Awaits
  <2> HIDE DEF x
  <2> QED BY <1>1, <1>2, <2>1, <2>2, <2>3, <2>4, <2>5, ListerMoves
<1> QED BY <1>4, <1>5, <1>6, <1>7, <1>8 DEF LookUp

LEMMA SendInv ==
  ASSUME VerInv, NEW l \in Listings, NEW s \in Services, Send(l, s)
  PROVE  VerInv'
<1> DEFINE c == listing[l]
           x == [c.listers[s] EXCEPT !.pc = "done"]
           y == [c.listers EXCEPT ![s] = x]
           e == [name |-> s, tags |-> c.listers[s].tags]
           q == Append(c.results, e)
           d == [c EXCEPT !.results = q, !.listers = y]
<1>1. /\ c \in Asking /\ Coherent(c) /\ c.listers \in [Services -> Lister] /\ c.results \in Seq(Result)
      /\ c.listers[s] \in Lister
  BY DEF VerInv, VerTyped, Asking
<1>2. /\ listing' = [listing EXCEPT ![l] = d] /\ UNCHANGED <<registry, tagsCache>>
      /\ c.pc = "wait" /\ c.listers[s].pc = "send"
  BY DEF Send, Listing, Becomes
<1>3. x \in Lister /\ x.pc = "done" /\ x.tags = c.listers[s].tags /\ x.first = c.listers[s].first
  BY <1>1 DEF Lister
<1>4. e \in Result /\ e.name = s /\ e.tags = c.listers[s].tags
  BY <1>1 DEF Lister, Result
<1> HIDE DEF x, e
<1>5. y \in [Services -> Lister] /\ y[s] = x /\ \A t \in Services \ {s} : y[t] = c.listers[t]
  BY <1>1, <1>3
<1>6. /\ Len(c.results) \in Nat /\ DOMAIN c.results = 1..Len(c.results) /\ DOMAIN q = 1..(Len(c.results) + 1)
      /\ q \in Seq(Result) /\ q[Len(c.results) + 1] = e
      /\ \A i \in 1..Len(c.results) : q[i] = c.results[i] /\ c.results[i] \in Result
  BY <1>1, <1>4
<1> HIDE DEF y, q
<1>7. /\ d \in Asking /\ d.listers = y /\ d.pc = c.pc /\ d.asked = c.asked /\ d.results = q
      /\ d.versions = c.versions
  BY <1>1, <1>5, <1>6 DEF Asking
<1>a. \A t \in Services : \/ d.listers[t] = listing[l].listers[t]
                          \/ /\ listing[l].listers[t].pc = "send" /\ d.listers[t].pc = "done"
                             /\ d.listers[t].tags = listing[l].listers[t].tags
                             /\ d.listers[t].first = listing[l].listers[t].first
  BY <1>2, <1>3, <1>5, <1>7
<1> HIDE DEF c, d
<1>8. Waited(d)
  BY <1>2, <1>7 DEF Waited
<1>9. Genuine(d)
  <2>1. \A i \in 1..Len(c.results) : c.results[i].name # s /\ c.results[i].name \in Services
    BY <1>1, <1>2, <1>6 DEF Coherent, Genuine, Result
  <2>2. ASSUME NEW i \in 1..(Len(c.results) + 1)
        PROVE  y[q[i].name].pc = "done" /\ q[i].tags = y[q[i].name].tags
    <3>1. CASE i = Len(c.results) + 1
      BY <1>3, <1>4, <1>5, <1>6, <3>1
    <3>2. CASE i \in 1..Len(c.results)
      <4>1. q[i] = c.results[i] /\ i \in DOMAIN c.results
        BY <1>6, <3>2
      <4>2. c.listers[c.results[i].name].pc = "done" /\ c.results[i].tags = c.listers[c.results[i].name].tags
        BY <1>1, <4>1 DEF Coherent, Genuine
      <4>3. y[c.results[i].name] = c.listers[c.results[i].name]
        BY <1>5, <2>1, <3>2
      <4> QED BY <4>1, <4>2, <4>3
    <3> QED BY <1>6, <3>1, <3>2
  <2>3. \A t \in Services : c.versions[t] # NoVersions => y[t].pc = "done" /\ c.versions[t] = y[t].tags
    BY <1>1, <1>3, <1>5 DEF Coherent, Genuine
  <2> QED BY <1>6, <1>7, <2>2, <2>3 DEF Genuine
<1>10. NoneLost(d)
  <2>1. ASSUME NEW t \in d.asked, d.listers[t].pc = "done" PROVE Delivered(d, t) \/ Nothing(d, t)
    <3>0. t \in Services /\ t \in c.asked
      BY <1>7 DEF Asking
    <3>1. CASE t = s
      <4>1. Len(c.results) + 1 \in DOMAIN q /\ q[Len(c.results) + 1].name = t
        BY <1>4, <1>6, <3>1
      <4> QED BY <1>7, <4>1 DEF Delivered
    <3>2. CASE t # s
      <4>1. y[t] = c.listers[t]
        BY <1>5, <3>0, <3>2
      <4>2. Delivered(c, t) \/ Nothing(c, t)
        BY <1>1, <1>2, <1>7, <2>1, <3>0, <4>1 DEF Coherent, NoneLost
      <4>3. (\E i \in DOMAIN c.results : c.results[i].name = t) => \E i \in DOMAIN q : q[i].name = t
        BY <1>6
      <4> QED BY <1>7, <4>1, <4>2, <4>3 DEF Delivered, Nothing
    <3> QED BY <3>1, <3>2
  <2> QED BY <2>1 DEF NoneLost
<1>11. Coherent(d)
  BY <1>8, <1>9, <1>10 DEF Coherent
<1> QED BY <1>2, <1>7, <1>11, <1>a, ReaderMoves

LEMMA DrainInv ==
  ASSUME VerInv, NEW l \in Listings, Drain(l)
  PROVE  VerInv'
<1> DEFINE c == listing[l]
<1>1. /\ c \in Asking /\ Coherent(c) /\ c.results \in Seq(Result)
      /\ c.versions \in [Services -> Tags \cup {NoVersions}]
  BY DEF VerInv, VerTyped, Asking
<1>2. c.pc = "drain" /\ UNCHANGED <<registry, tagsCache>> /\ \A s \in Services : c.listers[s].pc = "done"
  BY <1>1 DEF Drain, Coherent, Waited
<1>3. CASE c.results = <<>>
  <2> DEFINE d == [c EXCEPT !.pc = "done"]
  <2>1. listing' = [listing EXCEPT ![l] = d]
    BY <1>3 DEF Drain, Becomes
  <2>2. /\ d \in Asking /\ d.pc = "done" /\ d.asked = c.asked /\ d.listers = c.listers
        /\ d.results = c.results /\ d.versions = c.versions
    BY <1>1 DEF Asking
  <2>a. \A s \in Services : d.listers[s] = listing[l].listers[s]
    BY <2>2
  <2> HIDE DEF c, d
  <2>3. Waited(d) /\ Genuine(d)
    BY <1>1, <1>2, <1>3, <2>2 DEF Coherent, Waited, Genuine
  <2>4. NoneLost(d)
    BY <1>1, <1>2, <2>2 DEF Coherent, NoneLost, Delivered, Nothing
  <2>5. Coherent(d)
    BY <2>3, <2>4 DEF Coherent
  <2> QED BY <1>2, <2>1, <2>2, <2>5, <2>a, ReaderMoves
<1>4. CASE c.results # <<>>
  <2> DEFINE q == c.results
             e == Head(q)
             w == [c.versions EXCEPT ![e.name] = e.tags]
             d == [c EXCEPT !.versions = w, !.results = Tail(q)]
  <2>1. listing' = [listing EXCEPT ![l] = d]
    BY <1>4 DEF Drain, Becomes
  <2>2. /\ Len(q) \in Nat /\ Len(q) >= 1 /\ DOMAIN q = 1..Len(q)
        /\ DOMAIN Tail(q) = 1..(Len(q) - 1) /\ Tail(q) \in Seq(Result)
        /\ e = q[1] /\ e \in Result /\ \A i \in 1..(Len(q) - 1) : Tail(q)[i] = q[i + 1]
    BY <1>1, <1>4
  <2>3. e.name \in Services /\ e.tags \in Tags /\ e.tags = c.listers[e.name].tags
    BY <1>1, <2>2 DEF Result, Coherent, Genuine
  <2>5. /\ w \in [Services -> Tags \cup {NoVersions}] /\ w[e.name] = e.tags
        /\ \A s \in Services : s # e.name => w[s] = c.versions[s]
    BY <1>1, <2>3
  <2> HIDE DEF e, w
  <2>6. /\ d \in Asking /\ d.pc = "drain" /\ d.asked = c.asked /\ d.listers = c.listers
        /\ d.results = Tail(q) /\ d.versions = w
    BY <1>1, <1>2, <2>2, <2>5 DEF Asking
  <2>a. \A s \in Services : d.listers[s] = listing[l].listers[s]
    BY <2>6
  <2>7. \A i \in DOMAIN Tail(q) : i + 1 \in DOMAIN q /\ Tail(q)[i] = q[i + 1]
    BY <2>2
  <2> HIDE DEF d
  <2>8. Waited(d)
    BY <1>2, <2>6 DEF Waited
  <2>9. Genuine(d)
    <3>1. \A i \in DOMAIN Tail(q) : /\ c.listers[Tail(q)[i].name].pc = "done"
                                    /\ Tail(q)[i].tags = c.listers[Tail(q)[i].name].tags
      BY <1>1, <2>7 DEF Coherent, Genuine
    <3>2. \A s \in Services : w[s] # NoVersions => c.listers[s].pc = "done" /\ w[s] = c.listers[s].tags
      BY <1>1, <1>2, <2>3, <2>5 DEF Coherent, Genuine
    <3> HIDE DEF c, q
    <3> QED BY <2>6, <3>1, <3>2 DEF Genuine
  <2>10. NoneLost(d)
    <3>1. ASSUME NEW s \in d.asked PROVE Delivered(d, s) \/ Nothing(d, s)
      <4>0. s \in Services /\ s \in c.asked
        BY <2>6 DEF Asking
      <4>1. Delivered(c, s) \/ Nothing(c, s)
        BY <1>1, <1>2, <4>0 DEF Coherent, NoneLost
      <4>2. CASE s = e.name
        BY <2>3, <2>5, <2>6, <4>2 DEF Delivered
      <4>3. CASE s # e.name
        <5>1. ASSUME NEW i \in DOMAIN q, q[i].name = s
              PROVE  \E k \in DOMAIN Tail(q) : Tail(q)[k].name = s
          <6>1. i # 1
            BY <2>2, <4>3, <5>1
          <6> HIDE DEF q
          <6>2. i - 1 \in 1..(Len(q) - 1) /\ (i - 1) + 1 = i
            BY <2>2, <5>1, <6>1
          <6>3. i - 1 \in DOMAIN Tail(q) /\ Tail(q)[i - 1] = q[i]
            BY <2>2, <6>2
          <6> QED BY <5>1, <6>3
        <5>2. w[s] = c.versions[s]
          BY <2>5, <4>0, <4>3
        <5> HIDE DEF c
        <5> QED BY <2>6, <4>1, <5>1, <5>2 DEF Delivered, Nothing
      <4> QED BY <4>2, <4>3
    <3> QED BY <3>1 DEF NoneLost
  <2>11. Coherent(d)
    BY <2>8, <2>9, <2>10 DEF Coherent
  <2> HIDE DEF c, q
  <2> QED BY <1>2, <2>1, <2>6, <2>11, <2>a, ReaderMoves
<1> QED BY <1>3, <1>4

LEMMA WaitAllInv ==
  ASSUME VerInv, NEW l \in Listings, WaitAll(l)
  PROVE  VerInv'
<1> DEFINE c == listing[l]
           d == [c EXCEPT !.pc = "drain"]
<1>1. c \in Asking /\ Coherent(c)
  BY DEF VerInv, VerTyped
<1>2. /\ listing' = [listing EXCEPT ![l] = d] /\ UNCHANGED <<registry, tagsCache>>
      /\ c.pc = "wait" /\ \A s \in Services : c.listers[s].pc = "done"
  BY DEF WaitAll, Listing
<1>3. /\ d \in Asking /\ d.pc = "drain" /\ d.asked = c.asked /\ d.listers = c.listers
      /\ d.results = c.results /\ d.versions = c.versions
  BY <1>1 DEF Asking
<1>4. \A s \in Services : d.listers[s] = listing[l].listers[s]
  BY <1>3
<1> HIDE DEF c, d
<1>5. Coherent(d)
  BY <1>1, <1>2, <1>3 DEF Coherent, Waited, Genuine, NoneLost, Delivered, Nothing
<1> QED BY <1>2, <1>3, <1>4, <1>5, ReaderMoves

LEMMA ReturnVersionsInv ==
  ASSUME VerInv, NEW l \in Listings, ReturnVersions(l)
  PROVE  VerInv'
<1> DEFINE c == listing[l]
<1>1. /\ c \in Asking /\ Coherent(c) /\ c.listers \in [Services -> Lister] /\ c.asked \subseteq Services
      /\ c.versions \in [Services -> Tags \cup {NoVersions}] /\ c.pc = "single"
  BY DEF VerInv, VerTyped, Asking, ReturnVersions
<1>2. PICK s \in c.asked :
        /\ c.listers[s].pc \in {"send", "done"}
        /\ listing' = [listing EXCEPT ![l] =
             [c EXCEPT !.pc = "done", !.listers[s].pc = "done",
                       !.versions[s] = IF Listing(l, s, "send") THEN c.listers[s].tags ELSE NoVersions]]
  BY Zenon DEF ReturnVersions, Becomes
<1>3. s \in Services /\ c.listers[s] \in Lister
  BY <1>1
<1> DEFINE x == [c.listers[s] EXCEPT !.pc = "done"]
           y == [c.listers EXCEPT ![s] = x]
           v == IF c.listers[s].pc = "send" THEN c.listers[s].tags ELSE NoVersions
           w == [c.versions EXCEPT ![s] = v]
           d == [c EXCEPT !.pc = "done", !.listers = y, !.versions = w]
<1>4. listing' = [listing EXCEPT ![l] = d]
  BY <1>2 DEF Listing
<1>5. x \in Lister /\ x.pc = "done" /\ x.tags = c.listers[s].tags /\ x.first = c.listers[s].first
  BY <1>3 DEF Lister
<1>6. v \in Tags \cup {NoVersions}
  BY <1>3 DEF Lister
<1>7. v # NoVersions => v = c.listers[s].tags /\ c.listers[s].pc = "send"
  OBVIOUS
<1>a. c.listers[s].pc = "send" => v = c.listers[s].tags
  OBVIOUS
<1> HIDE DEF x, v
<1>8. y \in [Services -> Lister] /\ y[s] = x /\ \A t \in Services \ {s} : y[t] = c.listers[t]
  BY <1>1, <1>3, <1>5
<1>9. w \in [Services -> Tags \cup {NoVersions}] /\ w[s] = v /\ \A t \in Services \ {s} : w[t] = c.versions[t]
  BY <1>1, <1>3, <1>6
<1> HIDE DEF y, w
<1>10. /\ d \in Asking /\ d.pc = "done" /\ d.asked = c.asked /\ d.listers = y
       /\ d.results = c.results /\ d.versions = w
  BY <1>1, <1>8, <1>9 DEF Asking
<1>11. x = c.listers[s] \/ c.listers[s].pc = "send"
  BY <1>2, <1>3 DEF x, Lister
<1>12. \A t \in Services : \/ d.listers[t] = listing[l].listers[t]
                           \/ /\ listing[l].listers[t].pc = "send" /\ d.listers[t].pc = "done"
                              /\ d.listers[t].tags = listing[l].listers[t].tags
                              /\ d.listers[t].first = listing[l].listers[t].first
  BY <1>5, <1>8, <1>10, <1>11
<1> HIDE DEF c, d
<1>13. /\ c.asked = {s} /\ c.results = <<>> /\ \A t \in Services \ {s} : c.listers[t].pc = "done"
  BY <1>1, <1>2 DEF Coherent, Waited
<1>14. Waited(d)
  BY <1>5, <1>8, <1>10, <1>13 DEF Waited
<1>15. Genuine(d)
  <2>1. \A i \in DOMAIN d.results : FALSE
    BY <1>10, <1>13
  <2>2. ASSUME NEW t \in Services, w[t] # NoVersions PROVE y[t].pc = "done" /\ w[t] = y[t].tags
    <3>1. CASE t = s
      BY <1>5, <1>7, <1>8, <1>9, <2>2, <3>1
    <3>2. CASE t # s
      BY <1>1, <1>8, <1>9, <2>2, <3>2 DEF Coherent, Genuine
    <3> QED BY <3>1, <3>2
  <2> QED BY <1>10, <2>1, <2>2 DEF Genuine
<1>16. NoneLost(d)
  <2>1. CASE c.listers[s].pc = "send"
    BY <1>3, <1>5, <1>8, <1>9, <1>10, <1>13, <1>a, <2>1 DEF NoneLost, Delivered
  <2>2. CASE c.listers[s].pc = "done"
    <3>1. Delivered(c, s) \/ Nothing(c, s)
      BY <1>1, <1>13, <2>2 DEF Coherent, NoneLost
    <3>2. ~\E i \in DOMAIN c.results : c.results[i].name = s
      BY <1>13
    <3>3. c.versions[s] # c.listers[s].tags
      BY <1>1, <1>3, TagsAre DEF Coherent, Waited, Lister
    <3> QED BY <1>3, <1>5, <1>8, <1>9, <1>10, <1>13, <3>1, <3>2, <3>3 DEF NoneLost, Delivered, Nothing
  <2> QED BY <1>2, <2>1, <2>2
<1>17. Coherent(d)
  BY <1>14, <1>15, <1>16 DEF Coherent
<1>18. UNCHANGED <<registry, tagsCache>>
  BY DEF ReturnVersions
<1> QED BY <1>4, <1>10, <1>12, <1>17, <1>18, ReaderMoves

(* A request comes: what is at hand is what it may be answered with.         *)
LEMMA StartsInv ==
  ASSUME VerInv, NEW l \in Listings, NEW pc \in {"wait", "single"}, NEW asked \in SUBSET Services, Starts(l, pc, asked),
         pc = "single" => \E s \in Services : asked = {s}
  PROVE  VerInv'
<1> DEFINE x(s) == IF s \in asked THEN [pc |-> "look", tags |-> 0, first |-> AtHand(s)] ELSE AtRest
           d == [pc |-> pc, asked |-> asked, results |-> <<>>, versions |-> [s \in Services |-> NoVersions],
                 listers |-> [s \in Services |-> x(s)]]
<1>1. listing' = [listing EXCEPT ![l] = d] /\ UNCHANGED <<registry, tagsCache>>
  BY DEF Starts, Becomes
<1>2. ASSUME NEW s \in Services
      PROVE  /\ registry[s] \in Tags /\ tagsCache[s] \in CachedTags
             /\ \A k \in Listings : listing[k].listers[s] \in Lister
  BY DEF VerInv, VerTyped, Asking
<1>3. ASSUME NEW s \in Services PROVE AtHand(s) \in SUBSET Tags
  BY <1>2 DEF AtHand, CachedTags, Lister
<1>4. AtRest \in Lister /\ AtRest.pc = "done" /\ AtRest.tags = 0
  BY TagsAre DEF AtRest, Lister
<1>5. ASSUME NEW s \in Services
      PROVE  /\ x(s) \in Lister /\ x(s).tags = 0
             /\ s \in asked => x(s).pc = "look" /\ x(s).first = AtHand(s)
             /\ s \notin asked => x(s).pc = "done"
  BY <1>3, <1>4, TagsAre DEF Lister
<1> HIDE DEF x
<1>6. /\ d \in Asking /\ d.pc = pc /\ d.asked = asked /\ d.results = <<>>
      /\ \A s \in Services : d.versions[s] = NoVersions /\ d.listers[s] = x(s)
  BY <1>5 DEF Asking
<1> HIDE DEF d
<1>7. Waited(d)
  BY <1>5, <1>6 DEF Waited
<1>8. Genuine(d)
  BY <1>6 DEF Genuine
<1>9. NoneLost(d)
  BY <1>5, <1>6 DEF NoneLost
<1>10. Coherent(d)
  BY <1>7, <1>8, <1>9 DEF Coherent
<1>11. ASSUME NEW s \in Services
       PROVE  /\ Covers(AtHand(s), registry[s])
              /\ tagsCache[s].young => Covers(AtHand(s), tagsCache[s].tags)
              /\ \A k \in Listings : listing[k].listers[s].pc = "store" => Covers(AtHand(s), listing[k].listers[s].tags)
  <2>1. registry[s] \in AtHand(s) /\ (tagsCache[s].young => tagsCache[s].tags \in AtHand(s))
    BY DEF AtHand
  <2>2. \A k \in Listings : listing[k].listers[s].pc = "store" => listing[k].listers[s].tags \in AtHand(s)
    BY DEF AtHand, Listing
  <2>3. \A k \in Listings : listing[k].listers[s].tags \in Tags
    BY <1>2 DEF Lister
  <2>4. registry[s] <= registry[s] /\ tagsCache[s].tags <= tagsCache[s].tags
    BY <1>2, TagsOrder DEF CachedTags
  <2>5. \A k \in Listings : listing[k].listers[s].tags <= listing[k].listers[s].tags
    BY <2>3, TagsOrder
  <2> QED BY <2>1, <2>2, <2>4, <2>5, Zenon DEF Covers
<1>12. tagsCache' \in [Services -> CachedTags]
  BY <1>1 DEF VerInv, VerTyped
<1>13. ASSUME NEW s \in Services PROVE Fresh(registry[s], tagsCache'[s], d.listers[s])
  BY <1>1, <1>5, <1>6, <1>11 DEF Fresh
<1>14. ASSUME NEW s \in Services, NEW k \in Listings \ {l}
       PROVE  /\ Fresh(registry[s], tagsCache'[s], listing[k].listers[s])
              /\ Awaits(d.listers[s], listing[k].listers[s]) /\ Awaits(listing[k].listers[s], d.listers[s])
  <2>1. Fresh(registry[s], tagsCache'[s], listing[k].listers[s])
    BY <1>1 DEF VerInv, Current
  <2>2. Awaits(d.listers[s], listing[k].listers[s])
    BY <1>5, <1>6, <1>11 DEF Awaits
  <2>3. Awaits(listing[k].listers[s], d.listers[s])
    BY <1>5, <1>6 DEF Awaits
  <2> QED BY <2>1, <2>2, <2>3
<1> QED BY <1>1, <1>6, <1>10, <1>12, <1>13, <1>14, RequestMoves

LEMMA PublishInv ==
  ASSUME VerInv, NEW s \in Services, PublishVersion(s)
  PROVE  VerInv'
<1> DEFINE m == registry[s] + 1
<1>1. /\ registry' = [registry EXCEPT ![s] = m] /\ UNCHANGED <<tagsCache, listing>>
      /\ registry \in [Services -> Tags] /\ registry[s] <= MaxPublished
  BY DEF PublishVersion, VerInv, VerTyped
<1>2. m \in Tags /\ registry[s] <= m
  BY <1>1, PackageVersionsAssumption DEF Tags
<1> HIDE DEF m
<1>3. registry' \in [Services -> Tags] /\ \A t \in Services : registry[t] <= registry'[t]
  BY <1>1, <1>2, TagsOrder
<1>4. VerTyped' /\ \A l \in Listings : Coherent(listing'[l])
  BY <1>1, <1>3 DEF VerInv, VerTyped
<1>5. ASSUME NEW t \in Services, NEW l \in Listings PROVE Fresh(registry'[t], tagsCache'[t], listing'[l].listers[t])
  <2> DEFINE x == listing[l].listers[t]
  <2>1. Fresh(registry[t], tagsCache[t], x) /\ x.first \in SUBSET Tags /\ registry[t] \in Tags /\ registry'[t] \in Tags
    BY <1>1, <1>3 DEF VerInv, VerTyped, Current, Asking, Lister
  <2>2. listing'[l].listers[t] = x /\ tagsCache'[t] = tagsCache[t]
    BY <1>1
  <2> HIDE DEF x
  <2>3. Covers(x.first, registry[t]) => Covers(x.first, registry'[t])
    BY <1>3, <2>1, CoversMore
  <2> QED BY <2>1, <2>2, <2>3 DEF Fresh
<1>6. \A t \in Services, l \in Listings, k \in Listings : Awaits(listing'[l].listers[t], listing'[k].listers[t])
  BY <1>1 DEF VerInv, Current
<1>7. Current'
  BY <1>5, <1>6, Zenon DEF Current
<1> QED BY <1>4, <1>7, Zenon DEF VerInv

LEMMA AgeInv ==
  ASSUME VerInv, NEW s \in Services, AgeTags(s)
  PROVE  VerInv'
<1>1. /\ tagsCache' = [tagsCache EXCEPT ![s].young = FALSE] /\ UNCHANGED <<registry, listing>>
      /\ tagsCache \in [Services -> CachedTags]
  BY DEF AgeTags, VerInv, VerTyped
<1>2. /\ tagsCache' \in [Services -> CachedTags]
      /\ \A t \in Services : tagsCache'[t].tags = tagsCache[t].tags /\ (tagsCache'[t].young => tagsCache[t].young)
  BY <1>1 DEF CachedTags
<1>3. VerTyped' /\ \A l \in Listings : Coherent(listing'[l])
  BY <1>1, <1>2 DEF VerInv, VerTyped
<1>4. ASSUME NEW t \in Services, NEW l \in Listings PROVE Fresh(registry'[t], tagsCache'[t], listing'[l].listers[t])
  <2>1. Fresh(registry[t], tagsCache[t], listing[l].listers[t])
    BY DEF VerInv, Current
  <2>2. registry'[t] = registry[t] /\ listing'[l].listers[t] = listing[l].listers[t]
    BY <1>1
  <2> QED BY <1>2, <2>1, <2>2 DEF Fresh
<1>5. \A t \in Services, l \in Listings, k \in Listings : Awaits(listing'[l].listers[t], listing'[k].listers[t])
  BY <1>1 DEF VerInv, Current
<1>6. Current'
  BY <1>4, <1>5, Zenon DEF Current
<1> QED BY <1>3, <1>6, Zenon DEF VerInv

LEMMA VerNextInv == VerInv /\ [VerNext]_verVars => VerInv'
<1> SUFFICES ASSUME VerInv, [VerNext]_verVars PROVE VerInv'
  OBVIOUS
<1>1. ASSUME NEW l \in Listings, NEW s \in Services, ListerStep(l, s) PROVE VerInv'
  BY <1>1, ListerInv, SendInv DEF ListerStep
<1>2. ASSUME NEW l \in Listings, ReaderStep(l) PROVE VerInv'
  BY <1>2, WaitAllInv, DrainInv, ReturnVersionsInv DEF ReaderStep
<1>3. ASSUME NEW l \in Listings, ListVersions(l) PROVE VerInv'
  BY <1>3, StartsInv DEF ListVersions
<1>4. ASSUME NEW l \in Listings, GetServiceVersions(l) PROVE VerInv'
  <2>1. PICK s \in Services : Starts(l, "single", {s})
    BY <1>4 DEF GetServiceVersions
  <2>2. {s} \in SUBSET Services /\ "single" \in {"wait", "single"} /\ \E t \in Services : {s} = {t}
    OBVIOUS
  <2> QED BY <2>1, <2>2, StartsInv
<1>5. CASE UNCHANGED verVars
  BY <1>5 DEF verVars, VerInv, VerTyped, Current
<1> QED BY <1>1, <1>2, <1>3, <1>4, <1>5, PublishInv, AgeInv DEF VerNext

LEMMA VersionsDelivered == VerInv => VerTypeOK /\ VersionsComplete
<1> SUFFICES ASSUME VerInv PROVE VerTypeOK /\ VersionsComplete
  OBVIOUS
<1>1. ASSUME NEW l \in Listings
      PROVE  /\ listing[l] \in Asking /\ listing[l].pc \in {"idle", "wait", "drain", "single", "done"}
             /\ listing[l].asked \subseteq Services /\ listing[l].listers \in [Services -> Lister]
             /\ listing[l].versions \in [Services -> Tags \cup {NoVersions}]
             /\ \A i \in DOMAIN listing[l].results : listing[l].results[i] \in Result
  BY DEF VerInv, VerTyped, Asking
<1>2. DOMAIN listing = Listings /\ registry \in [Services -> Tags] /\ tagsCache \in [Services -> [tags : Tags, young : BOOLEAN]]
  BY DEF VerInv, VerTyped, CachedTags
<1>3. VerTypeOK
  BY <1>1, <1>2, Zenon DEF VerTypeOK
<1>4. ASSUME NEW l \in Listings, listing[l].pc = "done", NEW s \in listing[l].asked
      PROVE  /\ s \in HasDefault => listing[l].versions[s] # NoVersions
             /\ listing[l].listers[s].tags # 0 => listing[l].versions[s] = listing[l].listers[s].tags
             /\ listing[l].versions[s] \notin {0, NoVersions} =>
                  \E t \in listing[l].listers[s].first : t <= listing[l].versions[s]
  <2> DEFINE c == listing[l]
  <2>1. s \in Services /\ Coherent(c) /\ c.pc = "done" /\ s \in c.asked /\ c.listers[s].tags \in Tags
    BY <1>1, <1>4 DEF VerInv, Lister
  <2>2. Fresh(registry[s], tagsCache[s], c.listers[s])
    BY <2>1 DEF VerInv, Current
  <2> HIDE DEF c
  <2>3. c.results = <<>> /\ c.listers[s].pc = "done"
    BY <2>1 DEF Coherent, Waited
  <2>4. ~\E i \in DOMAIN c.results : c.results[i].name = s
    BY <2>3
  <2>5. c.versions[s] = c.listers[s].tags \/ Nothing(c, s)
    BY <2>1, <2>3, <2>4 DEF Coherent, NoneLost, Delivered
  <2>6. c.versions[s] # NoVersions => c.versions[s] = c.listers[s].tags
    BY <2>1 DEF Coherent, Genuine
  <2>7. c.listers[s].tags # 0 => \E t \in c.listers[s].first : t <= c.listers[s].tags
    BY <2>2, <2>3 DEF Fresh, Covers
  <2>8. /\ s \in HasDefault => c.versions[s] # NoVersions
        /\ c.listers[s].tags # 0 => c.versions[s] = c.listers[s].tags
        /\ c.versions[s] \notin {0, NoVersions} => \E t \in c.listers[s].first : t <= c.versions[s]
    BY <2>1, <2>5, <2>6, <2>7, TagsAre DEF Nothing
  <2> QED BY <2>8 DEF c
<1>5. VersionsComplete
  BY <1>4, Zenon DEF VersionsComplete
<1> QED BY <1>3, <1>5

-----------------------------------------------------------------------------
(* The composition *)

(* A step of the composition is one of a single component, and a stutter of  *)
(* the others.                                                               *)
LEMMA StepOfOne ==
  [Next]_vars => /\ [PkgNext]_pkgVars /\ [ProjNext]_projVars /\ [SparkNext]_appVars
                 /\ [LogNext]_logVars /\ [VerNext]_verVars
<1> SUFFICES ASSUME [Next]_vars
             PROVE  /\ [PkgNext]_pkgVars /\ [ProjNext]_projVars /\ [SparkNext]_appVars
                    /\ [LogNext]_logVars /\ [VerNext]_verVars
  OBVIOUS
<1>1. CASE UNCHANGED vars
  BY <1>1 DEF vars
<1>2. CASE Next
  <2>1. CASE PkgNext /\ UNCHANGED <<projVars, appVars, logVars, verVars>>
    BY <2>1
  <2>2. CASE ProjNext /\ UNCHANGED <<pkgVars, appVars, logVars, verVars>>
    BY <2>2
  <2>3. CASE SparkNext /\ UNCHANGED <<pkgVars, projVars, logVars, verVars>>
    BY <2>3
  <2>4. CASE LogNext /\ UNCHANGED <<pkgVars, projVars, appVars, verVars>>
    BY <2>4
  <2>5. CASE VerNext /\ UNCHANGED <<pkgVars, projVars, appVars, logVars>>
    BY <2>5
  <2> QED BY <1>2, <2>1, <2>2, <2>3, <2>4, <2>5 DEF Next
<1> QED BY <1>1, <1>2

(* Components that share nothing: each behaves in the composition as it does *)
(* alone, so that what is proved of one holds there.                         *)
THEOREM EachAsAlone ==
  Spec => /\ PkgSpec /\ ProjSpec /\ SparkSpec
          /\ LogInit /\ [][LogNext]_logVars
          /\ VerInit /\ [][VerNext]_verVars
<1>1. Init => PkgInit /\ ProjInit /\ SparkInit /\ LogInit /\ VerInit
  BY DEF Init
<1>2. Spec => Init /\ [][Next]_vars
  BY PTL DEF Spec
<1> QED BY <1>1, <1>2, StepOfOne, PTL DEF PkgSpec, ProjSpec, SparkSpec

LEMMA AlwaysDelivering ==
  Spec => []PkgInv /\ [](ProjInv /\ StreamInv) /\ []SparkInv /\ []LogInv /\ []VerInv
<1>1. ProjInit => ProjInv /\ StreamInv
  BY ProjInitInv, StreamInitInv
<1>2. (ProjInv /\ StreamInv) /\ [ProjNext]_projVars => (ProjInv /\ StreamInv)'
  BY ProjNextInv, StreamNextInv
<1>3. ProjSpec => [](ProjInv /\ StreamInv)
  BY <1>1, <1>2, PTL DEF ProjSpec
<1>4. LogInit /\ [][LogNext]_logVars => []LogInv
  BY LogInitInv, LogNextInv, PTL
<1>5. VerInit /\ [][VerNext]_verVars => []VerInv
  BY VerInitInv, VerNextInv, PTL
<1> QED BY <1>3, <1>4, <1>5, EachAsAlone, AlwaysPkgInv, AlwaysSparkInv, PTL

(* Every handler, goroutine and channel of the five components keeps to its  *)
(* types, for any number of them.                                            *)
THEOREM PlatformTypeCorrect == Spec => []PlatformTypeOK
<1>1. PkgInv /\ (ProjInv /\ StreamInv) /\ SparkInv /\ LogInv /\ VerInv => PlatformTypeOK
  BY StreamTyped, LogFaithful, VersionsDelivered DEF PkgInv, SparkInv, SparkTypeOK, PlatformTypeOK
<1> QED BY <1>1, AlwaysDelivering, PTL

(* GetPodLogs, ListVersionsForServices and StreamProjects: what one goroutine *)
(* hands over is what the other writes, for logs of any length, any number   *)
(* of services and of namespaces, and any interleaving.                      *)
THEOREM ChannelsDeliverHolds == Spec => []ChannelsDeliver
<1>1. (ProjInv /\ StreamInv) /\ LogInv /\ VerInv => ChannelsDeliver
  BY LogFaithful, VersionsDelivered DEF StreamInv, ChannelsDeliver
<1> QED BY <1>1, AlwaysDelivering, PTL

(* The safety of the package cache, the projects and the Spark applications  *)
(* holds in the composition that the run explores.                           *)
THEOREM PlatformSafe == Spec => DumpsShared /\ ForeignSpared /\ EditsCompose /\ []DefaultsComplete
  BY EachAsAlone, DumpsSharedHolds, ForeignSparedHolds, EditsComposeHolds, DefaultsCompleteHolds, PTL
=============================================================================
