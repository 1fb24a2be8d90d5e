--------------------------- MODULE PackageVersions ---------------------------
(***************************************************************************)
(* The versions offered for the services of the catalog.  Every HTTP       *)
(* request runs on its own: ListVersionsForServices starts one goroutine   *)
(* per service, each lists the tags of its package and puts them on a      *)
(* channel that is read once all have ended; GetServiceVersions lists the  *)
(* tags of one service itself.  All of them share a cache of tagsCacheTTL, *)
(* filled by a Load, a call of the registry and a Store that nothing holds *)
(* together.                                                               *)
(***************************************************************************)
EXTENDS Naturals, FiniteSets, Sequences

CONSTANTS
  Services,     \* the services of the catalog
  HasDefault,   \* those with a default version
  Listings,     \* requests that list versions at the same time
  Singles,      \* those that ask for the versions of one service
  MaxPublished  \* bound on the versions published of a service

ASSUME PackageVersionsAssumption ==
  /\ HasDefault \subseteq Services /\ IsFiniteSet(Services)
  /\ Singles \subseteq Listings
  /\ MaxPublished \in Nat

VARIABLES
  registry,   \* how many tags the registry has of each package
  tagsCache,  \* the tags cached and whether they are young; 0 when there are none
  listing     \* the requests

verVars == <<registry, tagsCache, listing>>

(* Tags are numbered by how many there are; the default version stands for 0. *)
Tags == 0..MaxPublished + 1
NoVersions == MaxPublished + 2

(* A goroutine: how far it is and the tags it has.  History: what could be   *)
(* had when its request came.                                                *)
Lister == [pc : {"look", "get", "store", "send", "done"}, tags : Tags, first : SUBSET Tags]
Result == [name : Services, tags : Tags]

(* A request: how far it is, the services it was asked for, its goroutines,  *)
(* the channel, and the map it returns.  "single" is GetServiceVersions,     *)
(* which has one lister and no channel.                                      *)
VerTypeOK ==
  /\ registry \in [Services -> Tags]
  /\ tagsCache \in [Services -> [tags : Tags, young : BOOLEAN]]
  /\ DOMAIN listing = Listings
  /\ \A l \in Listings :
       /\ listing[l].pc \in {"idle", "wait", "drain", "single", "done"}
       /\ listing[l].asked \subseteq Services
       /\ listing[l].listers \in [Services -> Lister]
       /\ \A i \in DOMAIN listing[l].results : listing[l].results[i] \in Result
       /\ listing[l].versions \in [Services -> Tags \cup {NoVersions}]

AtRest == [pc |-> "done", tags |-> 0, first |-> {}]

VerInit ==
  /\ registry = [s \in Services |-> 1]
  /\ tagsCache = [s \in Services |-> [tags |-> 0, young |-> FALSE]]
  /\ listing = [l \in Listings |->
       [pc |-> "idle", asked |-> {}, listers |-> [s \in Services |-> AtRest], results |-> <<>>,
        versions |-> [s \in Services |-> NoVersions]]]

(* make(chan result, len(services)) *)
ResultsCapacity(l) == Cardinality(listing[l].asked)

Listing(l, s, pc) == listing[l].listers[s].pc = pc
Goes(l, s, lister) == listing' = [listing EXCEPT ![l].listers[s] = lister]
Becomes(l, c) == listing' = [listing EXCEPT ![l] = c]

(* Mutant: the age of the entry is not looked at. *)
LookUp_AnyAge(l, s) ==
  /\ Listing(l, s, "look")
  /\ Goes(l, s, IF tagsCache[s].tags # 0 THEN [listing[l].listers[s] EXCEPT !.pc = "send", !.tags = tagsCache[s].tags]
                ELSE [listing[l].listers[s] EXCEPT !.pc = "get"])
  /\ UNCHANGED <<registry, tagsCache>>

(* cachedTags *)
LookUp(l, s) ==
  /\ Listing(l, s, "look")
  /\ Goes(l, s, IF tagsCache[s].young THEN [listing[l].listers[s] EXCEPT !.pc = "send", !.tags = tagsCache[s].tags]
                ELSE [listing[l].listers[s] EXCEPT !.pc = "get"])
  /\ UNCHANGED <<registry, tagsCache>>

(* listOCITagsCached: the registry answers, *)
GetTags(l, s) ==
  /\ Listing(l, s, "get")
  /\ Goes(l, s, [listing[l].listers[s] EXCEPT !.pc = "store", !.tags = registry[s]])
  /\ UNCHANGED <<registry, tagsCache>>

(* and the answer is stored, as young, over whatever is there by now. *)
StoreTags(l, s) ==
  /\ Listing(l, s, "store")
  /\ tagsCache' = [tagsCache EXCEPT ![s] = [tags |-> listing[l].listers[s].tags, young |-> TRUE]]
  /\ Goes(l, s, [listing[l].listers[s] EXCEPT !.pc = "send"])
  /\ UNCHANGED registry

(* An error is not cached: the default version is offered, if there is one. *)
GetTagsFails(l, s) ==
  /\ Listing(l, s, "get")
  /\ Goes(l, s, [listing[l].listers[s] EXCEPT !.pc = IF s \in HasDefault THEN "send" ELSE "done", !.tags = 0])
  /\ UNCHANGED <<registry, tagsCache>>

(* Mutant: the channel has room for one. *)
Send_Narrow(l, s) ==
  /\ listing[l].pc = "wait" /\ Listing(l, s, "send") /\ Len(listing[l].results) < 1
  /\ LET found == [name |-> s, tags |-> listing[l].listers[s].tags]
     IN  Becomes(l, [listing[l] EXCEPT !.results = Append(listing[l].results, found), !.listers[s].pc = "done"])
  /\ UNCHANGED <<registry, tagsCache>>

(* results <- result, which waits while the channel is full. *)
Send(l, s) ==
  /\ listing[l].pc = "wait" /\ Listing(l, s, "send") /\ Len(listing[l].results) < ResultsCapacity(l)
  /\ LET found == [name |-> s, tags |-> listing[l].listers[s].tags]
     IN  Becomes(l, [listing[l] EXCEPT !.results = Append(listing[l].results, found), !.listers[s].pc = "done"])
  /\ UNCHANGED <<registry, tagsCache>>

(* Mutant: the results are read as soon as there is one. *)
WaitAll_First(l) ==
  /\ listing[l].pc = "wait" /\ listing[l].results # <<>>
  /\ listing' = [listing EXCEPT ![l].pc = "drain"]
  /\ UNCHANGED <<registry, tagsCache>>

(* wg.Wait, close(results) *)
WaitAll(l) ==
  /\ listing[l].pc = "wait" /\ \A s \in Services : Listing(l, s, "done")
  /\ listing' = [listing EXCEPT ![l].pc = "drain"]
  /\ UNCHANGED <<registry, tagsCache>>

(* for r := range results *)
Drain(l) ==
  /\ listing[l].pc = "drain"
  /\ LET rest == listing[l].results
     IN  Becomes(l, IF rest = <<>> THEN [listing[l] EXCEPT !.pc = "done"]
                    ELSE [listing[l] EXCEPT !.versions[Head(rest).name] = Head(rest).tags, !.results = Tail(rest)])
  /\ UNCHANGED <<registry, tagsCache>>

(* GetServiceVersions returns what its lookup ended with. *)
ReturnVersions(l) ==
  /\ listing[l].pc = "single"
  /\ \E s \in listing[l].asked :
       /\ listing[l].listers[s].pc \in {"send", "done"}
       /\ Becomes(l, [listing[l] EXCEPT !.pc = "done", !.listers[s].pc = "done",
                        !.versions[s] = IF Listing(l, s, "send") THEN listing[l].listers[s].tags ELSE NoVersions])
  /\ UNCHANGED <<registry, tagsCache>>

(* What a request that comes now may still be answered with: young tags of   *)
(* the cache, tags another request has fetched and is about to store, and    *)
(* what the registry has.                                                    *)
AtHand(s) ==
  {registry[s]} \cup {t \in {tagsCache[s].tags} : tagsCache[s].young}
  \cup {listing[l].listers[s].tags : l \in {k \in Listings : Listing(k, s, "store")}}

Starts(l, pc, asked) ==
  /\ listing[l].pc = "idle"
  /\ Becomes(l,
       [pc |-> pc, asked |-> asked, results |-> <<>>, versions |-> [s \in Services |-> NoVersions],
        listers |-> [s \in Services |->
          IF s \in asked THEN [pc |-> "look", tags |-> 0, first |-> AtHand(s)] ELSE AtRest]])
  /\ UNCHANGED <<registry, tagsCache>>

ListVersions(l) == l \notin Singles /\ Starts(l, "wait", Services)
GetServiceVersions(l) == l \in Singles /\ \E s \in Services : Starts(l, "single", {s})

(* A version is published; cached tags age. *)
PublishVersion(s) ==
  /\ registry[s] <= MaxPublished
  /\ registry' = [registry EXCEPT ![s] = @ + 1]
  /\ UNCHANGED <<tagsCache, listing>>

AgeTags(s) ==
  /\ tagsCache[s].young
  /\ tagsCache' = [tagsCache EXCEPT ![s].young = FALSE]
  /\ UNCHANGED <<registry, listing>>

ListerStep(l, s) == LookUp(l, s) \/ GetTags(l, s) \/ StoreTags(l, s) \/ GetTagsFails(l, s) \/ Send(l, s)
ReaderStep(l) == WaitAll(l) \/ Drain(l) \/ ReturnVersions(l)

VerNext ==
  \/ \E l \in Listings : ReaderStep(l) \/ ListVersions(l) \/ GetServiceVersions(l)
  \/ \E l \in Listings, s \in Services : ListerStep(l, s)
  \/ \E s \in Services : PublishVersion(s) \/ AgeTags(s)

(* Goroutines run.  That a registry answers is an assumption: the client has *)
(* no timeout.                                                               *)
VerFairness ==
  \A l \in Listings : WF_verVars(ReaderStep(l)) /\ \A s \in Services : WF_verVars(ListerStep(l, s))

VerSpec == VerInit /\ [][VerNext]_verVars /\ VerFairness

-----------------------------------------------------------------------------

(* Every request returns: no goroutine waits for room in the channel while   *)
(* the reader waits for the goroutines.                                      *)
ListingReturns ==
  \A l \in Listings : (listing[l].pc \in {"wait", "single"}) ~> (listing[l].pc = "done")

(* What is returned covers every service asked for that has tags or a        *)
(* default, and no tags are older than all that was at hand at the start:    *)
(* in the registry, young in the cache, or on its way there from another     *)
(* request, which may store what it fetched long ago as young.               *)
VersionsComplete ==
  \A l \in Listings : listing[l].pc = "done" => \A s \in listing[l].asked :
    LET lister == listing[l].listers[s]
        version == listing[l].versions[s]
    IN  /\ s \in HasDefault => version # NoVersions
        /\ lister.tags # 0 => version = lister.tags
        /\ version \notin {0, NoVersions} => \E t \in lister.first : t <= version
=============================================================================
