----------------------------- MODULE ServiceView -----------------------------
(***************************************************************************)
(* What the server shows of the services of a project, computed from the   *)
(* objects of the namespace: a world is the record of those objects.       *)
(* Names and hosts are sequences of the parts joined by "-"; the suffix of *)
(* the ingress, the same in every host, is left out.                       *)
(***************************************************************************)
EXTENDS Integers, SequencesExt

(* A release: ref to the objects it owns is by its UID, here its name.       *)
(* helm maps a HelmRelease to the release that owns it.  An ingress has the  *)
(* HelmRelease label or none (<<>>).  A pod has a name, the label            *)
(* app.kubernetes.io/instance, and containers.                               *)
None == <<>>
NoText == ""

(* releaseInstanceNames: the HelmReleases the release owns; none is an error.*)
InstanceNames(w, release) == {h \in DOMAIN w.helm : w.helm[h] = release}

(* matchesInstance: equal, or it continues after a dash. *)
MatchesInstance(name, names) == \E n \in names : IsPrefix(n, name)

(* MapPhaseToStatus: a phase it does not know is an installation. *)
StatusOfPhase(phase) ==
  CASE phase = "READY" -> "Ready"
    [] phase \in {"ERROR", "FAILED"} -> "Error"
    [] phase = "UPGRADING" -> "Updating"
    [] OTHER -> "Installing"

(* Mutant: whatever comes last is shown. *)
Remember_Last(acc, ref) == [n \in DOMAIN acc \cup {ref.name} |-> IF n = ref.name THEN ref ELSE acc[n]]

(* remember: the first resolved one of a name is kept. *)
Remember(acc, ref) ==
  IF ref.name \in DOMAIN acc /\ acc[ref.name].resolved THEN acc
  ELSE [n \in DOMAIN acc \cup {ref.name} |-> IF n = ref.name THEN ref ELSE acc[n]]

(* boundConnections: the references the controller resolved, then the        *)
(* candidates it watches.                                                    *)
BoundConnections(release) ==
  LET marked(refs, r) == [i \in DOMAIN refs |-> [name |-> refs[i].name, kind |-> refs[i].kind, resolved |-> r]]
  IN  FoldLeft(Remember, <<>>, marked(release.effective, TRUE) \o marked(release.watched, FALSE))

(* releaseToInstance, from the typed release. *)
ReleaseToInstance(release) ==
  [name |-> IF release.instance = None THEN release.service ELSE release.instance,
   release |-> release.name, service |-> release.service, roles |-> release.roles,
   ns |-> release.target, status |-> StatusOfPhase(release.phase), url |-> None]

(* FromUnstructuredToServiceInstance, from the object of a watch event: the  *)
(* connections are not part of it.                                           *)
FromUnstructured(release) ==
  [name |-> IF release.instance = None THEN release.service ELSE release.instance,
   release |-> release.name, service |-> release.service, roles |-> release.roles,
   ns |-> release.target, status |-> StatusOfPhase(release.phase), url |-> None]

(* roleHostConventions *)
RoleHosts == [storage |-> <<"storage">>, spark |-> <<"spark", "web", "proxy">>]

(* candidateHosts: the release, the conventions of its roles, the instance   *)
(* name when it is not the service's, the service.                           *)
CandidateHosts(i) ==
  LET named(n) == <<n \o <<"console">> \o i.ns, n \o i.ns>>
      known == SelectSeq(i.roles, LAMBDA r : r \in DOMAIN RoleHosts)
  IN  <<i.release>> \o [k \in DOMAIN known |-> RoleHosts[known[k]] \o i.ns]
        \o (IF i.name # None /\ i.name # i.service THEN named(i.name) ELSE <<>>)
        \o (IF i.service # None THEN named(i.service) ELSE <<>>)

(* ingressHostsFromItems: the HelmRelease of each host, the last ingress     *)
(* that has a HelmRelease wins.                                              *)
IngressHosts(w) ==
  FoldLeft(LAMBDA acc, ing : IF ing.owner = None THEN acc
             ELSE [h \in DOMAIN acc \cup {ing.host} |-> IF h = ing.host THEN ing.owner ELSE acc[h]],
           <<>>, w.ingresses)

(* Mutant: a host that exists is good enough. *)
FirstExposed_AnyOwner(hosts, names, candidates) ==
  LET k == SelectInSeq(candidates, LAMBDA h : h \in DOMAIN hosts)
  IN  IF k = 0 THEN None ELSE candidates[k]

(* The first candidate an ingress of the instance serves. *)
FirstExposed(hosts, names, candidates) ==
  LET k == SelectInSeq(candidates, LAMBDA h : h \in DOMAIN hosts /\ hosts[h] \in names)
  IN  IF k = 0 THEN None ELSE candidates[k]

(* setURLIfExposed, and enrichWithURL for each of a list: neither a failing   *)
(* look-up nor a host of somebody else makes a URL.                           *)
SetURLIfExposed(w, i) ==
  IF i.ns = None \/ InstanceNames(w, i.release) = {} THEN i
  ELSE [i EXCEPT !.url = FirstExposed(IngressHosts(w), InstanceNames(w, i.release), CandidateHosts(i))]

EnrichWithURL(w, is) ==
  [k \in DOMAIN is |->
     IF is[k].ns = None \/ InstanceNames(w, is[k].release) = {} THEN is[k]
     ELSE LET u == FirstExposed(IngressHosts(w), InstanceNames(w, is[k].release), CandidateHosts(is[k]))
          IN  IF u = None THEN is[k] ELSE [is[k] EXCEPT !.url = u]]

(* A container that counts against its pod: not of the infrastructure, not   *)
(* ready, and waiting or terminated for a reason that is fatal (a crash      *)
(* loop, an image that cannot be pulled, an error).                          *)
Failing(c) == ~c.sidecar /\ ~c.ready /\ c.fatal

(* Mutant: sidecars count. *)
CheckPodHealth_Sidecars(pods, names, status) ==
  IF \E p \in pods : MatchesInstance(p.name, names) /\ \E c \in p.containers : ~c.ready /\ c.fatal
  THEN "Error" ELSE status

(* checkPodHealth: the pods of the instance are found by name. *)
CheckPodHealth(pods, names, status) ==
  IF \E p \in pods : MatchesInstance(p.name, names) /\ \E c \in p.containers : Failing(c)
  THEN "Error" ELSE status

(* EnrichPodHealth, and enrichWithPodHealth for a list: only a release that   *)
(* is ready is doubted.                                                       *)
EnrichPodHealth(w, i) ==
  IF i.status # "Ready" \/ i.ns = None \/ InstanceNames(w, i.release) = {} THEN i
  ELSE [i EXCEPT !.status = CheckPodHealth(w.pods, InstanceNames(w, i.release), @)]

(* Mutant: one release of the list that is not ready ends the pass. *)
EnrichWithPodHealth_Stops(w, is) ==
  [k \in DOMAIN is |-> IF \A j \in 1..k : is[j].status = "Ready" THEN EnrichPodHealth(w, is[k]) ELSE is[k]]

EnrichWithPodHealth(w, is) == [k \in DOMAIN is |-> EnrichPodHealth(w, is[k])]

(* ListServices, GetService and one event of StreamServices. *)
ListServices(w) ==
  EnrichWithPodHealth(w, EnrichWithURL(w, [k \in DOMAIN w.releases |-> ReleaseToInstance(w.releases[k])]))

GetService(w, k) ==
  EnrichWithPodHealth(w, <<SetURLIfExposed(w, ReleaseToInstance(w.releases[k]))>>)[1]

StreamService(w, k) == EnrichPodHealth(w, SetURLIfExposed(w, FromUnstructured(w.releases[k])))

(* ListPods: by the label, for the HelmReleases of the release. *)
ListPods(w, release) == {p \in w.pods : p.label \in InstanceNames(w, release)}

(* unstructuredToPod: the containers that are not of the infrastructure. *)
PodRow(p) ==
  LET own == {c \in p.containers : ~c.sidecar}
  IN  [name |-> p.name, ready |-> Cardinality({c \in own : c.ready}), total |-> Cardinality(own)]

(* latestWarningMessage: the message of the latest event about the instance, *)
(* in the order of the list; an event without a time that parses never is    *)
(* the latest.                                                               *)
EventTime(e) ==
  IF e.last > 0 THEN e.last ELSE IF e.event > 0 THEN e.event ELSE e.created

(* Mutant: the last event of the list is taken for the latest. *)
Later_Last(names, acc, e) ==
  IF MatchesInstance(e.involved, names) THEN [at |-> EventTime(e), message |-> e.message] ELSE acc

Later(names, acc, e) ==
  IF MatchesInstance(e.involved, names) /\ EventTime(e) > acc.at
  THEN [at |-> EventTime(e), message |-> e.message] ELSE acc

LatestWarning(w, release) ==
  LET names == InstanceNames(w, release)
  IN  IF names = {} THEN NoText
      ELSE FoldLeft(LAMBDA acc, e : Later(names, acc, e), [at |-> 0, message |-> NoText], w.events).message

(* buildServiceMetrics, for one resource.  A container that has limits is     *)
(* counted by them, also when they do not name the resource; one that has     *)
(* none by its requests.  Usage is what the metrics server has.               *)
NoBucket == -2
NoQuantity == -1

Quantity(n) == IF n < 0 THEN 0 ELSE n
LimitOf(c) == IF c.limits # NoBucket THEN Quantity(c.limits) ELSE Quantity(c.requests)

SumOver(S, f(_)) == FoldSet(LAMBDA x, acc : acc + f(x), 0, S)

BuildMetrics(pods, usage) ==
  LET limit == SumOver(pods, LAMBDA p : SumOver(p.containers, LimitOf))
      metered == {p \in pods : p.name \in DOMAIN usage}
      used == SumOver(metered, LAMBDA p : Quantity(usage[p.name]))
  IN  [limit |-> limit, used |-> used, available |-> \E p \in metered : usage[p.name] >= 0,
       pct |-> IF limit <= 0 THEN 0 ELSE IF used > limit THEN 100 ELSE (100 * used) \div limit]

GetServiceMetrics(w, release) == BuildMetrics(ListPods(w, release), w.usage)

(* Mutant: pods are attributed by their name. *)
GetProjectMetrics_ByName(w) ==
  LET is == {k \in DOMAIN w.releases : InstanceNames(w, w.releases[k].name) # {}}
  IN  [k \in is |-> BuildMetrics({p \in w.pods : MatchesInstance(p.name, InstanceNames(w, w.releases[k].name))}, w.usage)]

(* GetProjectMetrics: one listing, the pods given to each release; a release  *)
(* without HelmRelease has no entry.                                          *)
GetProjectMetrics(w) ==
  LET is == {k \in DOMAIN w.releases : InstanceNames(w, w.releases[k].name) # {}}
  IN  [k \in is |-> BuildMetrics({p \in w.pods : p.label \in InstanceNames(w, w.releases[k].name)}, w.usage)]

-----------------------------------------------------------------------------

(* No URL is shown for two services: "this avoids matching an Ingress from    *)
(* another instance with a similar name, such as kafka and kafka-console",    *)
(* whose candidate hosts coincide.                                            *)
URLsDistinctIn(w) ==
  LET l == ListServices(w)
  IN  \A j, k \in DOMAIN l : j # k /\ l[j].url # None => l[j].url # l[k].url

(* The list, the page of a service and the stream say the same of a service   *)
(* (its connections, which an event lacks, apart).                            *)
ViewsAgreeIn(w) ==
  \A k \in DOMAIN w.releases :
    /\ GetService(w, k) = ListServices(w)[k]
    /\ StreamService(w, k) = ListServices(w)[k]

(* When neither HelmReleases nor the instances that pods are labelled with    *)
(* have names that continue one another, a service that is ready for KuboCD   *)
(* shows as failed exactly when one of the pods its page lists has a          *)
(* container that fails: health goes by name, the list by label.              *)
HealthMatchesPodsIn(w) ==
  \A k \in DOMAIN w.releases :
    LET r == w.releases[k] IN
    /\ \A h, g \in DOMAIN w.helm \cup {p.label : p \in w.pods} : h # g => ~IsPrefix(h, g)
    /\ \A p \in w.pods : IsPrefix(p.label, p.name)
    /\ r.phase = "READY" /\ InstanceNames(w, r.name) # {} /\ r.target # None
    => ((ListServices(w)[k].status = "Error") <=>
          \E p \in ListPods(w, r.name) : PodRow(p).ready < PodRow(p).total /\ \E c \in p.containers : Failing(c))

(* The metrics of the project and those of a service agree, and a service     *)
(* without a limit shows no share.                                            *)
MetricsAgreeIn(w) ==
  \A k \in DOMAIN GetProjectMetrics(w) :
    GetProjectMetrics(w)[k] = GetServiceMetrics(w, w.releases[k].name)

(* The message explains with the latest warning about the service's objects,  *)
(* whatever the order of the events.                                          *)
WarningIsLatestIn(w) ==
  \A k \in DOMAIN w.releases :
    LET r == w.releases[k].name
        about == {i \in DOMAIN w.events : MatchesInstance(w.events[i].involved, InstanceNames(w, r)) /\ EventTime(w.events[i]) > 0}
    IN  IF about = {} THEN LatestWarning(w, r) = NoText
        ELSE \E i \in about : /\ LatestWarning(w, r) = w.events[i].message
                              /\ \A j \in about : EventTime(w.events[j]) <= EventTime(w.events[i])

(* "A name that resolved shows once, resolved.  A name that resolved nowhere  *)
(* shows once, waiting": against the two lists, in any order.                 *)
ConnectionsSummedIn(release) ==
  LET bound == BoundConnections(release)
      names(refs) == {refs[i].name : i \in DOMAIN refs}
  IN  /\ DOMAIN bound = names(release.effective) \cup names(release.watched)
      /\ \A n \in DOMAIN bound :
           /\ bound[n].resolved <=> n \in names(release.effective)
           /\ LET from == IF bound[n].resolved THEN release.effective ELSE release.watched
              IN  \E i \in DOMAIN from : from[i].name = n /\ from[i].kind = bound[n].kind
=============================================================================
