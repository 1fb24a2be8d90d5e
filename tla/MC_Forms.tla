------------------------------- MODULE MC_Forms -------------------------------
(* The pure parts: one input per behaviour, of one kind, and a property that  *)
(* says what the operators make of the inputs of its kind.                    *)
EXTENDS ServiceView, ConnectionForms, SecretForms, PackageDoc, Access

VARIABLE input

Upto(S, n) == UNION {[1..k -> S] : k \in 0..n}

(* Parameters are named by strings, in their order. *)
SortedParams == <<"a", "b", "c">>

(* Two instances whose hosts collide, and a third service with a role. *)
Rel(name, service, instance, roles, phase) ==
  [name |-> <<"p">> \o name, service |-> service, instance |-> instance, roles |-> roles, target |-> <<"p">>,
   phase |-> phase, effective |-> <<>>, watched |-> <<>>]

K == <<"p", "kafka", "main">>
C == <<"p", "kafka", "console", "main">>
Z == <<"p", "seaweed", "main">>
OwnerOf == [h \in {K, C, Z} |-> SubSeq(h, 1, Len(h) - 1)]
Restricted(f, S) == [x \in S |-> f[x]]

World(helm, ingresses, pods, releases, events, usage) ==
  [helm |-> Restricted(OwnerOf, helm), ingresses |-> ingresses, pods |-> pods, releases |-> releases,
   events |-> events, usage |-> usage]

Releases(phases) ==
  <<Rel(<<"kafka">>, <<"kafka">>, None, <<>>, phases[1]),
    Rel(<<"kafka", "console">>, <<"kafka">>, <<"kafka", "console">>, <<>>, phases[2]),
    Rel(<<"seaweed">>, <<"seaweed">>, None, <<"storage">>, "READY")>>

Hosts == {<<"p", "kafka">>, <<"kafka", "console", "p">>, <<"kafka", "p">>, <<"storage", "p">>}

URLWorld(helm, phase, ing) == World(helm, ing, {}, Releases(<<"READY", phase>>), <<>>, <<>>)

URLWorlds ==
  {URLWorld(helm, phase, ing) :
     helm \in {{K, C}, {C, Z}, {K, C, Z}}, phase \in {"READY", "UPGRADING"},
     ing \in Upto([owner : {None, K, C, Z}, host : Hosts], 2)}

Container == [sidecar : BOOLEAN, ready : BOOLEAN, fatal : BOOLEAN, limits : {2}, requests : {3}]
Pod(h, tail, cs) == [name |-> h \o <<tail>>, label |-> h, containers |-> cs]

PodWorld(helm, phases, cs1, cs2) ==
  World(helm, <<>>, {Pod(K, "0", cs1), Pod(C, "0", cs2)}, Releases(phases), <<>>, <<>>)

PodWorlds ==
  {PodWorld(helm, phases, cs1, cs2) :
     helm \in {{K}, {K, C}}, phases \in [1..2 -> {"READY", "FAILED", "WAIT_OCI"}],
     cs1 \in {S \in SUBSET Container : Cardinality(S) \in 1..2}, cs2 \in {{}} \cup {{c} : c \in Container}}

Budget == [sidecar : {FALSE}, ready : {TRUE}, fatal : {FALSE}, limits : {NoBucket, NoQuantity, 2}, requests : {NoBucket, 3}]

MetricWorld(c1, c2, label, metered, u) ==
  World({K, C}, <<>>, {Pod(K, "0", {c1}), Pod(K, "1", {c2}), [Pod(K, "2", {c2}) EXCEPT !.label = label]},
        Releases(<<"READY", "READY">>), <<>>, [n \in metered |-> u])

MetricWorlds ==
  {MetricWorld(c1, c2, label, metered, u) :
     c1 \in Budget, c2 \in Budget, label \in {C, None},
     metered \in SUBSET {K \o <<"0">>, K \o <<"2">>}, u \in {NoQuantity, 1, 3}}

Events == [involved : {K, C \o <<"0">>, <<"p", "other">>}, last : {0, 2}, event : {0, 1}, created : {0, 3}, message : {"m", "n"}]

EventWorlds == {World({K, C}, <<>>, {}, Releases(<<"FAILED", "READY">>), events, <<>>) : events \in Upto(Events, 2)}

Refs == [name : {"db", "s3"}, kind : {"Connection", "InternalConnection"}]
Bindings == [effective : Upto(Refs, 2), watched : Upto(Refs, 2)]

ExternalRequests ==
  [name : Given, target : Given, store : {Blank, "s"}, interval : {Blank, "bad", "-1h", "0", "1h"}, data : Upto(Mappings, 1)]
    \cup [name : {"ok"}, target : {"ok"}, store : {"s"}, interval : {"0", "1h"}, data : Upto(Mappings, 2)]

(* Values of some of the fields: Gap for one that is not sent. *)
Gap == [type |-> "gap", text |-> NoText, number |-> 0]
Sent(form) == [n \in {m \in DOMAIN form : form[m] # Gap} |-> form[n]]

DatabaseValues ==
  {Sent(form) : form \in
     [engine : {Gap, Str(NoText), Null, Str("postgresql"), Str("mysql"), Str("oracle"), Num(1)},
      driver : {Gap, Str("org.postgresql.Driver"), Str("com.mysql.cj.jdbc.Driver")},
      port : {Gap, Num(0), Num(3306), Str("3306")}, password : {Gap, Str(NoText), Str("p")},
      sslMode : {Gap, Str("require"), Str("no")}, tls : {Gap, Str("true")}, secretRef : {Gap, Str("s")}]}

S3Values ==
  {Sent(form) : form \in
     [apiUrl : {Gap, Str(NoText), Str("u")}, region : {Gap, Str("r"), Null}, secretKey : {Gap, Str("k"), Num(1)},
      pathStyle : {Gap, Bool("false"), Str("false")}, secretRef : {Gap, Str("s")}, other : {Gap, Str("o")}]}

(* A Secret to use and a contract to filter by, or none. *)
ExistingSecrets == {NoText, "s"}
ContractFilters == {NoText, "s3"}

SomeConnections == SUBSET [name : {"a", "b"}, contract : {"s3", "hive"}, managed : BOOLEAN]
OneEach == {cs \in SomeConnections : \A c, d \in cs : c.name = d.name => c = d}

NamespacedRefs == [name : {"db", "s3"}, kind : {"Connection"}, namespace : {"p", NoText, "other"}]

Segments == Upto({"q", " ", "x"}, 6)

Conditions == [type : {"Ready", "Other"}, status : {"True", "False", "Unknown"}, message : {Blank, "m"}]

Values == {<<"a">>, <<"true">>, <<"a", "|", "b">>, <<"a", " ", "b">>, <<"a", ":", "b">>, <<"a", "=", "5">>}
Titles ==
  [group : {<<>>, <<"g">>}, title : {<<>>, <<"l", " ", "m">>}, widget : {<<>>, <<"w">>},
   options : {<<>>} \cup {<<[key |-> <<"min">>, value |-> v]>> : v \in Values}
     \cup {<<[key |-> <<"min">>, value |-> v], [key |-> <<"condition">>, value |-> <<"f", "=">> \o u]>> :
             v \in Values, u \in Values \ {<<"a", "=", "5">>}}]

Documents ==
  {[hasParameters |-> h, properties |-> p, required |-> r, inputs |-> i] :
     h \in BOOLEAN, p \in UNION {[D -> {"none", Missing, "pg"}] : D \in SUBSET {"a", "b", "c"}}, r \in {{}, {"a"}, {"b", "c"}},
     i \in {<<>>, <<[contract |-> Missing, alias |-> "x", template |-> Missing, optional |-> "no"],
                    [contract |-> "s3", alias |-> Missing, template |-> "b", optional |-> "text"]>>}}

RegistryWorlds ==
  [registry : [challenge : {"open", "basic", "bearer", "other"}, realm : BOOLEAN, public : BOOLEAN,
               tokenField : {"token", "access_token", "none"}],
   auths : SUBSET [host : {"host", "elsewhere"}, fields : {"plain", "undecodable"}, secret : {"right", "wrong"}],
   service : [repository : {Missing, "host"}, default : {Missing, "v1"}]]

NoContext ==
  [identityAuthority |-> Unset, identityClientId |-> Unset, oidcIssuerUri |-> Unset, oidcClientId |-> Unset,
   identityKubauthNs |-> Unset, oidcKubauthNs |-> Unset, legacyKubauthNs |-> Unset, oidcProvisioning |-> Unset,
   identityProvisioning |-> Unset, provider |-> Unset, keycloakIssuer |-> Unset, keycloakSecret |-> Unset,
   keycloakSecretNs |-> Unset, identityProvider |-> Unset]

LoginContext(a, i, u, o, p) ==
  [NoContext EXCEPT !.identityAuthority = a, !.identityClientId = i, !.oidcIssuerUri = u, !.oidcClientId = o, !.provider = p]

LoginContexts ==
  {LoginContext(a, i, u, o, p) : a \in {Unset, "A"}, i \in {Unset, "one"}, u \in {Unset, "A", "B"},
                                 o \in {Unset, "one", "two"}, p \in {Unset, "none", "keycloak"}}

ProvisioningContext(n1, n2, n3, o, i, p, k) ==
  [NoContext EXCEPT !.identityKubauthNs = n1, !.oidcKubauthNs = n2, !.legacyKubauthNs = n3, !.oidcProvisioning = o,
                    !.identityProvisioning = i, !.provider = p, !.keycloakIssuer = k.issuer,
                    !.keycloakSecret = k.name, !.keycloakSecretNs = k.namespace]

KeycloakBlocks == [issuer : {Unset, "bare", "realm"}, name : {Unset, "s"}, namespace : {Unset, "n"}]

ProvisioningContexts ==
  {ProvisioningContext(n1, n2, n3, o, i, p, k) :
     n1 \in {Unset, "n"}, n2 \in {Unset, "n"}, n3 \in {Unset, "n"},
     o \in {Unset, "existing", "kubauth", "dcr", "keycloack"}, i \in {Unset, "kubauth"},
     p \in {Unset, "none", "kubauth", "keycloak", "keycloack"}, k \in KeycloakBlocks}

Servers == {[state |-> "open"], [state |-> "verifying", issuer |-> "A", client |-> "one"]}

Tokens ==
  [issuer : {"A"}, genuine : {TRUE}, client : {"one", "two"}, aud : {{}, {"one"}}]
    \cup {[issuer |-> "B", genuine |-> TRUE, client |-> "one", aud |-> {}],
          [issuer |-> "A", genuine |-> FALSE, client |-> "one", aud |-> {"one"}]}

Requests ==
  [route : {"health", "capabilities", "plain", "identity", "secretstores", "externalsecrets", "project"},
   method : {"GET", "OPTIONS"}, name : {"n"}, header : {"none", "basic", "bearer"}, token : Tokens]

WorldContexts ==
  {[NoContext EXCEPT !.identityProvider = p, !.oidcProvisioning = o] :
     p \in {Unset, "external", "kubauth"}, o \in {Unset, "keycloack"}}

Worlds ==
  [readable : BOOLEAN, context : WorldContexts,
   crds : {{}, {"kubauth"}, {"secretstores"}, {"kubauth", "secretstores", "externalsecrets"}},
   namespaces : [{"n"} -> {"absent", "unlabelled", "project", "error"}]]

Init ==
  \/ input \in [kind : {"services"}, value : URLWorlds \cup PodWorlds \cup MetricWorlds \cup EventWorlds]
  \/ input \in [kind : {"bindings"}, value : Bindings]
  \/ \E update \in BOOLEAN, existing \in ExistingSecrets :
       \/ \E v \in DatabaseValues :
            input = [kind |-> "connection", contract |-> DatabaseServer,
                     value |-> [update |-> update, existing |-> existing, values |-> v]]
       \/ \E v \in S3Values :
            input = [kind |-> "connection", contract |-> S3,
                     value |-> [update |-> update, existing |-> existing, values |-> v]]
  \/ input \in [kind : {"connections"}, value : OneEach, contract : ContractFilters]
  \/ input \in [kind : {"consumers"}, value : [effective : Upto(NamespacedRefs, 2), watched : Upto(NamespacedRefs, 2)]]
  \/ input \in [kind : {"store"}, value : StoreRequests]
  \/ input \in [kind : {"external"}, value : ExternalRequests]
  \/ input \in [kind : {"conditions"}, value : Upto(Conditions, 2)]
  \/ input \in [kind : {"segment"}, value : Segments]
  \/ input \in [kind : {"title"}, value : Titles]
  \/ input \in [kind : {"document"}, value : Documents]
  \/ input \in [kind : {"registry"}, value : RegistryWorlds]
  \/ input \in [kind : {"context"}, value : LoginContexts \cup ProvisioningContexts, crds : {{}, {"kubauth"}}]
  \/ input \in [kind : {"request"}, server : Servers, world : Worlds, value : Requests]

Next == UNCHANGED input

Spec == Init /\ [][Next]_input

Of(kind) == input.kind = kind

(* setURLIfExposed: no two services of a project are shown with one URL.      *)
URLsDistinct == Of("services") => URLsDistinctIn(input.value)

(* ListServices, GetService and StreamServices say the same of a service.     *)
ViewsAgree == Of("services") => ViewsAgreeIn(input.value)

(* checkPodHealth: a ready service shows as failed exactly when a pod of its  *)
(* page fails.                                                                *)
HealthMatchesPods == Of("services") => HealthMatchesPodsIn(input.value)

(* GetProjectMetrics and GetServiceMetrics give the same numbers.              *)
MetricsAgree == Of("services") => MetricsAgreeIn(input.value)

(* latestWarningMessage is that of the latest warning about the service.      *)
WarningIsLatest == Of("services") => WarningIsLatestIn(input.value)

(* boundConnections shows each name once, resolved where it resolved.         *)
ConnectionsSummed == Of("bindings") => ConnectionsSummedIn(input.value)

(* Create and Update store coherent values only.                              *)
StoredCoherent == Of("connection") => StoredCoherentIn(input.contract, input.value)

(* Update with what List shows stores the same values.                        *)
ConnectionEditUnchanged == Of("connection") => ConnectionEditUnchangedIn(input.contract, input.value)

(* Test accepts and tries what Create stores.                                 *)
TestTriesStored == Of("connection") => TestTriesStoredIn(input.contract, input.value)

(* ListSelectable offers what exactly one of List and ListInternal shows.     *)
OfferedShownOnce == Of("connections") => OfferedShownOnceIn(input.value, input.contract)

(* ListConsumers and the connections of a service tell the same bindings.     *)
ConsumersAgree == Of("consumers") => ConsumersAgreeIn(input.value, "p")

(* UpdateSecretStore of what GetSecretStore shows rebuilds the same object.   *)
StoreEditUnchanged == Of("store") => StoreEditUnchangedIn(input.value)

(* UpdateExternalSecret of what GetExternalSecret shows rebuilds the same.    *)
ExternalEditUnchanged == Of("external") => ExternalEditUnchangedIn(input.value)

(* validateExternalSecretRequest lets no key of a Secret have two sources.    *)
KeysMappedOnce == Of("external") => KeysMappedOnceIn(input.value)

(* The status endpoints show an error exactly when the object is not fine,    *)
(* and the two kinds of objects agree on it.                                  *)
StatusExplained == Of("conditions") => StatusExplainedIn(input.value)

(* splitOptions cuts at the spaces outside quotes, all of them when the       *)
(* quotes do not match.                                                       *)
OptionsAreRuns == Of("segment") => OptionsAreRunsIn(input.value)

(* parseTitleMetadata gives back what a title was written from.               *)
TitleRoundTrip == Of("title") => TitleRoundTripIn(input.value)

(* The inputs of a package do not depend on the order of a Go map, and offer  *)
(* each connectionRef under its name.                                         *)
InputsDetermined == Of("document") => InputsDeterminedIn(input.value)

(* listOCITags lists what some authorization that can be had would be served. *)
ReadableListed == Of("registry") => ReadableListedIn(input.value)

(* What checkIdentityConfiguration accepts, DeleteClient can act on, but for  *)
(* a Keycloak issuer without a realm or a Secret without a namespace.         *)
AcceptedCanCleanUp == Of("context") => AcceptedCanCleanUpIn(input.value, input.crds)

(* buildTokenVerifier accepts the tokens the console is told to get.          *)
ConsoleAccepted == Of("context") => ConsoleAcceptedIn(input.value, input.crds)

(* RequireAuthentication comes before every guard that looks at the cluster.  *)
StrangersLearnNothing ==
  Of("request") => \A w \in Worlds : StrangersLearnNothingIn(input.server, input.world, w, input.value)

(* RequireProject: routes below a project run for projects only.              *)
OnlyProjectsServed == Of("request") => OnlyProjectsServedIn(input.server, input.world, input.value)

(* Where GetCapabilities answers, it offers user management exactly if its    *)
(* routes answer.                                                             *)
CapabilityHonest == Of("request") => CapabilityHonestIn(input.server, input.world, input.value)

(* Saving what a GET showed, unchanged, changes nothing: connections, secret *)
(* stores and external secrets.                                              *)
EditUnchanged == ConnectionEditUnchanged /\ StoreEditUnchanged /\ ExternalEditUnchanged

(* What is shown of services, connections and stores is true of the objects, *)
(* and the same on every page.                                               *)
ViewsTrue ==
  /\ URLsDistinct /\ ViewsAgree /\ HealthMatchesPods /\ MetricsAgree /\ WarningIsLatest
  /\ ConnectionsSummed /\ OfferedShownOnce /\ ConsumersAgree /\ StatusExplained

(* What is stored of a form hangs together, and is what was tested.          *)
FormsCoherent == StoredCoherent /\ TestTriesStored /\ KeysMappedOnce

(* Titles, inputs and tags are read out of a package as its author put them. *)
PackagesUnderstood == OptionsAreRuns /\ TitleRoundTrip /\ InputsDetermined /\ ReadableListed

(* The way in: what start-up accepts works later, and the guards let through *)
(* and tell what they should.                                                *)
AccessSound ==
  AcceptedCanCleanUp /\ ConsoleAccepted /\ StrangersLearnNothing /\ OnlyProjectsServed /\ CapabilityHonest
=============================================================================
