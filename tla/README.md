# Verification of the OKDP control plane server

The server (`src/cmd`, `src/internal`) is an HTTP API in front of Kubernetes: a
request becomes a sequence of calls to the API server, a package registry or an
identity provider, and several requests, controllers and administrators with
kubectl work on the same objects at once. What is hard in it is mostly what happens
*between* two calls: a check that is stale when it is used, a step of several that
fails, an answer that is lost, a cache that is behind, a name that somebody else has
taken. Around that there is a good deal of pure computation on which two paths have
to agree: a form and what is stored of it, a list and a page, what is advertised and
what is served. This project models both in TLA+, model-checks them with TLC and
proves the main results with TLAPS.

## Inventory

| Component | State | Operations | Hard part | Modules |
|---|---|---|---|---|
| Feature probe (`repository/api_availability.go`) | cached answer, in-flight channel | `Available` | single flight, waiters, negative cache | `ApiProbe`, `FeatureGate` |
| Connections (`service/connection_service.go`, `repository/connection_repository.go`, `service/contract_catalog.go`) | `Connection` objects, credential Secrets | create, update, delete, list, test | two objects without a transaction; whose Secret it is; managed connections; what a form means | `Connections`, `ConnectionForms` |
| Service catalog (`service/service_service.go` 112-273, `repository/context_writer_repository.go`, `repository/context_repository.go`) | the Context object, a 5 s cache | list, add, update, remove | check on a cache, read-modify-write with retries, invalidation | `Catalog` |
| Service instances (`service/service_service.go`, `repository/service_repository.go`, `api/handlers/service_handler.go`) | `Release` objects, OIDC clients, pods and volumes of users | deploy, update parameters, delete, list, stream, metrics, events | clean-up by name after the release is gone; one service seen on several paths | `Releases`, `ServiceView` |
| Secret stores, external secrets (`service/secret_store_service.go`, `service/external_secret_service.go` and their repositories) | External Secrets objects, `<name>-credentials` Secrets, a default label | create, update, delete, status | the Secret shared with connections, one default store, order of the writes | `SecretStores`, `ExternalSecrets`, `SecretForms` |
| Identity (`service/identity_service.go`, `repository/identity_repository.go`) | `User`, `GroupBinding` objects | create, update, edit, delete | one call per binding, errors passed over, ambiguous names | `Identity` |
| Package schemas and versions (`service/package_schema_service.go`, `service/registry_credentials.go`) | schema cache with a shared flight, tags cache | schema, inputs, versions | concurrent fetches, cache keys, titles, registry challenges | `PackageSchema`, `PackageVersions`, `PackageDoc` |
| Spark applications (`service/spark_service.go`, `repository/spark_repository.go`) | `SparkApplication` objects | submit, submit YAML, update, delete | update under the version read, defaults that depend on each other | `SparkApps` |
| Logs (`api/handlers/service_handler.go`, `spark_handler.go`) | a goroutine and two channels per request | follow | leaks, the order of close and error | `LogStreams` |
| Projects, project stream (`service/project_service.go`, `repository/project_repository.go`, `api/handlers/project_handler.go`) | labelled namespaces | create, update, delete, stream | label checked before use, a view rebuilt from events | `Projects` |
| Authentication, guards, capabilities, start-up (`auth`, `api/middleware`, `api/router`, `service/capability_service.go`, `cmd/server/main.go`) | configuration read from the Context | verify, guard, advertise | order of guards, two layouts of one setting | `Access` |

Requests meet in the API server (shared objects), in the process (the caches and
their mutexes) and through controllers: KuboCD publishes managed connections from
releases, External Secrets projects Secrets and writes status, the Spark operator
writes status and removes applications, hubs spawn pods and volumes of users.
`PROJECT.json` lists every component with its status and every hazard at its line.

## Modules

Common to the modules of requests: one action per API call, so that everything
another actor does can fall between two calls; every call may fail; an action ends a
handler wherever the code returns. Kubernetes' optimistic locking is kept without
counting versions: a request that has read an object holds its current version until
somebody writes it, and a write under a version that is no longer held conflicts.
History variables record why a state is what it is (`debris`, `contended`,
`removed`, `floor`); no action reads them. An operator `X_Variant` with the comment
"Mutant:" is `X` with a plausible mistake, used by the mutants of `PROJECT.json` only.

* `ApiProbe` (with `FeatureGate`, the abstract latch it refines): each critical
  section of `Available` is an action, the discovery call between them another.
  A channel is named by the goroutine that made it. `served` is the cluster,
  `checked` the TTL. `evidence` and `owed` are history variables.
* `Connections`: create, update and delete. Objects keep what decides something:
  contract, `secretRef`, the two credentials annotations, the managed mark; a Secret
  its label and keys. `Publish`, `Withdraw` (release controller) and `Project`
  (foreign Secrets) are external. With `LostAnswers` a failed create may have been
  applied. `debris`: the Secrets whose deletion is known to have failed.
* `ConnectionForms`: `Normalize` and `Validate` of the contract catalog on the
  descriptors of databases and object storage, the values that `Create` and `Update`
  store, `Test` up to its probes, what `List`, `ListInternal`, `ListSelectable` and
  `ListConsumers` show. A JSON value is its type and its content.
* `Catalog`: the cached reader (`CacheHit`, `CacheMiss`, `Fetch`, `Store` under
  `r.mu`), the checks of the service, and `mutateCategories` as `GetContext`,
  `PutContext`/`PutConflict` and `Invalidate`. Sections and order between services
  are layout; a service keeps its entries, so a duplicate is visible. `known`,
  `floor` and `seen` are history: which version a client has been shown.
* `Releases`: deploy, update and delete of service instances. A name is its sequence
  of dash-separated segments, so the prefix tests of `ownsByName` are prefix tests on
  sequences. A spec is a service, a tag and a value of its parameters; `Valid` is what
  the schemas accept. A deleted Release stays (`terminating`) until the controller has
  taken it down (`Finalize`). `Register` (OIDC clients) and `Spawn` (pods and volumes
  of users, objects of the chart) are external and go on between the calls of a
  clean-up. A cancelled request, or a crash, during a clean-up is the case in which
  every remaining call fails. `settled`: the releases that have been there since a
  request deleted its own.
* `ServiceView`: what is shown of a service, as operators on a record of the objects
  of a namespace: status, URL (candidate hosts, role aliases, labels of ingresses),
  health, pods, metrics, warning events, bound connections, on the paths of the list,
  the page and the stream.
* `SecretStores`: `CreateSecretStore`, `UpdateSecretStore`, `DeleteSecretStore` call
  by call: the credentials, the default label (one call per labelled store), the
  store. A Secret is a store's, a connection's or absent. For the names in `Shared`
  there may be a connection too: `ConnectionWrites` is its `CreateOrUpdateSecret`, which
  refuses a Secret that is not labelled as its own, `ConnectionDrops` its `DeleteSecret`,
  which deletes by name whatever is there; `bound` are the names the connection service
  counts as its own, `taken` (history) the stores that lost their token that way.
  `ControllerWrites` is external. `ExternalSecrets` extends it: jobs that look the
  store up and write the `ExternalSecret`, over the same stores. `SecretForms`:
  validation, the object built from a request, what is shown of an object, status.
* `Identity`: users and bindings. A create writes the user and binds group by group;
  an update reads the hash, writes under a version it fetches anew, and syncs the
  groups by the difference; an edit is the console's GET (the user, 404 if there is none,
  then the bindings, whose failure shows no groups) followed by its PUT; a delete
  removes the bindings first. Names are sequences of segments, so `<user>-<group>` is
  concatenation and two pairs may share a name.
* `PackageSchema`: `load` and `fetchAndCache` for one key of the cache: lookup, the
  shared flight, the second look at the cache, the dump (which may fail), the caching.
  The catalog may name another repository and a repository may serve another artifact
  meanwhile. `PackageVersions`: requests that run at once on one tags cache, each
  `ListVersionsForServices` with its goroutines, buffered channel and reader, or
  `GetServiceVersions` with one lookup; looking at the cache, fetching and storing are
  three actions. `PackageDoc`: the grammar of parameter
  titles (text is a sequence of the characters that are told apart), the inputs of a
  package, the challenge flow of `registryGet`.
* `Projects`: create, update and delete of namespaces, administrators who label,
  unlabel, delete and make namespaces, and `StreamProjects` with a console that
  rebuilds its list from the events. A watch begins with the projects there are, in any
  order; with a label selector it turns the loss of the label into a deletion. A
  namespace has no label, an empty one or one with a value: the selector asks for its
  existence, `Get` for a value. The time a namespace spends terminating is left out.
* `SparkApps`: one application; where each setting of its `sparkConf` came from
  (user or server) is its state.
* `LogStreams`: the scanning goroutine, the unbuffered channel (a send is the
  rendezvous `ServeLine`), the channel of the scan error, the context.
* `Access`: the readers of identity in the Context, the checks of start-up, token
  verification with signature and expiry as a verdict, the guards of the routes as
  a sequence of answers, the first of which that is not "go on" is the response, and
  `GetCapabilities` with its errors.
* `*_proofs`: the theorems, of the module of the name; `Secrets_proofs` is about
  `ExternalSecrets` and the `SecretStores` it extends, `Platform_proofs` and
  `Forms_proofs` about the components of `MC_Platform` and the operators of `MC_Forms`.
  `MC_*`: the modules TLC runs. `MC_Platform` puts five
  components that share nothing into one run, each behaviour exercising one of them.
  `MC_Forms` has one input per behaviour and evaluates the pure operators on it.

## Runs

| Run | Bounds | Shows |
|---|---|---|
| `api_probe` | 3 callers, 2 required CRDs that come and go, 1 failing discovery call | single flight, nobody who waited for a positive probe is told the CRDs are missing, refinement of the write-once latch; under fairness every caller is answered and an install takes effect |
| `connections_sequential` | 1 request, 2 names, 2 contracts (one without credentials), 2 fields | credentials are bound, orphans are known, managed connections unedited, edits keep the credentials that were stored, whichever call fails |
| `connections_concurrent` | 2 requests on 1 name, lost answers | the guarantees that need no serialisation |
| `connections_rollback` | 2 requests on 1 name | violation, see "Disagreements" |
| `catalog` | 2 requests, 2 services, 2 versions, 2 tries, kubectl edits, lost answers | monotone reads, no clobbering |
| `catalog_one_writer` | 1 writer and 1 reader, 1 name, 2 entries, 3 versions, 5 tries, edits of the rest of the Context | unique names, stored updates, and the liveness of readers and writers |
| `releases_update` | 2 requests, 1 instance, 2 services, 2 tags, 2 values of which one combination is invalid | stored specs are valid as a whole, updates stay with the release they read |
| `releases_delete` | 2 requests, instances `jupyter` and `jupyter-ds`, a user's and a chart's object, at most 2 objects at once | settled neighbours are spared, leftovers are known |
| `secrets` | 2 stores, one of which shares its name with a connection, 1 external secret, 2 store requests and 1 job of which at most 2 start | token stores keep their token and no token is left over, except for a cause that is named; one default; refused requests leave no trace; external secrets refer to a store that has been there; a connection's Secret is spared by updates |
| `identity` | 2 requests, 2 users and 2 groups two of whose bindings share a name, 2 passwords | memberships are those asked for, none without its user, none taken from another user; passwords and groups survive edits that do not touch them |
| `platform` | 2 callers, 2 repositories, 2 artifacts; 2 services, a request that lists both beside one for either; 2 namespaces, 2 requests, 2 administrative changes; 2 requests on one application; 3 lines of log | shared dumps, delivered results, released waiters, spared foreigners, converging views, composed edits |
| `forms` | about 190 000 inputs of 13 kinds | edits of what was shown change nothing, views agree, forms, packages and guards do what they should |

The properties of a run are conjunctions where several parts make one statement; the
parts keep their own names and comments in the modules, and each part has a mutant.

| Property | Parts |
|---|---|
| `CredentialsAccounted` (connections) | `CredentialsBound`, `NoUnknownOrphan` |
| `EditsTakeNothing` (connections) | `ManagedNeverEdited`, `EditKeepsCredentials` |
| `WritesStored`, `CatalogSettles` (catalog) | `NamesUnique`, `UpdateStored`; `RequestsEnd`, `StaleEnds` |
| `NoUnknownLeftover` (releases) | `NoUnknownOrphan`, `NoUnknownClient` |
| `StoresUsable` (secrets) | `TokenStoreHasToken`, `OneDefault` |
| `FailuresContained` (secrets) | `NoLeftoverToken`, `RejectedHarmless` |
| `UpdatesTakeNothing` (secrets) | `AccountKept`, `ConnectionSecretSpared` |
| `ChangesAsAsked` (identity) | `MembershipAsAsked`, `EditKeepsGroups`, `PasswordKept` |
| `DumpsShared` (platform) | `OneDump`, `NoRedundantDump`: one child process per package, none while the cache is good; `StalenessBounded`: a caller that was not served by an older entry or flight sees what was published when it asked |
| `ChannelsDeliver` (platform) | `Faithful` (logs: every line in order, the error event last and exactly when the log broke), `VersionsComplete`, `EventsComplete` (project stream: the events under way are all the console lacks) |
| `ForeignSpared` (platform) | `ForeignNotEdited` (the update carries the version read), `ForeignNotDeleted` (the delete does not: the namespace may have changed since the read, and only then) |
| `DefaultsComplete` (platform) | `UserSettingsKept`, `EventLogMounted` |
| `WaitersReleased` (platform) | `CallsAnswered`, `ListingReturns`, `NoGoroutineLeak`, `StreamEnds` |
| `EditUnchanged` (forms) | `ConnectionEditUnchanged`, `StoreEditUnchanged`, `ExternalEditUnchanged` |
| `ViewsTrue` (forms) | `URLsDistinct`, `ViewsAgree`, `HealthMatchesPods`, `MetricsAgree`, `WarningIsLatest`, `ConnectionsSummed`, `OfferedShownOnce`, `ConsumersAgree`, `StatusExplained` |
| `FormsCoherent` (forms) | `StoredCoherent`, `TestTriesStored`, `KeysMappedOnce` |
| `PackagesUnderstood` (forms) | `OptionsAreRuns`, `TitleRoundTrip`, `InputsDetermined`, `ReadableListed` |
| `AccessSound` (forms) | `AcceptedCanCleanUp`, `ConsoleAccepted`, `StrangersLearnNothing`, `OnlyProjectsServed`, `CapabilityHonest` |

Most of those of `forms` relate two paths of the code: what is stored when the response of a GET
is sent back unchanged, what the list and the page say of one service, what the test
button tries and the save stores.

**Bounds.** Three callers give a prober, a waiter and a latecomer at once; two
requests on one name are enough for every check-then-act pair of the code, which
never involves a third party that the environment actions do not already play. Two
fields separate "all credentials" from "some". Two versions make a read stale and a
retry necessary. Two instances whose names extend each other, both being deleted, are
the case `ownsByName` is about; one object of each is enough to take the wrong one
(`MaxObjects` = 2), and one parameter and a tag are enough for two valid edits that
do not combine. `MaxTries` is 5 in client-go; 2 already has a retry and an exhaustion.
Two stores are one to be the default before and one after; stores and users start in
every combination that finished requests leave, which is why few requests suffice
(`MaxRequests` = 2 of stores and external secrets together). Of the two names one is
`Shared` with a connection; the store of the other is there to be the other default, so
`SomeAsks` sends it the requests that concern the default and a delete only, and the
external secret there is at the start reads from it (`StartsFew`). A listing of
both services (`Listings`) beside a request for one (`Singles`) has two goroutines in one
channel and two requests between the fetch and the caching of one service. The users `a` and `a-b` with the groups `c` and `b-c` have two bindings
called `a-b-c`. One artifact more than the first (`MaxVersion` = 1, `MaxPublished` = 1)
makes a document old; three lines make a gap or a swap visible; two administrative
changes unlabel and relabel. Symmetry is used in runs without liveness only.

**Deadlock** is checked except where requests run once and the system may come to
rest: `secrets`, `identity`, `platform`.

**Fairness.** A goroutine that can run does (WF on the steps of a request, of a
lister, of the scanner and of the handler of a stream). API server, registry and
discovery either answer or fail: the requests carry no deadline of their own, so this
is an assumption about them; the dump of a package alone has one (`dumpTimeout`).
net/http ends the context of a handler that returned (WF on `CancelContext`), and a
`select` whose context is done is served (WF on `Leave` then). `r.mu` is acquired
under strong fairness: Go's `sync.Mutex` hands itself to a waiter that has starved for
1 ms. Time passes (WF on `Expire` in `Catalog`). Nobody has to send requests, install
CRDs, publish artifacts, edit the Context or leave.

**What is excepted.** Some properties hold only while one request at a time works on
an object, as a console in one hand does; the modules record where that was not so
(`contended`, `raced` in `SecretStores` and `Identity`) and the properties except
these objects; in `Identity` also the users one of whose bindings has the name of a
binding of such a user, since a binding is deleted by its name. The races themselves are behaviours of the models: an update to token
authentication may lose its token to a concurrent update away from it; a password
changed between the read of the hash and the write of another update is reverted; a
binding made during a delete outlives the user; a binding found by its user may have
changed hands by the time it is deleted by name. Others except an error the code passes
over on purpose, each the one it is about: a default label that could not be removed
(`labelLeft`, `OneDefault`), a Secret that could not be deleted (`secretLeft`,
`NoLeftoverToken`), `ignored`, `HalfDeleted`. `TokenStoreHasToken` and
`ConnectionSecretSpared` except the stores whose token the connection service has deleted
(`taken`). `ForeignNotDeleted` excepts the race of its hazard: a namespace that changed
between the check and the delete goes with it, since the delete carries no precondition.
`EditsCompose` is about the image and the configuration of an application; which fields
of a YAML submission the form of an edit does not know is not its subject.

## Disagreements between code and documentation

Shown by a run:

* `RollbackSparesBound` (`connections_rollback`): a create that fails with anything
  but AlreadyExists deletes the Secret, also when a concurrent create has bound it, or
  when the error was a lost answer and its own Connection exists.

Met while modelling. The models have these behaviours, the properties are stated
around them:

* Deleting a connection decides from its annotations whether the Secret is its own;
  without annotations the naming convention decides, against the comment "The name is no
  guide" (`connection_service.go:325-329`), and the label of the Secret that is deleted
  is not looked at (`connection_repository.go:253`). A secret store of the same name may
  have overwritten the Secret: deleting the connection, pointing it elsewhere or undoing
  its creation (`connection_service.go:339`, `:299`, `:228`) then takes the store's token,
  and the name is free for the next connection, whose credentials an update of the store
  away from the token deletes. `TokenStoreHasToken` and `ConnectionSecretSpared` name
  these stores (`taken`).
* A listing of versions may answer tags older than those the registry had when it was
  asked, although the cache had nothing young: another request stores as young what it
  fetched earlier (`package_schema_service.go:154-158`). `VersionsComplete` counts what
  others have fetched and not yet stored among what was at hand.
* An edit that sends one credential of a connection on an existing Secret binds it to
  a new Secret that has only that one (`connection_service.go:274`), while
  `contract_catalog.go:33` has blank credentials left as they are. `EditKeepsCredentials`
  holds for connections on a Secret of their own.
* Two concurrent POSTs of one catalog service both succeed
  (`context_writer_repository.go:123`; `docs/proposals/catalog-management.md:86`).
  `NamesUnique` is checked with one writer. Likewise a PUT that races a DELETE answers
  200 and stores nothing (`UpdateStored`).
* An instance whose name extends that of a deleted one and that is deployed after the
  clean-up has listed the survivors loses its pods and volumes
  (`service_service.go:521`; `service_cleanup_test.go:11-13`).
  `SettledNeighboursSpared` says it of the others.
* Updating a user puts the login of the path over the display name
  (`identity_handler.go:115`; `models/identity.go:5`, `identity_service.go:210`).
* The connectivity test does not drop `secretRef`, which the values of a stored
  connection contain, and refuses it as an unknown field
  (`connection_service.go:376`, against the comment above it). `TestTriesStored` is
  about forms without it.
* Issuer and client id are read from the two layouts of the Context in opposite orders
  (`context_repository.go:340`, "mirrors GetOidcIssuer's two layouts"): a Context with
  both can give the issuer of one and the client of the other. `ConsoleAccepted` is
  about Contexts that name one client.
* Two Keycloak blocks pass the check at start-up (`main.go:195`, "a platform accepted
  here is a platform whose clients really get unmade", and `:202`) and fail at the first
  clean-up: an issuer without `/realms/` (`keycloak.go:186`), and a credentials Secret
  without namespace, which `context_repository.go:403` reads and does not ask for and
  `connect` then looks up nowhere (`keycloak.go:55`, `:140`). `AcceptedCanCleanUp` states
  that the clean-up fails for these two and for nothing else.
* A Context that can be read but whose `clientProvisioning` is not valid has
  `/api/capabilities` answer 500 (`capability_service.go:58-61`) while the identity routes,
  which do not read it, go on answering. Start-up refuses it, so it takes an edit of the
  Context afterwards. `CapabilityHonest` covers both cases.
* A namespace whose project label has an empty value is listed and streamed, the selector
  asking for the key only, and is answered 404 when it is read, changed or deleted.
* A create of a secret store under a name that is taken answers 409 after it has
  replaced the token of the existing store and removed the default label
  (`secret_store_service.go:73-96`). `RejectedHarmless` is about 400 and 404.

## Proofs

The invariants the proofs rest on (the typed state, `WaitsForOpenChannel`, `Published`,
`Evidence`, `SnapshotCurrent`, `RefAgrees`, `OneFetch`, `CacheKnown`, `BaseCurrent`) are
theorems, and so not checked by the runs. All theorems hold for any number of requests,
names, services, stores, users and callers, and logs of any length.

* `ApiProbe_proofs`: the inductive invariant is the conjunction of the typed state,
  `SingleFlight`, `WaitsForOpenChannel`, `Published` and `Evidence`. `Published` is
  the strengthening: a discovery call is in flight only while the answer is
  negative, hence no probe overwrites a positive answer, hence `PositiveIsSticky`,
  `NoTransientMissing` and the refinement of `FeatureGate`.
* `Connections_proofs`: `Inv` adds to the typed state what the place of a request in
  its handler says of its locals (`RequestsOK`), `SnapshotCurrent` (a request that
  passes the version check has read the current keys) and `ObjectHeld` (the object
  whose UID an edit holds is there and unmanaged). From these follow
  `ForeignNeverWritten`, `MergeKeepsKeys`, `ManagedNeverRewritten` and `RefAgrees`.
  `CredentialsAccounted` and `EditsTakeNothing` are proved under `OneAtATime` (one
  request at work, no lost answers: the setting of `connections_sequential`, with any
  names, contracts and fields, managed connections and foreign Secrets coming and going
  meanwhile). `OneInv` adds that an owned Secret has the name of its connection
  (`OwnersNamed`), that a Secret of ours has an owner, is debris or belongs to the
  request (`SecretsAccounted`), and `Held`: what the request has read is still so at its
  later calls, since the controllers touch neither a connection of the server's own nor
  its Secret.
* `Catalog_proofs`: `ReadsMonotone` is not inductive; `ShownOK` is the
  strengthening: a version that a client has been shown, or is about to be shown,
  is behind the Context, the cache and every fetch under way. That needs
  `OneFetch`: `Invalidate` cannot get between a fetch and its caching.
  `BaseCurrent` gives `NoClobber`. `WritesStored` is proved under `OneWriter` (one
  writer of the catalog, no lost answers, edits of the rest of the Context only: the
  setting of `catalog_one_writer`, with any number of readers). Its strengthening,
  `CopiesCurrent`, says that every cached or fetched copy has the catalog as it is,
  unless the writer has still to invalidate the cache; the writer's decision on such a
  copy (`Decided`) is then still right when it writes.
* `Releases_proofs`: `SettledNeighboursSpared` needs that a settled neighbour is
  still a release when the survivors are listed (`SettledPresent`), is among `others`
  from then on and that whatever is doomed passed `ownsByName` (`RequestOK`), and
  that objects start with the name of their maker (`NamedAfterMaker`).
  `ServiceNeverChanges` needs `ReleaseHeld`: the Release whose UID an update holds
  is there and of the service the update read. `NoUnknownLeftover` is strengthened to
  `Accounted`, which speaks of a release from the moment it is *terminating*: an object
  or a client of it is debris, or some request is at a place in its clean-up from which
  it still comes to it. Only so does the property survive `Finalize`.
* `Secrets_proofs`: `SInv` ties each store to its Secret and to the requests at work on
  it. A request that is not contended finds the store and the Secret as it left them
  (`Held`), unless the connection service has deleted the token (`taken`, which is why it
  is in the invariant and not only in the properties); a token nobody uses is explained by a request that has stored it and not
  yet used it, or failed (`LeftExplained`); at most one store is the default, and none
  once a request has cleared the label to set it (`DefaultsHeld`). `JInv` says of a job
  about to write an external secret that the store it names is there or was removed
  since. `UpdatesTakeNothing` follows step by step.
* `Identity_proofs`: `IInv` has, for a request on a user nobody else works on, both
  bounds of the membership: the user is in no group but those wanted and those still to
  be dropped (`Upper`), and in all of them but those still to be added (`Lower`). The
  binding about to be deleted by name is the user's and not wanted (`TargetHeld`), and a
  binding carries the name of its user and group (`Named`). Who else is at work on the
  user is in `contended` (`NoOverlap`).
* `Platform_proofs`: the five components of `MC_Platform` share nothing. `EachAsAlone`
  shows that in the composition each behaves as it does alone, which carries what is
  proved of each over to it (`PlatformTypeCorrect`, `ChannelsDeliverHolds`,
  `PlatformSafe`).
  * `DumpsShared` rests on `PkgInv`. `StalenessBounded` alone is
    not inductive: an answer comes from the cache or from another caller's dump, so
    `DumpedSince` says of a caller that was not served by an older entry or flight that
    *whatever it can still be answered with* (the fresh entry, a document about to be
    cached) was dumped after it started. Starting such a caller keeps this because
    `OneDump` ties the dumping caller to the flight: no flight, no dump under way.
    `FloorServed` (what was published stays published) covers the dump itself.
  * `ForeignSpared`: `ReadHeld`, a request that passes the version check has read the
    namespace as it is, with its label; a write to a namespace takes the version from all
    who read it. `Unanswered` tells whose step an answer is.
  * `EventsComplete` is inductive with the types (`StreamInv`): of every project the last
    event under way says what it is now. At the start of the stream this needs that the
    initial list has each project once, a pigeonhole argument on cardinalities.
  * `SparkInv` has what the place of a request says of its settings and
    of the application it read, and the settings of the application themselves:
    `DefaultsOf` computes what `WithDefaults` makes of any settings sent. `EditsCompose`
    follows because an accepted edit has read the application it writes over.
  * `Faithful`: the lines served are 1, 2, ... (`InOrder`), the scanner is one line
    ahead at most (`Paced`), and the error is in its channel before the lines are closed
    (`Drained`, `Ended`).
  * `VersionsComplete`, for any number of requests at once. Within a request (`Coherent`)
    a result is in the channel or in the map once its goroutine is done (`NoneLost`), and
    the reader starts when all are (`Waited`). Across requests (`Current`) whatever a
    lookup can still be answered with covers what was at hand when its request came: the
    registry, which only grows, a young entry (`Fresh`) and tags another request is about
    to store (`Awaits`).
* `Forms_proofs`: what the pure operators compute, for *every* input and not only the
  enumerated ones, and from that `AccessSound`, `ViewsTrue`, `EditUnchanged` and
  `FormsCoherent` of the model.
  * Loops. The code's loops are folds in the models, and a fold is a `CHOOSE` of a
    recursive function. `IteratesExist` shows that the function exists, `IteratesRun`
    that it gives the value after each turn, and `RememberRuns`, `LaterRuns`,
    `NormalizeRuns` and `AmongRuns` state this of the loops of `boundConnections`,
    `latestWarningMessage`, `Normalize` and `inputsFromMarkers`. Induction on the turns is
    induction with a *set* of numbers (`Induction`), from the well-foundedness of `<`.
  * `AccessSound` for every Context, cluster and request, invalid and unreadable Contexts
    included, by cases on the guards a route has.
  * `ViewsTrue`: the loop invariants are, for `boundConnections`, that the first k
    references are summed up (`Summed`), and for `latestWarningMessage` that what is kept
    is a latest of the first k events. `URLsAreDistinct` needs unique release names, which
    the API server guarantees, and that the host of a service is of an Ingress of its own
    (`ExposedIsOwn`). `HealthIsOfPods` holds where no name continues another, as the
    property says: the code takes the pods for the health by name and those for the list
    by label.
  * The forms of connections. `Normalize` decides each field by what it has made of the
    fields before it, so it leads to the same values when it is run again only if
    conditions and derivations look backwards. `Described` says what a contract in order
    is: `validateTypeDescriptor` accepts it, conditions and derivations look at earlier
    fields that are no credentials, a field is derived from an enum that is always asked
    for and whose options all have a value, and no field is called `secretRef`. Start-up
    checks the first part only. `DatabaseDescribed` and `S3Described` show that the
    contracts of the model are in order; the five in `service/contracts` are too. For a contract in order, of any length, the
    result of `Normalize` is `Normal` (`NormalizeIsNormal`) and normal values are a fixed
    point (`NormalizeFixed`), from which `ConnectionFormRoundTrip`, `StoredIsCoherent` and
    `TestTriesTheStored` follow.
  * For secret stores and external secrets, the form filled from the object that was built
    from a request is accepted and builds that object again, and no key of the Secret has
    two sources, with any number of mappings.
  * Of packages, `InputsAreDetermined` (any number of parameters, any order of the map)
    and `ReadableIsListed` (any registry, credentials file and service).

Assumptions: the named `ASSUME`s on constants, which say that the value for "absent" is
none of the others (`AbsentAssumption`, `ProbeAssumption`, ...), that bounds are numbers
and that names are finite in number where they are listed, and where a theorem says so
`OneAtATime` or `OneWriter`; nothing else.

Model-checked only:

* liveness (`CallersAnswered`, `InstallTakesEffect`, `CatalogSettles`, `ViewConverges`,
  `WaitersReleased`), which is out of the prover's reach;
* `OptionsAreRuns` and `TitleRoundTrip` of `PackagesUnderstood`. They are about two
  nested splits of a text of any length and the sorted runs it is compared with;
  `SelectSeq` and `SortSeq`, with which these are written, have no definition for the
  prover. Its other two parts are the theorems `InputsAreDetermined` and
  `ReadableIsListed`.

## Plan

The models are complete up to "Not modelled", and every safety property of a run but
`PackagesUnderstood` is a theorem. To complete that one, `splitOptions` and `SplitN`
would be written as loops like those of `Forms_proofs`, with the invariant that the
options so far are the runs that have ended, in order; `TitleRoundTrip` then follows from
what they make of a concatenation.

## Not modelled

* Connection testers, `TestConnection` of a secret store, the probing of the Spark
  UI, the Keycloak admin protocol, the kubocd child process: network I/O without state
  of the server's own. Where their outcome matters it is a choice of the models.
* `EnsureClient` has no caller.
* Groups as objects, and the endpoints that add or remove one membership: a group is
  written and deleted by single calls that look at nothing else, and its deletion
  leaves its bindings.
* The views of Spark applications, the other readers of the Context (ingress suffix,
  menus, profile images, Spark defaults) and the data transfer objects: field-by-field
  conversions, except the ones two paths have to agree on.
* The loops of the services' and the Spark streams, which are that of the projects'.
* Token cryptography (a library), flags, CORS, logging, wiring, swagger documents, the
  chart and mocks.
