-------------------------------- MODULE Access --------------------------------
(***************************************************************************)
(* The way to a handler: what the server reads about identity in the       *)
(* platform Context, what it checks at start-up, the verification of       *)
(* bearer tokens, and the guards of the routes in the order of the router. *)
(* A Context is a record of the fields read here; a world adds what else   *)
(* an answer depends on: whether the Context can be read, the CRDs that    *)
(* are served, and the namespaces.                                         *)
(***************************************************************************)
EXTENDS Integers, Sequences

(* A key of the Context that is missing or empty. *)
Unset == ""

(* The first of these that is set. *)
FirstSet(options) ==
  LET set == {i \in DOMAIN options : options[i] # Unset}
  IN  IF set = {} THEN Unset ELSE options[CHOOSE i \in set : \A j \in set : i <= j]

(* GetOidcIssuer *)
OidcIssuer(c) == FirstSet(<<c.identityAuthority, c.oidcIssuerUri>>)

(* Mutant: the layout of the issuer only. *)
OidcClientID_OneLayout(c) == c.oidcClientId

(* GetOidcClientID: the two layouts in the other order. *)
OidcClientID(c) == FirstSet(<<c.oidcClientId, c.identityClientId>>)

(* GetIdentityOidcConfig, what the console is told to log in with: nothing   *)
(* unless it is complete.                                                    *)
IdentityOidcConfig(c) ==
  IF Unset \in {c.identityAuthority, c.identityClientId} THEN [authority |-> Unset, clientId |-> Unset]
  ELSE [authority |-> c.identityAuthority, clientId |-> c.identityClientId]

(* kubauthNamespaceOf, "most current key first". *)
KubauthNamespaceOf(c) == FirstSet(<<c.identityKubauthNs, c.oidcKubauthNs, c.legacyKubauthNs>>)

(* GetIdentity: the mode of provisioning, and whether PlatformIdentity's     *)
(* Validate accepts it.                                                      *)
IdentityOf(c) ==
  LET declared == FirstSet(<<c.oidcProvisioning, c.identityProvisioning>>)
      mode == IF declared = Unset THEN "existing" ELSE declared
  IN  [mode |-> mode,
       valid |-> mode \in {"existing", "dcr"} \/ (mode = "kubauth" /\ KubauthNamespaceOf(c) # Unset)]

(* GetIdentityProvisioningProvider; an older block stands in for it, if that *)
(* is valid.                                                                 *)
ProvisioningFails(c) == c.provider = Unset /\ ~IdentityOf(c).valid

ProvisioningProvider(c) ==
  IF ProvisioningFails(c) THEN "error"
  ELSE IF c.provider # Unset THEN c.provider
  ELSE IF IdentityOf(c).mode = "kubauth" THEN "kubauth" ELSE "none"

(* GetKeycloakProvisioningConfig, whether it is answered; only "realm" is an *)
(* issuer of the form .../realms/{realm}.  The namespace of the Secret is    *)
(* read and not asked for.                                                   *)
KeycloakConfigured(c) == c.keycloakIssuer # Unset /\ c.keycloakSecret # Unset

(* Mutant: only kubauth is checked. *)
CheckIdentityConfiguration_KubauthOnly(c, readable, crds) ==
  IF ~readable THEN "unread"
  ELSE IF \/ ~IdentityOf(c).valid
          \/ ProvisioningProvider(c) = "kubauth" /\ ("kubauth" \notin crds \/ KubauthNamespaceOf(c) = Unset)
  THEN "fatal" ELSE "accepted"

(* checkIdentityConfiguration: a Context that cannot be read is not fatal. *)
CheckIdentityConfiguration(c, readable, crds) ==
  LET provider == ProvisioningProvider(c)
  IN  IF ~readable THEN "unread"
      ELSE IF \/ ~IdentityOf(c).valid
              \/ provider = "kubauth" /\ ("kubauth" \notin crds \/ KubauthNamespaceOf(c) = Unset)
              \/ provider = "keycloak" /\ ~KeycloakConfigured(c)
              \/ provider \notin {"none", "kubauth", "keycloak"}
      THEN "fatal" ELSE "accepted"

(* contextSelector.DeleteClient up to the call of the backend: resolve, the  *)
(* namespace of kubauth, or keycloak's connect with adminBaseURL and with    *)
(* readSecretCredentials, which finds no Secret where no namespace is given. *)
DeleteClient(c) ==
  CASE ProvisioningProvider(c) = "none" -> "none"
    [] ProvisioningProvider(c) = "kubauth" /\ KubauthNamespaceOf(c) # Unset -> "kubauth"
    [] /\ ProvisioningProvider(c) = "keycloak" /\ KeycloakConfigured(c)
       /\ c.keycloakIssuer = "realm" /\ c.keycloakSecretNs # Unset -> "keycloak"
    [] OTHER -> "error"

(* ResolveIssuer and ResolveClientID: the environment first; none is an error. *)
Resolved(override, readable, fromContext) ==
  FirstSet(<<override, IF readable THEN fromContext ELSE Unset>>)

(* main: the checks in order, then buildTokenVerifier and NewVerifier; env   *)
(* is what the environment overrides.                                        *)
StartUp(env, c, readable, crds) ==
  LET issuer == Resolved(env.issuer, readable, OidcIssuer(c))
      client == Resolved(env.client, readable, OidcClientID(c))
  IN  IF CheckIdentityConfiguration(c, readable, crds) = "fatal" THEN [state |-> "fatal"]
      ELSE IF env.disabled THEN [state |-> "open"]
      ELSE IF issuer = Unset \/ client = Unset THEN [state |-> "fatal"]
      ELSE [state |-> "verifying", issuer |-> issuer, client |-> client]

-----------------------------------------------------------------------------
(* Requests.  A token is [issuer, genuine, client, aud]: who signed it,      *)
(* whether signature and expiry hold, azp or client_id, and the audiences.   *)

(* Verify *)
Verify(server, token) ==
  /\ token.genuine /\ token.issuer = server.issuer
  /\ token.client = server.client \/ server.client \in token.aud

(* RequireAuthentication with bearerToken: 0 lets the request pass. *)
Authentication(server, req) ==
  IF req.route = "capabilities" \/ server.state = "open" THEN 0
  ELSE IF req.header = "bearer" /\ Verify(server, req.token) THEN 0 ELSE 401

(* GetIdentityProvider *)
IdentityProvider(c) == c.identityProvider

(* RequireIdentityAPI: 500 when the Context cannot be read. *)
RequireIdentityAPI(w) ==
  IF ~w.readable THEN 500
  ELSE IF IdentityProvider(w.context) # "kubauth" \/ "kubauth" \notin w.crds THEN 501 ELSE 0

(* Mutant: an error of the cluster is a project that does not exist, and a   *)
(* namespace is taken as it is.                                              *)
RequireProject_AnyNamespace(w, name) ==
  IF w.namespaces[name] \in {"absent", "error"} THEN 404 ELSE 0

(* RequireProject over Resolve: a namespace without the label is answered    *)
(* like one that is not there.                                               *)
RequireProject(w, name) ==
  CASE w.namespaces[name] = "error" -> 500
    [] w.namespaces[name] \in {"absent", "unlabelled"} -> 404
    [] w.namespaces[name] = "project" -> 0

(* RequireFeature *)
RequireFeature(w, crd) == IF crd \in w.crds THEN 0 ELSE 501

(* The guards of a route behind the authentication, in order (SetupRouter).  *)
(* "project" is what lies below /api/projects/:name; the project itself, to  *)
(* read, change or delete, is a plain route whose handlers look for the      *)
(* label themselves (Projects).                                              *)
Guards(w, req) ==
  CASE req.route = "identity" -> <<RequireIdentityAPI(w)>>
    [] req.route = "secretstores" -> <<RequireProject(w, req.name), RequireFeature(w, "secretstores")>>
    [] req.route = "externalsecrets" -> <<RequireProject(w, req.name), RequireFeature(w, "externalsecrets")>>
    [] req.route = "project" -> <<RequireProject(w, req.name)>>
    [] OTHER -> <<>>

(* A chain of guards: the first that stops the request answers it, and the   *)
(* handler, 200, if none does.                                               *)
FirstStop(codes) ==
  LET stops == {i \in DOMAIN codes : codes[i] # 0}
  IN  IF stops = {} THEN 200 ELSE codes[CHOOSE i \in stops : \A j \in stops : i <= j]

(* Mutant: the guards of the group run before the authentication. *)
Serve_GuardsFirst(server, w, req) ==
  IF req.method = "OPTIONS" THEN 204 ELSE IF req.route = "health" THEN 200
  ELSE FirstStop(Guards(w, req) \o <<Authentication(server, req)>>)

(* SetupRouter with corsMiddleware: a preflight is answered at once.         *)
Serve(server, w, req) ==
  IF req.method = "OPTIONS" THEN 204 ELSE IF req.route = "health" THEN 200
  ELSE FirstStop(<<Authentication(server, req)>> \o Guards(w, req))

(* What GetCapabilities answers of a Context it can read. *)
Offer(w, userManagement) ==
  [ok |-> TRUE,
   provider |-> IF IdentityProvider(w.context) = Unset THEN "external" ELSE IdentityProvider(w.context),
   userManagement |-> userManagement,
   oidc |-> IdentityOidcConfig(w.context), provisioning |-> ProvisioningProvider(w.context)]

(* Mutant: the CRDs are not looked at. *)
Capabilities_NoCRDs(w) ==
  IF ~w.readable \/ ProvisioningFails(w.context) THEN [ok |-> FALSE]
  ELSE Offer(w, IdentityProvider(w.context) = "kubauth")

(* GetCapabilities: 500 for a Context that cannot be read, and for one whose *)
(* clientProvisioning is not valid.                                          *)
Capabilities(w) ==
  IF ~w.readable \/ ProvisioningFails(w.context) THEN [ok |-> FALSE]
  ELSE Offer(w, IdentityProvider(w.context) = "kubauth" /\ "kubauth" \in w.crds)

-----------------------------------------------------------------------------

(* "an unsupported value or an incomplete Keycloak block would otherwise     *)
(* start fine and fail at the first client cleanup, leaving stale OIDC       *)
(* clients behind": of a Context accepted at start-up the clean-up of        *)
(* clients gets as far as its backend, but for two Keycloak blocks that the  *)
(* check lets pass, and exactly for those it fails.                          *)
AcceptedCanCleanUpIn(c, crds) ==
  CheckIdentityConfiguration(c, TRUE, crds) = "accepted" =>
    (DeleteClient(c) = "error"
      <=> ProvisioningProvider(c) = "keycloak" /\ (c.keycloakIssuer = "bare" \/ c.keycloakSecretNs = Unset))

(* The console logs in with what /api/capabilities tells it; a Context that  *)
(* does not name a second client in its older block starts a server that     *)
(* accepts the tokens so obtained.                                           *)
ConsoleAcceptedIn(c, crds) ==
  LET told == IdentityOidcConfig(c)
      server == StartUp([issuer |-> Unset, client |-> Unset, disabled |-> FALSE], c, TRUE, crds)
  IN  /\ told.authority # Unset /\ c.oidcClientId \in {Unset, told.clientId}
      /\ CheckIdentityConfiguration(c, TRUE, crds) = "accepted"
      => /\ server.state = "verifying"
         /\ Verify(server, [issuer |-> told.authority, genuine |-> TRUE, client |-> told.clientId, aud |-> {}])

(* What somebody without a token of this platform's client is answered under *)
(* /api says nothing of the cluster: it is the same in every world.          *)
StrangersLearnNothingIn(server, w1, w2, req) ==
  LET stranger == \/ req.header # "bearer"
                  \/ ~req.token.genuine \/ req.token.issuer # server.issuer
                  \/ server.client \notin {req.token.client} \cup req.token.aud
  IN  server.state = "verifying" /\ stranger /\ req.route # "capabilities"
        => Serve(server, w1, req) = Serve(server, w2, req)

(* A handler below /api/projects/:name only runs for a namespace that is a   *)
(* project; "Deliberately the same answer whether the namespace is absent or *)
(* simply not a project", and "a cluster that cannot answer is not a project *)
(* that does not exist".                                                     *)
OnlyProjectsServedIn(server, w, req) ==
  LET scoped == req.route \in {"project", "secretstores", "externalsecrets"}
      as(state) == Serve(server, [w EXCEPT !.namespaces[req.name] = state], req)
  IN  scoped /\ req.method # "OPTIONS" =>
        /\ Serve(server, w, req) = 200 => w.namespaces[req.name] = "project"
        /\ as("absent") = as("unlabelled") /\ as("error") # 200 /\ as("error") # 404

(* "advertising the capability without it would offer a section whose every  *)
(* call comes back 501": where GetCapabilities answers, it advertises user   *)
(* management exactly if the identity routes answer somebody who may use     *)
(* them; where it fails they fail too, unless the clientProvisioning, which  *)
(* they do not read, is what it fails of.                                    *)
CapabilityHonestIn(server, w, req) ==
  req.route = "identity" /\ req.method # "OPTIONS" /\ Authentication(server, req) = 0 =>
    /\ Capabilities(w).ok => Capabilities(w).userManagement = (Serve(server, w, req) = 200)
    /\ ~Capabilities(w).ok /\ IdentityOf(w.context).valid => Serve(server, w, req) = 500
=============================================================================
