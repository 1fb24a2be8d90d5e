----------------------------- MODULE Forms_proofs -----------------------------
(***************************************************************************)
(* Proofs about the pure parts, for every input and not only the ones that *)
(* MC_Forms enumerates.                                                    *)
(***************************************************************************)
EXTENDS MC_Forms, TLAPS, FiniteSetTheorems, WellFoundedInduction

-----------------------------------------------------------------------------
(* The first of a few *)

(* The least of a set of places. *)
LEMMA Least ==
  ASSUME NEW S, NEW k \in Nat, S \subseteq 1..k, NEW m \in S, \A i \in S : m <= i
  PROVE  (CHOOSE i \in S : \A j \in S : i <= j) = m
<1> DEFINE f == CHOOSE i \in S : \A j \in S : i <= j
<1>1. f \in S /\ \A j \in S : f <= j
  OBVIOUS
<1> HIDE DEF f
<1>2. f <= m /\ m <= f /\ f \in 1..k /\ m \in 1..k
  BY <1>1
<1>3. f = m
  BY <1>2
<1> QED BY <1>3 DEF f

(* The fallbacks of the Context. *)
LEMMA FirstSetAt ==
  ASSUME NEW s, NEW k \in Nat, DOMAIN s = 1..k
  PROVE  /\ \A m \in 1..k : s[m] # Unset /\ (\A i \in 1..k : i < m => s[i] = Unset) => FirstSet(s) = s[m]
         /\ (\A i \in 1..k : s[i] = Unset) => FirstSet(s) = Unset
<1> DEFINE set == {i \in DOMAIN s : s[i] # Unset}
<1>1. ASSUME NEW m \in 1..k, s[m] # Unset, \A i \in 1..k : i < m => s[i] = Unset
      PROVE  FirstSet(s) = s[m]
  <2>1. m \in set /\ (\A i \in set : m <= i) /\ set \subseteq 1..k
    BY <1>1
  <2>2. (CHOOSE i \in set : \A j \in set : i <= j) = m
    BY <2>1, Least
  <2> QED BY <2>1, <2>2 DEF FirstSet
<1>2. ASSUME \A i \in 1..k : s[i] = Unset PROVE FirstSet(s) = Unset
  BY <1>2 DEF FirstSet
<1> QED BY <1>1, <1>2

LEMMA FirstOfTwo ==
  ASSUME NEW a, NEW b PROVE FirstSet(<<a, b>>) = IF a # Unset THEN a ELSE b
<1>1. ASSUME NEW s, DOMAIN s = 1..2 PROVE FirstSet(s) = IF s[1] # Unset THEN s[1] ELSE s[2]
  <2>0. 2 \in Nat /\ 1 \in 1..2 /\ 2 \in 1..2 /\ \A i \in 1..2 : ~(i < 1) /\ (i < 2 => i = 1)
    OBVIOUS
  <2>1. CASE s[1] # Unset
    BY <1>1, <2>0, <2>1, FirstSetAt, Zenon
  <2>2. CASE s[1] = Unset /\ s[2] # Unset
    BY <1>1, <2>0, <2>2, FirstSetAt, Zenon
  <2>3. CASE s[1] = Unset /\ s[2] = Unset
    <3>1. \A i \in 1..2 : s[i] = Unset
      BY <2>3
    <3> QED BY <1>1, <2>3, <3>1, FirstSetAt
  <2> QED BY <2>1, <2>2, <2>3
<1>2. DOMAIN <<a, b>> = 1..2 /\ <<a, b>>[1] = a /\ <<a, b>>[2] = b
  OBVIOUS
<1> QED BY <1>1, <1>2, Zenon

(* The chain of guards. *)
LEMMA FirstStopAt ==
  ASSUME NEW s, NEW k \in Nat, DOMAIN s = 1..k
  PROVE  /\ \A m \in 1..k : s[m] # 0 /\ (\A i \in 1..k : i < m => s[i] = 0) => FirstStop(s) = s[m]
         /\ (\A i \in 1..k : s[i] = 0) => FirstStop(s) = 200
<1> DEFINE set == {i \in DOMAIN s : s[i] # 0}
<1>1. ASSUME NEW m \in 1..k, s[m] # 0, \A i \in 1..k : i < m => s[i] = 0 PROVE FirstStop(s) = s[m]
  <2>1. m \in set /\ (\A i \in set : m <= i) /\ set \subseteq 1..k
    BY <1>1
  <2>2. (CHOOSE i \in set : \A j \in set : i <= j) = m
    BY <2>1, Least
  <2> QED BY <2>1, <2>2 DEF FirstStop
<1>2. ASSUME \A i \in 1..k : s[i] = 0 PROVE FirstStop(s) = 200
  BY <1>2 DEF FirstStop
<1> QED BY <1>1, <1>2

(* The authentication is asked first, then the guards of the route. *)
LEMMA StopsFirst ==
  ASSUME NEW a \in Nat, NEW g \in Nat, NEW h \in Nat
  PROVE  /\ FirstStop(<<a>> \o <<>>) = IF a # 0 THEN a ELSE 200
         /\ FirstStop(<<a>> \o <<g>>) = IF a # 0 THEN a ELSE IF g # 0 THEN g ELSE 200
         /\ FirstStop(<<a>> \o <<g, h>>) =
              IF a # 0 THEN a ELSE IF g # 0 THEN g ELSE IF h # 0 THEN h ELSE 200
<1>1. ASSUME NEW s, DOMAIN s = 1..1 PROVE FirstStop(s) = IF s[1] # 0 THEN s[1] ELSE 200
  BY <1>1, FirstStopAt
<1>2. ASSUME NEW s, DOMAIN s = 1..2
      PROVE  FirstStop(s) = IF s[1] # 0 THEN s[1] ELSE IF s[2] # 0 THEN s[2] ELSE 200
  <2>0. /\ \A m \in 1..2 : s[m] # 0 /\ (\A i \in 1..2 : i < m => s[i] = 0) => FirstStop(s) = s[m]
        /\ (\A i \in 1..2 : s[i] = 0) => FirstStop(s) = 200
    BY <1>2, FirstStopAt
  <2>1. CASE s[1] # 0
    BY <2>0, <2>1
  <2>2. CASE s[1] = 0 /\ s[2] # 0
    BY <2>0, <2>2
  <2>3. CASE s[1] = 0 /\ s[2] = 0
    <3>1. \A i \in 1..2 : s[i] = 0
      BY <2>3
    <3> QED BY <2>0, <2>3, <3>1
  <2> QED BY <2>1, <2>2, <2>3
<1>3. ASSUME NEW s, DOMAIN s = 1..3
      PROVE  FirstStop(s) = IF s[1] # 0 THEN s[1] ELSE IF s[2] # 0 THEN s[2]
                            ELSE IF s[3] # 0 THEN s[3] ELSE 200
  <2>0. /\ \A m \in 1..3 : s[m] # 0 /\ (\A i \in 1..3 : i < m => s[i] = 0) => FirstStop(s) = s[m]
        /\ (\A i \in 1..3 : s[i] = 0) => FirstStop(s) = 200
    BY <1>3, FirstStopAt
  <2>1. CASE s[1] # 0
    BY <2>0, <2>1
  <2>2. CASE s[1] = 0 /\ s[2] # 0
    BY <2>0, <2>2
  <2>3. CASE s[1] = 0 /\ s[2] = 0 /\ s[3] # 0
    BY <2>0, <2>3
  <2>4. CASE s[1] = 0 /\ s[2] = 0 /\ s[3] = 0
    <3>1. \A i \in 1..3 : s[i] = 0
      BY <2>4
    <3> QED BY <2>0, <2>4, <3>1
  <2> QED BY <2>1, <2>2, <2>3, <2>4
<1> DEFINE s1 == <<a>> \o <<>>
           s2 == <<a>> \o <<g>>
           s3 == <<a>> \o <<g, h>>
<1>4. /\ DOMAIN s1 = 1..1 /\ s1[1] = a
      /\ DOMAIN s2 = 1..2 /\ s2[1] = a /\ s2[2] = g
      /\ DOMAIN s3 = 1..3 /\ s3[1] = a /\ s3[2] = g /\ s3[3] = h
  OBVIOUS
<1> HIDE DEF s1, s2, s3
<1>5. FirstStop(s1) = IF a # 0 THEN a ELSE 200
  BY <1>1, <1>4, Zenon
<1>6. FirstStop(s2) = IF a # 0 THEN a ELSE IF g # 0 THEN g ELSE 200
  BY <1>2, <1>4, Zenon
<1>7. FirstStop(s3) = IF a # 0 THEN a ELSE IF g # 0 THEN g ELSE IF h # 0 THEN h ELSE 200
  BY <1>3, <1>4, Zenon
<1> QED BY <1>5, <1>6, <1>7 DEF s1, s2, s3

-----------------------------------------------------------------------------
(* Access *)

(* Of every Context that checkIdentityConfiguration accepts, DeleteClient    *)
(* fails exactly for a Keycloak issuer that names no realm and for a Secret  *)
(* that is given no namespace.                                               *)
THEOREM AcceptedCleansUp ==
  ASSUME NEW c, NEW crds, c.keycloakIssuer \in {Unset, "bare", "realm"}
  PROVE  AcceptedCanCleanUpIn(c, crds)
<1> DEFINE p == ProvisioningProvider(c)
           ns == KubauthNamespaceOf(c)
           usable == c.keycloakIssuer = "realm" /\ c.keycloakSecretNs # Unset
<1> SUFFICES ASSUME CheckIdentityConfiguration(c, TRUE, crds) = "accepted"
             PROVE  DeleteClient(c) = "error"
                      <=> p = "keycloak" /\ (c.keycloakIssuer = "bare" \/ c.keycloakSecretNs = Unset)
  BY DEF AcceptedCanCleanUpIn
<1>1. /\ p \in {"none", "kubauth", "keycloak"}
      /\ p = "kubauth" => ns # Unset
      /\ p = "keycloak" => KeycloakConfigured(c)
  BY DEF CheckIdentityConfiguration
<1>2. p = "keycloak" => (usable <=> ~(c.keycloakIssuer = "bare" \/ c.keycloakSecretNs = Unset))
  BY <1>1 DEF KeycloakConfigured
<1> HIDE DEF p, ns
<1>3. DeleteClient(c) = CASE p = "none" -> "none"
                          [] p = "kubauth" /\ ns # Unset -> "kubauth"
                          [] /\ p = "keycloak" /\ KeycloakConfigured(c)
                             /\ c.keycloakIssuer = "realm" /\ c.keycloakSecretNs # Unset -> "keycloak"
                          [] OTHER -> "error"
  BY DEF DeleteClient, p, ns
<1>4. DeleteClient(c) = "error" <=> p = "keycloak" /\ ~usable
  BY <1>1, <1>3
<1> HIDE DEF usable
<1> QED BY <1>2, <1>4

(* Whatever Context the server starts with, the verifier it builds accepts   *)
(* the tokens of the client that GetCapabilities tells the console to use.   *)
THEOREM ConsoleIsAccepted == ASSUME NEW c, NEW crds PROVE ConsoleAcceptedIn(c, crds)
<1> DEFINE told == IdentityOidcConfig(c)
           env == [issuer |-> Unset, client |-> Unset, disabled |-> FALSE]
           server == StartUp(env, c, TRUE, crds)
<1> SUFFICES ASSUME told.authority # Unset, c.oidcClientId \in {Unset, told.clientId},
                    CheckIdentityConfiguration(c, TRUE, crds) = "accepted"
             PROVE  /\ server.state = "verifying"
                    /\ Verify(server, [issuer |-> told.authority, genuine |-> TRUE,
                                       client |-> told.clientId, aud |-> {}])
  BY DEF ConsoleAcceptedIn
<1>1. /\ c.identityAuthority # Unset /\ c.identityClientId # Unset
      /\ told.authority = c.identityAuthority /\ told.clientId = c.identityClientId
  BY DEF IdentityOidcConfig
<1>2. OidcIssuer(c) = c.identityAuthority /\ OidcClientID(c) = c.identityClientId
  BY <1>1, FirstOfTwo DEF OidcIssuer, OidcClientID
<1>3. \A x : Resolved(Unset, TRUE, x) = x
  BY FirstOfTwo DEF Resolved
<1>4. server = [state |-> "verifying", issuer |-> c.identityAuthority, client |-> c.identityClientId]
  BY <1>1, <1>2, <1>3 DEF StartUp
<1> HIDE DEF server, told
<1> QED BY <1>1, <1>4 DEF Verify

(* What the guards of a route can answer. *)
LEMMA GuardCodes ==
  ASSUME NEW server, NEW w, NEW req
  PROVE  /\ Authentication(server, req) \in {0, 401}
         /\ RequireIdentityAPI(w) \in {0, 500, 501}
         /\ \A crd : RequireFeature(w, crd) \in {0, 501}
  BY DEF Authentication, RequireIdentityAPI, RequireFeature

States == {"absent", "unlabelled", "project", "error"}

LEMMA ProjectCodes ==
  ASSUME NEW w, NEW n, w.namespaces[n] \in States
  PROVE  RequireProject(w, n) = IF w.namespaces[n] = "error" THEN 500
                                ELSE IF w.namespaces[n] = "project" THEN 0 ELSE 404
  BY DEF RequireProject, States

(* The answer of a route that is scoped to a project. *)
LEMMA ServeScoped ==
  ASSUME NEW server, NEW w, NEW req, w.namespaces[req.name] \in States, req.method # "OPTIONS",
         req.route \in {"project", "secretstores", "externalsecrets"}
  PROVE  Serve(server, w, req) =
           IF Authentication(server, req) # 0 THEN 401
           ELSE IF RequireProject(w, req.name) # 0 THEN RequireProject(w, req.name)
           ELSE IF req.route # "project" /\ req.route \notin w.crds THEN 501 ELSE 200
<1> DEFINE a == Authentication(server, req)
           g == RequireProject(w, req.name)
           h == RequireFeature(w, req.route)
<1>1. a \in {0, 401} /\ g \in {0, 404, 500} /\ h = (IF req.route \in w.crds THEN 0 ELSE 501)
  BY GuardCodes, ProjectCodes DEF RequireFeature
<1>2. Guards(w, req) = IF req.route = "project" THEN <<g>> ELSE <<g, h>>
  BY DEF Guards
<1>3. Serve(server, w, req) = FirstStop(<<a>> \o Guards(w, req))
  BY DEF Serve
<1> HIDE DEF a, g, h
<1>4. a \in Nat /\ g \in Nat /\ h \in Nat
  BY <1>1
<1>5. /\ FirstStop(<<a>> \o <<g>>) = IF a # 0 THEN a ELSE IF g # 0 THEN g ELSE 200
      /\ FirstStop(<<a>> \o <<g, h>>) =
           IF a # 0 THEN a ELSE IF g # 0 THEN g ELSE IF h # 0 THEN h ELSE 200
  BY <1>4, StopsFirst
<1>6. CASE req.route = "project"
  <2>1. Serve(server, w, req) = IF a # 0 THEN a ELSE IF g # 0 THEN g ELSE 200
    BY <1>2, <1>3, <1>5, <1>6, Zenon
  <2> QED BY <1>1, <1>6, <2>1 DEF a, g, h
<1>7. CASE req.route # "project"
  <2>0. Guards(w, req) = <<g, h>>
    BY <1>2, <1>7, Zenon
  <2>1. Serve(server, w, req) = IF a # 0 THEN a ELSE IF g # 0 THEN g ELSE IF h # 0 THEN h ELSE 200
    BY <1>3, <1>5, <2>0
  <2> QED BY <1>1, <1>7, <2>1 DEF a, g, h
<1> QED BY <1>6, <1>7
(* In any cluster, whoever has no token of this platform's client is         *)
(* answered by RequireAuthentication before a guard looks at the cluster.    *)
THEOREM StrangersLearn ==
  ASSUME NEW server, NEW w1, NEW w2, NEW req
  PROVE  StrangersLearnNothingIn(server, w1, w2, req)
<1> SUFFICES ASSUME server.state = "verifying", req.route # "capabilities",
                    \/ req.header # "bearer"
                    \/ ~req.token.genuine \/ req.token.issuer # server.issuer
                    \/ server.client \notin {req.token.client} \cup req.token.aud
             PROVE  Serve(server, w1, req) = Serve(server, w2, req)
  BY DEF StrangersLearnNothingIn
<1>1. Authentication(server, req) = 401
  BY DEF Authentication, Verify
<1>2. ASSUME NEW w PROVE FirstStop(<<Authentication(server, req)>> \o Guards(w, req)) = 401
  <2>1. Guards(w, req) = <<>> \/ (\E g : Guards(w, req) = <<g>>) \/ \E g, h : Guards(w, req) = <<g, h>>
    BY DEF Guards
  <2> DEFINE s == <<401>> \o Guards(w, req)
  <2>2. s[1] = 401 /\ \E k \in Nat : DOMAIN s = 1..k /\ 1 \in 1..k
    <3>1. CASE Guards(w, req) = <<>>
      BY <3>1
    <3>2. CASE \E g : Guards(w, req) = <<g>>
      BY <3>2
    <3>3. CASE \E g, h : Guards(w, req) = <<g, h>>
      BY <3>3
    <3> QED BY <2>1, <3>1, <3>2, <3>3
  <2> HIDE DEF s
  <2>3. PICK k \in Nat : DOMAIN s = 1..k /\ 1 \in 1..k
    BY <2>2
  <2>4. \A m \in 1..k : s[m] # 0 /\ (\A i \in 1..k : i < m => s[i] = 0) => FirstStop(s) = s[m]
    BY <2>3, FirstStopAt
  <2>5. FirstStop(s) = 401
    BY <2>2, <2>3, <2>4
  <2> QED BY <1>1, <2>5 DEF s
<1> QED BY <1>2 DEF Serve

(* A cluster as the guards see it. *)
Cluster(N, Contexts, Crds) ==
  [readable : BOOLEAN, context : Contexts, crds : Crds, namespaces : [N -> States]]

(* In any cluster RequireProject lets a handler run for projects only,       *)
(* answers a namespace without the label like none, and does not take an     *)
(* error of the cluster for a project that is not there.                     *)
THEOREM ProjectsServed ==
  ASSUME NEW N, NEW Contexts, NEW Crds, NEW w \in Cluster(N, Contexts, Crds),
         NEW server, NEW req, req.name \in N
  PROVE  OnlyProjectsServedIn(server, w, req)
<1> DEFINE in(state) == [w EXCEPT !.namespaces[req.name] = state]
           as(state) == Serve(server, in(state), req)
<1> SUFFICES ASSUME req.route \in {"project", "secretstores", "externalsecrets"}, req.method # "OPTIONS"
             PROVE  /\ Serve(server, w, req) = 200 => w.namespaces[req.name] = "project"
                    /\ as("absent") = as("unlabelled") /\ as("error") # 200 /\ as("error") # 404
  BY DEF OnlyProjectsServedIn
<1>1. w.namespaces[req.name] \in States
  BY DEF Cluster
<1>2. \A state \in States : in(state).namespaces[req.name] = state
  BY DEF Cluster
<1>3. Serve(server, w, req) = 200 => w.namespaces[req.name] = "project"
  BY <1>1, ServeScoped, ProjectCodes DEF States
<1>4. "absent" \in States /\ "unlabelled" \in States /\ "error" \in States
  BY DEF States
<1>5. in("absent").crds = w.crds /\ in("unlabelled").crds = w.crds
  BY DEF Cluster
<1>6. /\ in("absent").namespaces[req.name] = "absent"
      /\ in("unlabelled").namespaces[req.name] = "unlabelled"
      /\ in("error").namespaces[req.name] = "error"
  BY <1>2, <1>4
<1> HIDE DEF in
<1>7. /\ RequireProject(in("absent"), req.name) = 404
      /\ RequireProject(in("unlabelled"), req.name) = 404
      /\ RequireProject(in("error"), req.name) = 500
  BY <1>4, <1>6, ProjectCodes
<1>8. as("absent") = IF Authentication(server, req) # 0 THEN 401 ELSE 404
  BY <1>4, <1>6, <1>7, ServeScoped
<1>9. as("unlabelled") = IF Authentication(server, req) # 0 THEN 401 ELSE 404
  BY <1>4, <1>6, <1>7, ServeScoped
<1>10. as("error") = IF Authentication(server, req) # 0 THEN 401 ELSE 500
  BY <1>4, <1>6, <1>7, ServeScoped
<1> QED BY <1>3, <1>8, <1>9, <1>10

(* In any cluster, where GetCapabilities answers it offers user management   *)
(* exactly if RequireIdentityAPI lets the identity routes answer; where it   *)
(* does not, they fail too unless clientProvisioning is the cause.           *)
THEOREM CapabilityIsHonest ==
  ASSUME NEW server, NEW w, NEW req PROVE CapabilityHonestIn(server, w, req)
<1> DEFINE a == Authentication(server, req)
           g == RequireIdentityAPI(w)
           managed == IdentityProvider(w.context) = "kubauth" /\ "kubauth" \in w.crds
           fails == ~w.readable \/ ProvisioningFails(w.context)
<1> SUFFICES ASSUME req.route = "identity", req.method # "OPTIONS", a = 0
             PROVE  /\ Capabilities(w).ok => Capabilities(w).userManagement = (Serve(server, w, req) = 200)
                    /\ ~Capabilities(w).ok /\ IdentityOf(w.context).valid => Serve(server, w, req) = 500
  BY DEF CapabilityHonestIn
<1>1. g \in {0, 500, 501}
  BY GuardCodes
<1>2. Guards(w, req) = <<g>>
  BY DEF Guards
<1>3. Serve(server, w, req) = FirstStop(<<a>> \o Guards(w, req))
  BY DEF Serve
<1>4. /\ w.readable => (g = 0 <=> managed)
      /\ ~w.readable => g = 500
  BY DEF RequireIdentityAPI
<1>5. /\ fails => Capabilities(w).ok = FALSE
      /\ ~fails => Capabilities(w).ok = TRUE /\ Capabilities(w).userManagement = managed
  BY Zenon DEF Capabilities, Offer
<1>6. fails /\ IdentityOf(w.context).valid => ~w.readable
  BY DEF ProvisioningFails
<1> HIDE DEF a, g, managed, fails
<1>7. FirstStop(<<a>> \o <<g>>) = IF a # 0 THEN a ELSE IF g # 0 THEN g ELSE 200
  <2>1. a \in Nat /\ g \in Nat
    BY <1>1
  <2>2. /\ FirstStop(<<a>> \o <<g>>) = IF a # 0 THEN a ELSE IF g # 0 THEN g ELSE 200
        /\ FirstStop(<<a>> \o <<g, g>>) =
             IF a # 0 THEN a ELSE IF g # 0 THEN g ELSE IF g # 0 THEN g ELSE 200
    BY <2>1, StopsFirst
  <2> QED BY <2>2
<1>8. (Serve(server, w, req) = 200 <=> g = 0) /\ (g = 500 => Serve(server, w, req) = 500)
  BY <1>1, <1>2, <1>3, <1>7
<1>9. CASE fails
  <2>1. Capabilities(w).ok = FALSE
    BY <1>5, <1>9
  <2>2. IdentityOf(w.context).valid => Serve(server, w, req) = 500
    BY <1>4, <1>6, <1>8, <1>9
  <2> QED BY <2>1, <2>2
<1>10. CASE ~fails
  <2>1. Capabilities(w).ok = TRUE /\ Capabilities(w).userManagement = managed
    BY <1>5, <1>10
  <2>2. managed <=> Serve(server, w, req) = 200
    BY <1>4, <1>8, <1>10 DEF fails
  <2>3. managed = (Serve(server, w, req) = 200)
    BY <2>2, Zenon DEF managed
  <2> QED BY <2>1, <2>3, Zenon
<1> QED BY <1>9, <1>10

(* The inputs of the two kinds that are about access. *)
LEMMA AccessInputs ==
  ASSUME Init
  PROVE  /\ Of("context") => input.value \in LoginContexts \cup ProvisioningContexts
         /\ Of("request") => input.world \in Worlds /\ input.value \in Requests
  BY DEF Init, Of

LEMMA IssuersKnown ==
  ASSUME NEW c \in LoginContexts \cup ProvisioningContexts
  PROVE  c.keycloakIssuer \in {Unset, "bare", "realm"}
<1>0. NoContext.keycloakIssuer = Unset /\ "keycloakIssuer" \in DOMAIN NoContext
  BY DEF NoContext
<1>1. CASE c \in LoginContexts
  <2>1. PICK a, i, u, o, p : c = LoginContext(a, i, u, o, p)
    BY <1>1 DEF LoginContexts
  <2> QED BY <1>0, <2>1 DEF LoginContext
<1>2. CASE c \in ProvisioningContexts
  <2>1. PICK n1, n2, n3, o, i, p, k : c = ProvisioningContext(n1, n2, n3, o, i, p, k) /\ k \in KeycloakBlocks
    BY <1>2 DEF ProvisioningContexts
  <2>2. k.issuer \in {Unset, "bare", "realm"}
    BY <2>1 DEF KeycloakBlocks
  <2> QED BY <1>0, <2>1, <2>2 DEF ProvisioningContext
<1> QED BY <1>1, <1>2

LEMMA WorldsAreClusters ==
  \E Contexts, Crds : Worlds \subseteq Cluster({"n"}, Contexts, Crds)
<1> DEFINE Contexts == WorldContexts
           Crds == {{}, {"kubauth"}, {"secretstores"}, {"kubauth", "secretstores", "externalsecrets"}}
<1>1. Worlds = [readable : BOOLEAN, context : Contexts, crds : Crds, namespaces : [{"n"} -> States]]
  BY DEF Worlds, States
<1> HIDE DEF Contexts, Crds
<1> QED BY <1>1 DEF Cluster

(* Start-up, the guards of the router and GetCapabilities fit together on    *)
(* every Context, cluster and request of the model.                          *)
THEOREM AccessSoundHolds == Spec => []AccessSound
<1>1. ASSUME Init PROVE AccessSound
  <2>1. AcceptedCanCleanUp /\ ConsoleAccepted
    BY <1>1, AccessInputs, IssuersKnown, AcceptedCleansUp, ConsoleIsAccepted
       DEF AcceptedCanCleanUp, ConsoleAccepted
  <2>2. StrangersLearnNothing /\ CapabilityHonest
    BY StrangersLearn, CapabilityIsHonest DEF StrangersLearnNothing, CapabilityHonest
  <2>3. ASSUME Of("request") PROVE OnlyProjectsServedIn(input.server, input.world, input.value)
    <3>1. input.world \in Worlds /\ input.value.name \in {"n"}
      BY <1>1, <2>3, AccessInputs DEF Requests
    <3> QED BY <3>1, WorldsAreClusters, ProjectsServed
  <2> QED BY <2>1, <2>2, <2>3 DEF AccessSound, OnlyProjectsServed
<1>2. AccessSound /\ [Next]_input => AccessSound'
  BY DEF Next, AccessSound, AcceptedCanCleanUp, ConsoleAccepted, StrangersLearnNothing,
         OnlyProjectsServed, CapabilityHonest, Of
<1> QED BY <1>1, <1>2, PTL DEF Spec

-----------------------------------------------------------------------------
(* Secret stores and external secrets *)

(* Whatever a store was created from, UpdateSecretStore of what              *)
(* GetSecretStore shows of it is accepted and rebuilds the same object.      *)
THEOREM StoreFormRoundTrip == ASSUME NEW req PROVE StoreEditUnchangedIn(req)
<1> DEFINE store == BuildStore(req)
           shown == StoreToResponse(store)
<1> SUFFICES ASSUME ValidStoreRequest(req)
             PROVE  ValidStoreRequest(shown) /\ BuildStore(KeepAccount(shown, store)) = store
  BY DEF StoreEditUnchangedIn
<1>1. CASE req.auth = "token"
  <2>1. store = [name |-> req.name, vault |-> req.vault, ca |-> req.ca, default |-> req.default,
                 auth |-> [tokenRef |-> TRUE]]
    BY <1>1 DEF BuildStore
  <2>2. shown = [name |-> req.name, provider |-> "vault", vault |-> req.vault, ca |-> req.ca,
                 default |-> req.default, auth |-> "token", mount |-> Blank, role |-> Blank,
                 account |-> "absent"]
    BY <2>1 DEF StoreToResponse
  <2> HIDE DEF store, shown
  <2>3. ValidStoreRequest(shown) /\ KeepAccount(shown, store) = shown
    BY <2>2 DEF ValidStoreRequest, KeepAccount
  <2>4. BuildStore(shown) = store
    BY <2>1, <2>2 DEF BuildStore
  <2> QED BY <2>3, <2>4
<1>2. CASE req.auth # "token"
  <2> DEFINE mount == IF req.mount = Blank THEN "kubernetes" ELSE req.mount
             account == IF req.account \in {"absent", Blank} THEN "default" ELSE req.account
  <2>1. store = [name |-> req.name, vault |-> req.vault, ca |-> req.ca, default |-> req.default,
                 auth |-> [tokenRef |-> FALSE, role |-> req.role, mount |-> mount, account |-> account]]
    BY <1>2 DEF BuildStore
  <2>2. "default" # Blank /\ "kubernetes" # Blank
    BY Zenon DEF Blank
  <2>3. mount # Blank /\ account \notin {"absent", Blank, "Not_A_Name"}
    BY <1>2, <2>2 DEF ValidStoreRequest
  <2> HIDE DEF mount, account
  <2>4. shown = [name |-> req.name, provider |-> "vault", vault |-> req.vault, ca |-> req.ca,
                 default |-> req.default, auth |-> "kubernetes", mount |-> mount, role |-> req.role,
                 account |-> account]
    BY <2>1 DEF StoreToResponse
  <2> HIDE DEF store, shown
  <2>5. ValidStoreRequest(shown)
    BY <1>2, <2>3, <2>4 DEF ValidStoreRequest
  <2>6. KeepAccount(shown, store) = shown
    BY <2>3, <2>4 DEF KeepAccount
  <2>7. BuildStore(shown) = store
    BY <2>1, <2>3, <2>4 DEF BuildStore
  <2> QED BY <2>5, <2>6, <2>7
<1> QED BY <1>1, <1>2

(* The same for UpdateExternalSecret and GetExternalSecret, with any number  *)
(* of mappings.                                                              *)
THEOREM ExternalFormRoundTrip == ASSUME NEW req PROVE ExternalEditUnchangedIn(req)
  BY DEF ExternalEditUnchangedIn, ValidExternalRequest, BuildExternal, ExternalToResponse

(* However many mappings a request has, validateExternalSecretRequest lets   *)
(* no key of the Secret have two sources.                                    *)
THEOREM KeysHaveOneSource ==
  ASSUME NEW Mapping, NEW req, req.data \in Seq(Mapping) PROVE KeysMappedOnceIn(req)
<1> DEFINE data == req.data
<1> SUFFICES ASSUME ValidExternalRequest(req), NEW i \in DOMAIN data, NEW j \in DOMAIN data,
                    data[i].key = data[j].key
             PROVE  i = j
  BY DEF KeysMappedOnceIn, BuildExternal
<1>1. i \in Nat /\ j \in Nat /\ i >= 1 /\ j >= 1
  OBVIOUS
<1>2. \A k \in DOMAIN data : \A l \in 1..k - 1 : data[l].key # data[k].key
  BY DEF ValidExternalRequest
<1>3. ~(i < j) /\ ~(j < i)
  BY <1>1, <1>2
<1> QED BY <1>1, <1>3

-----------------------------------------------------------------------------
(* Induction *)

(* Every set of numbers that is not empty has a least one. *)
LEMMA NatLeast ==
  ASSUME NEW T \in SUBSET Nat, T # {}
  PROVE  \E n \in T : \A m \in T : n <= m
<1> DEFINE R == OpToRel(<, Nat)
<1>1. IsWellFoundedOn(R, Nat)
  BY NatLessThanWellFounded
<1>2. \A y, x \in Nat : y < x => <<y, x>> \in R
  BY DEF OpToRel
<1> HIDE DEF R
<1>3. PICK x \in T : \A y \in T : ~ (<<y, x>> \in R)
  BY <1>1, WFMin
<1>4. ASSUME NEW y \in T PROVE x <= y
  <2>1. x \in Nat /\ y \in Nat /\ <<y, x>> \notin R
    BY <1>3
  <2>2. ~(y < x)
    BY <1>2, <2>1, Zenon
  <2> QED BY <2>1, <2>2
<1> QED BY <1>4

(* Induction, with the set of the numbers for which a formula holds. *)
LEMMA Induction ==
  ASSUME NEW T, 0 \in T, NEW k \in Nat, \A n \in 0..k : n \in T /\ n < k => n + 1 \in T
  PROVE  \A n \in 0..k : n \in T
<1> DEFINE bad == {n \in 0..k : n \notin T}
<1>0. bad \in SUBSET Nat
  OBVIOUS
<1>a. \A n : n \in bad <=> n \in 0..k /\ n \notin T
  OBVIOUS
<1> HIDE DEF bad
<1> SUFFICES ASSUME bad # {} PROVE FALSE
  BY <1>a
<1>1. PICK m \in bad : \A n \in bad : m <= n
  BY <1>0, NatLeast
<1>2. m \in 0..k /\ m \notin T
  BY <1>a, <1>1
<1>3. m # 0 /\ m - 1 \in 0..k /\ m - 1 < k /\ (m - 1) + 1 = m /\ ~(m <= m - 1)
  BY <1>2
<1>4. m - 1 \in T
  BY <1>a, <1>1, <1>3
<1> QED BY <1>2, <1>3, <1>4

(* The least and the largest of some places. *)
LEMMA MinIs ==
  ASSUME NEW T \in SUBSET Nat, T # {}
  PROVE  Min(T) \in T /\ \A m \in T : Min(T) <= m
  BY NatLeast DEF Min

LEMMA MaxIs ==
  ASSUME NEW T \in SUBSET Int, NEW n \in T, \A m \in T : m <= n
  PROVE  Max(T) = n
<1>1. Max(T) \in T /\ \A m \in T : m <= Max(T)
  BY DEF Max
<1>2. Max(T) \in Int /\ n \in Int /\ Max(T) <= n /\ n <= Max(T)
  BY <1>1
<1> QED BY <1>2

-----------------------------------------------------------------------------
(* The loops of the code *)

(* One turn of a loop: that of boundConnections, of latestWarningMessage, of *)
(* the inputs of a package or of Normalize.                                  *)
Turn(loop, acc, e) ==
  CASE loop.over = "references" -> Remember(acc, e)
    [] loop.over = "events" -> Later(loop.names, acc, e)
    [] loop.over = "inputs" -> Keep(loop.kept, acc, e)
    [] OTHER -> NormalizeField(e, acc, acc)

(* What a fold is built from: the result for each set of places. *)
Iterates(it, loop, base, s, n) ==
  it = [S \in SUBSET (1..n) |-> IF S = {} THEN base ELSE Turn(loop, it[S \ {Max(S)}], s[Max(S)])]

LEMMA IteratesExist ==
  ASSUME NEW loop, NEW base, NEW s, NEW n \in Nat
  PROVE  \E it : Iterates(it, loop, base, s, n)
<1> DEFINE T == {k \in Nat : \E it : Iterates(it, loop, base, s, k)}
<1>1. 0 \in T
  <2> DEFINE it == [S \in SUBSET (1..0) |-> base]
  <2>1. 1..0 = {}
    OBVIOUS
  <2>2. it = [S \in SUBSET (1..0) |-> IF S = {} THEN base ELSE Turn(loop, it[S \ {Max(S)}], s[Max(S)])]
    BY <2>1
  <2> QED BY <2>2 DEF Iterates
<1>2. ASSUME NEW k \in Nat, k \in T PROVE k + 1 \in T
  <2>1. PICK old : Iterates(old, loop, base, s, k)
    BY <1>2
  <2> DEFINE it == [S \in SUBSET (1..k + 1) |->
                      IF k + 1 \in S THEN Turn(loop, old[S \ {k + 1}], s[k + 1]) ELSE old[S]]
  <2>2. \A S \in SUBSET (1..k) : old[S] = IF S = {} THEN base ELSE Turn(loop, old[S \ {Max(S)}], s[Max(S)])
    BY <2>1 DEF Iterates
  <2>3. \A S \in SUBSET (1..k) : S \in SUBSET (1..k + 1) /\ k + 1 \notin S /\ it[S] = old[S]
    OBVIOUS
  <2>4. ASSUME NEW S \in SUBSET (1..k + 1)
        PROVE  it[S] = IF S = {} THEN base ELSE Turn(loop, it[S \ {Max(S)}], s[Max(S)])
    <3>1. CASE k + 1 \in S
      <4>1. Max(S) = k + 1
        <5>1. S \in SUBSET Int /\ \A m \in S : m <= k + 1
          OBVIOUS
        <5> QED BY <3>1, <5>1, MaxIs
      <4>2. S \ {k + 1} \in SUBSET (1..k)
        OBVIOUS
      <4>3. it[S \ {k + 1}] = old[S \ {k + 1}]
        BY <2>3, <4>2
      <4>4. it[S] = Turn(loop, old[S \ {k + 1}], s[k + 1])
        BY <3>1
      <4> HIDE DEF it
      <4> QED BY <3>1, <4>1, <4>3, <4>4
    <3>2. CASE k + 1 \notin S
      <4>1. S \in SUBSET (1..k)
        BY <3>2
      <4>2. S \ {Max(S)} \in SUBSET (1..k)
        BY <4>1
      <4> HIDE DEF it
      <4>3. it[S] = old[S] /\ it[S \ {Max(S)}] = old[S \ {Max(S)}]
        BY <2>3, <4>1, <4>2
      <4> QED BY <2>2, <4>1, <4>3
    <3> QED BY <3>1, <3>2
  <2>5. it = [S \in SUBSET (1..k + 1) |-> it[S]]
    OBVIOUS
  <2> HIDE DEF it
  <2>6. it = [S \in SUBSET (1..k + 1) |-> IF S = {} THEN base ELSE Turn(loop, it[S \ {Max(S)}], s[Max(S)])]
    BY <2>4, <2>5
  <2>7. \E x : Iterates(x, loop, base, s, k + 1)
    BY <2>6 DEF Iterates
  <2> QED BY <2>7
<1> HIDE DEF T
<1>3. \A k \in 0..n : k \in T /\ k < n => k + 1 \in T
  BY <1>2
<1>4. n \in 0..n
  OBVIOUS
<1>5. n \in T
  BY <1>1, <1>3, <1>4, Induction
<1> QED BY <1>5 DEF T

(* A run of a loop over s: the value before the first turn and after each.   *)
IsRun(run, loop, base, s, n) ==
  run[0] = base /\ \A k \in 1..n : run[k] = Turn(loop, run[k - 1], s[k])

LEMMA IteratesRun ==
  ASSUME NEW loop, NEW base, NEW s, NEW n \in Nat, NEW it, Iterates(it, loop, base, s, n)
  PROVE  \E run : IsRun(run, loop, base, s, n) /\ run[n] = it[1..n]
<1> DEFINE run == [k \in 0..n |-> it[1..k]]
<1>0. \A S \in SUBSET (1..n) : it[S] = IF S = {} THEN base ELSE Turn(loop, it[S \ {Max(S)}], s[Max(S)])
  BY DEF Iterates
<1>1. run[0] = base
  <2>1. 1..0 = {} /\ {} \in SUBSET (1..n) /\ 0 \in 0..n
    OBVIOUS
  <2> QED BY <1>0, <2>1
<1>2. ASSUME NEW k \in 1..n PROVE run[k] = Turn(loop, run[k - 1], s[k])
  <2>1. Max(1..k) = k
    <3>1. 1..k \in SUBSET Int /\ k \in 1..k /\ \A m \in 1..k : m <= k
      OBVIOUS
    <3> QED BY <3>1, MaxIs
  <2>2. (1..k) \ {k} = 1..k - 1 /\ 1..k \in SUBSET (1..n) /\ 1..k # {} /\ k \in 0..n /\ k - 1 \in 0..n
    OBVIOUS
  <2>3. it[1..k] = Turn(loop, it[1..k - 1], s[k])
    BY <1>0, <2>1, <2>2
  <2>4. run[k] = it[1..k] /\ run[k - 1] = it[1..k - 1]
    BY <2>2
  <2> QED BY <2>3, <2>4
<1>3. run[n] = it[1..n]
  OBVIOUS
<1> HIDE DEF run
<1> QED BY <1>1, <1>2, <1>3 DEF IsRun

(* The loop of boundConnections. *)
LEMMA RememberRuns ==
  ASSUME NEW s, NEW n \in Nat, DOMAIN s = 1..n
  PROVE  \E run : /\ run[0] = <<>> /\ \A k \in 1..n : run[k] = Remember(run[k - 1], s[k])
                  /\ run[n] = FoldLeft(Remember, <<>>, s)
<1> DEFINE loop == [over |-> "references"]
           P(it) == it = [S \in SUBSET DOMAIN s |-> IF S = {} THEN <<>> ELSE Remember(it[S \ {Max(S)}], s[Max(S)])]
           fold == CHOOSE it : P(it)
<1>1. \A acc, e : Turn(loop, acc, e) = Remember(acc, e)
  BY DEF Turn
<1> HIDE DEF loop
<1>2. \A it : P(it) <=> Iterates(it, loop, <<>>, s, n)
  BY <1>1 DEF Iterates
<1>3. FoldLeft(Remember, <<>>, s) = fold[DOMAIN s]
  BY DEF FoldLeft, MapThenFoldSet
<1> HIDE DEF P
<1>4. \E it : P(it)
  BY <1>2, IteratesExist
<1>5. P(fold)
  BY <1>4
<1> HIDE DEF fold
<1>6. PICK run : IsRun(run, loop, <<>>, s, n) /\ run[n] = fold[1..n]
  BY <1>2, <1>5, IteratesRun
<1> QED BY <1>1, <1>3, <1>6 DEF IsRun

(* The loop of latestWarningMessage. *)
Latest(names, base, s) == FoldLeft(LAMBDA acc, e : Later(names, acc, e), base, s)

LEMMA LaterRuns ==
  ASSUME NEW names, NEW base, NEW s, NEW n \in Nat, DOMAIN s = 1..n
  PROVE  \E run : /\ run[0] = base /\ \A k \in 1..n : run[k] = Later(names, run[k - 1], s[k])
                  /\ run[n] = Latest(names, base, s)
<1> DEFINE loop == [over |-> "events", names |-> names]
           P(it) == it = [S \in SUBSET DOMAIN s |-> IF S = {} THEN base ELSE Later(names, it[S \ {Max(S)}], s[Max(S)])]
           fold == CHOOSE it : P(it)
<1>1. \A acc, e : Turn(loop, acc, e) = Later(names, acc, e)
  BY DEF Turn
<1> HIDE DEF loop
<1>2. \A it : P(it) <=> Iterates(it, loop, base, s, n)
  BY <1>1 DEF Iterates
<1>3. Latest(names, base, s) = fold[DOMAIN s]
  BY DEF Latest, FoldLeft, MapThenFoldSet
<1> HIDE DEF P
<1>4. \E it : P(it)
  BY <1>2, IteratesExist
<1>5. P(fold)
  BY <1>4
<1> HIDE DEF fold
<1>6. PICK run : IsRun(run, loop, base, s, n) /\ run[n] = fold[1..n]
  BY <1>2, <1>5, IteratesRun
<1> QED BY <1>1, <1>3, <1>6 DEF IsRun

(* The loop of Normalize. *)
LEMMA NormalizeRuns ==
  ASSUME NEW values, NEW ct, NEW n \in Nat, DOMAIN ct = 1..n
  PROVE  \E run : /\ run[0] = values /\ \A k \in 1..n : run[k] = NormalizeField(ct[k], run[k - 1], run[k - 1])
                  /\ run[n] = Normalize(ct, values)
<1> DEFINE loop == [over |-> "fields"]
           P(it) == it = [S \in SUBSET DOMAIN ct |-> IF S = {} THEN values
                            ELSE NormalizeField(ct[Max(S)], it[S \ {Max(S)}], it[S \ {Max(S)}])]
           fold == CHOOSE it : P(it)
<1>1. \A acc, e : Turn(loop, acc, e) = NormalizeField(e, acc, acc)
  BY DEF Turn
<1> HIDE DEF loop
<1>2. \A it : P(it) <=> Iterates(it, loop, values, ct, n)
  BY <1>1 DEF Iterates
<1>3. Normalize(ct, values) = fold[DOMAIN ct]
  BY DEF Normalize, FoldLeft, MapThenFoldSet
<1> HIDE DEF P
<1>4. \E it : P(it)
  BY <1>2, IteratesExist
<1>5. P(fold)
  BY <1>4
<1> HIDE DEF fold
<1>6. PICK run : IsRun(run, loop, values, ct, n) /\ run[n] = fold[1..n]
  BY <1>2, <1>5, IteratesRun
<1> QED BY <1>1, <1>3, <1>6 DEF IsRun

(* The loops of inputsFromMarkers and inputsOf. *)
LEMMA AmongRuns ==
  ASSUME NEW S, NEW s, NEW n \in Nat, DOMAIN s = 1..n
  PROVE  \E run : /\ run[0] = <<>> /\ \A k \in 1..n : run[k] = Keep(S, run[k - 1], s[k])
                  /\ run[n] = Among(s, S)
<1> DEFINE loop == [over |-> "inputs", kept |-> S]
           P(it) == it = [T \in SUBSET DOMAIN s |-> IF T = {} THEN <<>> ELSE Keep(S, it[T \ {Max(T)}], s[Max(T)])]
           fold == CHOOSE it : P(it)
<1>1. \A acc, e : Turn(loop, acc, e) = Keep(S, acc, e)
  BY DEF Turn
<1> HIDE DEF loop
<1>2. \A it : P(it) <=> Iterates(it, loop, <<>>, s, n)
  BY <1>1 DEF Iterates
<1>3. Among(s, S) = fold[DOMAIN s]
  BY DEF Among, FoldLeft, MapThenFoldSet
<1> HIDE DEF P
<1>4. \E it : P(it)
  BY <1>2, IteratesExist
<1>5. P(fold)
  BY <1>4
<1> HIDE DEF fold
<1>6. PICK run : IsRun(run, loop, <<>>, s, n) /\ run[n] = fold[1..n]
  BY <1>2, <1>5, IteratesRun
<1> QED BY <1>1, <1>3, <1>6 DEF IsRun

-----------------------------------------------------------------------------
(* Services *)

(* Whatever the order of the events, latestWarningMessage gives the message  *)
(* of a latest one about the service, and none when there is none.           *)
THEOREM LatestIsShown ==
  ASSUME NEW w, NEW n \in Nat, DOMAIN w.events = 1..n, \A i \in 1..n : EventTime(w.events[i]) \in Int
  PROVE  WarningIsLatestIn(w)
<1> SUFFICES ASSUME NEW r
             PROVE  LET about == {i \in DOMAIN w.events :
                                    MatchesInstance(w.events[i].involved, InstanceNames(w, r)) /\ EventTime(w.events[i]) > 0}
                    IN  IF about = {} THEN LatestWarning(w, r) = NoText
                        ELSE \E i \in about : /\ LatestWarning(w, r) = w.events[i].message
                                              /\ \A j \in about : EventTime(w.events[j]) <= EventTime(w.events[i])
  BY DEF WarningIsLatestIn
<1> DEFINE names == InstanceNames(w, r)
           ours(i) == MatchesInstance(w.events[i].involved, names)
           time(i) == EventTime(w.events[i])
           about == {i \in DOMAIN w.events : ours(i) /\ time(i) > 0}
<1>1. CASE names = {}
  <2>1. about = {}
    BY <1>1 DEF MatchesInstance
  <2>2. LatestWarning(w, r) = NoText
    BY <1>1 DEF LatestWarning
  <2> QED BY <2>1, <2>2
<1>2. CASE names # {}
  <2> DEFINE base == [at |-> 0, message |-> NoText]
  <2>1. PICK run : /\ run[0] = base /\ \A k \in 1..n : run[k] = Later(names, run[k - 1], w.events[k])
                   /\ run[n] = Latest(names, base, w.events)
    <3> HIDE DEF names, base
    <3> DEFINE s == w.events
    <3>1. DOMAIN s = 1..n
      OBVIOUS
    <3> HIDE DEF s
    <3>2. \E run : /\ run[0] = base /\ \A k \in 1..n : run[k] = Later(names, run[k - 1], s[k])
                  /\ run[n] = Latest(names, base, s)
      BY <3>1, LaterRuns
    <3> QED BY <3>2 DEF s
  <2>2. LatestWarning(w, r) = run[n].message
    <3>1. LatestWarning(w, r) = Latest(names, base, w.events).message
      BY <1>2 DEF LatestWarning, Latest
    <3> QED BY <2>1, <3>1
  <2> DEFINE T == {k \in 0..n : /\ run[k].at \in Nat
                                /\ \A i \in 1..k : ours(i) => time(i) <= run[k].at
                                /\ run[k].at = 0 => run[k].message = NoText
                                /\ run[k].at > 0 => \E i \in 1..k : /\ ours(i) /\ time(i) = run[k].at
                                                                    /\ w.events[i].message = run[k].message}
  <2>3. 0 \in T
    <3>1. run[0].at = 0 /\ run[0].message = NoText /\ 1..0 = {} /\ 0 \in 0..n
      BY <2>1
    <3> QED BY <3>1
  <2>4. ASSUME NEW k \in 0..n, k \in T, k < n PROVE k + 1 \in T
    <3>1. k + 1 \in 1..n /\ k + 1 \in 0..n /\ (k + 1) - 1 = k /\ 1..k + 1 = (1..k) \cup {k + 1}
      BY <2>4
    <3>2. run[k + 1] = Later(names, run[k], w.events[k + 1])
      BY <2>1, <3>1
    <3>3. time(k + 1) \in Int
      BY <3>1
    <3>4. /\ run[k].at \in Nat /\ \A i \in 1..k : ours(i) => time(i) <= run[k].at
          /\ run[k].at = 0 => run[k].message = NoText
          /\ run[k].at > 0 => \E i \in 1..k : /\ ours(i) /\ time(i) = run[k].at
                                              /\ w.events[i].message = run[k].message
      BY <2>4
    <3>5. \A i \in 1..k : time(i) \in Int
      OBVIOUS
    <3> HIDE DEF names, T, time, ours
    <3>6. CASE ours(k + 1) /\ time(k + 1) > run[k].at
      <4>1. run[k + 1] = [at |-> time(k + 1), message |-> w.events[k + 1].message]
        BY <3>2, <3>6 DEF Later, ours, time
      <4>2. \A i \in 1..k : ours(i) => time(i) <= run[k + 1].at
        BY <3>3, <3>4, <3>5, <3>6, <4>1
      <4> QED BY <3>1, <3>3, <3>4, <3>6, <4>1, <4>2 DEF T
    <3>7. CASE ~(ours(k + 1) /\ time(k + 1) > run[k].at)
      <4>1. run[k + 1] = run[k]
        BY <3>2, <3>7 DEF Later, ours, time
      <4> QED BY <3>1, <3>3, <3>4, <3>7, <4>1 DEF T
    <3> QED BY <3>6, <3>7
  <2> HIDE DEF T
  <2>5. n \in T
    <3>1. n \in 0..n
      OBVIOUS
    <3> QED BY <2>3, <2>4, <3>1, Induction
  <2>6. /\ run[n].at \in Nat
        /\ \A i \in 1..n : ours(i) => time(i) <= run[n].at
        /\ run[n].at = 0 => run[n].message = NoText
        /\ run[n].at > 0 => \E i \in 1..n : /\ ours(i) /\ time(i) = run[n].at
                                            /\ w.events[i].message = run[n].message
    BY <2>5 DEF T
  <2>7. \A i \in 1..n : time(i) \in Int
    OBVIOUS
  <2> HIDE DEF time, ours
  <2>8. CASE run[n].at = 0
    <3>1. about = {}
      BY <2>6, <2>7, <2>8
    <3> QED BY <2>2, <2>6, <2>8, <3>1 DEF time, ours
  <2>9. CASE run[n].at > 0
    <3>1. PICK i \in 1..n : ours(i) /\ time(i) = run[n].at /\ w.events[i].message = run[n].message
      BY <2>6, <2>9
    <3>2. i \in about /\ \A j \in about : time(j) <= time(i)
      BY <2>6, <2>9, <3>1
    <3> QED BY <2>2, <3>1, <3>2 DEF time, ours
  <2> QED BY <2>6, <2>8, <2>9
<1> QED BY <1>1, <1>2

(* What the loop of boundConnections made of the first k references: an      *)
(* entry for each name, one of its references, resolved if one of them is.   *)
Summed(acc, s, k) ==
  /\ acc = [x \in DOMAIN acc |-> acc[x]]
  /\ DOMAIN acc = {s[i].name : i \in 1..k}
  /\ \A x \in DOMAIN acc : /\ \E i \in 1..k : s[i].name = x /\ acc[x] = s[i]
                           /\ (\E i \in 1..k : s[i].name = x /\ s[i].resolved) => acc[x].resolved

LEMMA RememberSums ==
  ASSUME NEW s, NEW n \in Nat, DOMAIN s = 1..n
  PROVE  Summed(FoldLeft(Remember, <<>>, s), s, n)
<1>1. PICK run : /\ run[0] = <<>> /\ \A k \in 1..n : run[k] = Remember(run[k - 1], s[k])
                 /\ run[n] = FoldLeft(Remember, <<>>, s)
  BY RememberRuns
<1> DEFINE T == {k \in 0..n : Summed(run[k], s, k)}
<1>2. 0 \in T
  <2>1. 1..0 = {} /\ run[0] = <<>> /\ 0 \in 0..n
    BY <1>1
  <2>2. DOMAIN <<>> = {} /\ <<>> = [x \in {} |-> <<>>[x]]
    OBVIOUS
  <2> QED BY <2>1, <2>2 DEF Summed
<1>3. ASSUME NEW k \in 0..n, k \in T, k < n PROVE k + 1 \in T
  <2> DEFINE old == run[k]
             acc == run[k + 1]
             ref == s[k + 1]
  <2>1. k + 1 \in 1..n /\ k + 1 \in 0..n /\ (k + 1) - 1 = k /\ 1..k + 1 = (1..k) \cup {k + 1}
    BY <1>3
  <2>2. acc = Remember(old, ref)
    BY <1>1, <2>1
  <2>3. Summed(old, s, k)
    BY <1>3
  <2> HIDE DEF T, old, acc
  <2>4. {s[i].name : i \in 1..k + 1} = {s[i].name : i \in 1..k} \cup {ref.name}
    BY <2>1
  <2>5. CASE ref.name \in DOMAIN old /\ old[ref.name].resolved
    <3>1. acc = old
      BY <2>2, <2>5 DEF Remember
    <3> QED BY <2>1, <2>3, <2>4, <2>5, <3>1 DEF Summed, T, acc
  <2>6. CASE ~(ref.name \in DOMAIN old /\ old[ref.name].resolved)
    <3>1. acc = [x \in DOMAIN old \cup {ref.name} |-> IF x = ref.name THEN ref ELSE old[x]]
      BY <2>2, <2>6 DEF Remember
    <3>2. /\ DOMAIN acc = DOMAIN old \cup {ref.name} /\ acc[ref.name] = ref
          /\ \A x \in DOMAIN old : x # ref.name => acc[x] = old[x]
          /\ acc = [x \in DOMAIN acc |-> acc[x]]
      BY <3>1
    <3>3. DOMAIN acc = {s[i].name : i \in 1..k + 1}
      BY <2>3, <2>4, <3>2 DEF Summed
    <3> HIDE DEF ref
    <3>4. ASSUME NEW x \in DOMAIN acc
          PROVE  /\ \E i \in 1..k + 1 : s[i].name = x /\ acc[x] = s[i]
                 /\ (\E i \in 1..k + 1 : s[i].name = x /\ s[i].resolved) => acc[x].resolved
      <4>1. CASE x = ref.name
        <5>1. \A i \in 1..k : s[i].name = x => ~s[i].resolved
          BY <2>3, <2>6, <4>1 DEF Summed
        <5> QED BY <2>1, <3>2, <4>1, <5>1 DEF ref
      <4>2. CASE x # ref.name
        <5>1. x \in DOMAIN old /\ acc[x] = old[x] /\ s[k + 1].name # x
          BY <3>2, <4>2 DEF ref
        <5>2. /\ \E i \in 1..k : s[i].name = x /\ old[x] = s[i]
              /\ (\E i \in 1..k : s[i].name = x /\ s[i].resolved) => old[x].resolved
          BY <2>3, <5>1 DEF Summed
        <5> QED BY <2>1, <5>1, <5>2
      <4> QED BY <4>1, <4>2
    <3>5. Summed(acc, s, k + 1)
      BY <3>2, <3>3, <3>4 DEF Summed
    <3> QED BY <2>1, <3>5 DEF T, acc
  <2> QED BY <2>5, <2>6
<1> HIDE DEF T
<1>4. n \in T
  <2>1. n \in 0..n
    OBVIOUS
  <2> QED BY <1>2, <1>3, <2>1, Induction
<1> QED BY <1>1, <1>4 DEF T

SumOf(eff, wat, bound) ==
  /\ DOMAIN bound = {eff[i].name : i \in DOMAIN eff} \cup {wat[i].name : i \in DOMAIN wat}
  /\ \A x \in DOMAIN bound :
       /\ bound[x].resolved \in BOOLEAN
       /\ bound[x].resolved <=> x \in {eff[i].name : i \in DOMAIN eff}
       /\ bound[x].resolved => \E i \in DOMAIN eff : eff[i].name = x /\ eff[i].kind = bound[x].kind
       /\ ~bound[x].resolved => \E i \in DOMAIN wat : wat[i].name = x /\ wat[i].kind = bound[x].kind

(* Two lists of references, marked and one after the other, as sums. *)
LEMMA SumOfTwo ==
  ASSUME NEW eff, NEW wat, NEW m \in Nat, NEW n \in Nat, DOMAIN eff = 1..m, DOMAIN wat = 1..n,
         NEW s, NEW bound, Summed(bound, s, m + n),
         \A i \in 1..m : s[i].name = eff[i].name /\ s[i].kind = eff[i].kind /\ s[i].resolved = TRUE,
         \A i \in 1..n : s[m + i].name = wat[i].name /\ s[m + i].kind = wat[i].kind /\ s[m + i].resolved = FALSE
  PROVE  SumOf(eff, wat, bound)
<1>3. \A i \in 1..m + n : i \in 1..m \/ \E j \in 1..n : i = m + j
  <2>1. ASSUME NEW i \in 1..m + n, i \notin 1..m PROVE i - m \in 1..n /\ i = m + (i - m)
    BY <2>1
  <2> QED BY <2>1
<1>4. \A i \in 1..m : i \in 1..m + n
  OBVIOUS
<1>5. \A i \in 1..n : m + i \in 1..m + n
  OBVIOUS
<1>7. ASSUME NEW x PROVE x \in DOMAIN bound <=> (\E i \in 1..m : eff[i].name = x) \/ \E i \in 1..n : wat[i].name = x
  <2>1. x \in DOMAIN bound <=> \E i \in 1..m + n : s[i].name = x
    BY DEF Summed
  <2>2. ASSUME NEW i \in 1..m + n, s[i].name = x PROVE (\E j \in 1..m : eff[j].name = x) \/ \E j \in 1..n : wat[j].name = x
    <3>1. CASE i \in 1..m
      BY <2>2, <3>1
    <3>2. ASSUME NEW j \in 1..n, i = m + j PROVE wat[j].name = x
      BY <2>2, <3>2
    <3> QED BY <1>3, <3>1, <3>2
  <2>3. ASSUME NEW j \in 1..n PROVE m + j \in 1..m + n /\ s[m + j].name = wat[j].name
    BY <1>5
  <2> QED BY <1>4, <2>1, <2>2, <2>3
<1>8. ASSUME NEW x \in DOMAIN bound
      PROVE  /\ bound[x].resolved \in BOOLEAN
             /\ bound[x].resolved <=> \E i \in 1..m : eff[i].name = x
             /\ bound[x].resolved => \E i \in 1..m : eff[i].name = x /\ eff[i].kind = bound[x].kind
             /\ ~bound[x].resolved => \E i \in 1..n : wat[i].name = x /\ wat[i].kind = bound[x].kind
  <2>1. PICK i \in 1..m + n : s[i].name = x /\ bound[x] = s[i]
    BY DEF Summed
  <2>2. (\E j \in 1..m + n : s[j].name = x /\ s[j].resolved) => bound[x].resolved
    BY DEF Summed
  <2>3. (\E j \in 1..m : eff[j].name = x) => bound[x].resolved
    BY <1>4, <2>2
  <2>4. ASSUME i \in 1..m PROVE bound[x].resolved = TRUE /\ eff[i].name = x /\ eff[i].kind = bound[x].kind
    BY <2>1, <2>4
  <2>5. ASSUME NEW j \in 1..n, i = m + j
        PROVE  bound[x].resolved = FALSE /\ wat[j].name = x /\ wat[j].kind = bound[x].kind
    BY <2>1, <2>5
  <2>6. bound[x].resolved \in BOOLEAN
    BY <1>3, <2>4, <2>5
  <2>7. /\ i \in 1..m => bound[x].resolved
        /\ (\E j \in 1..n : i = m + j) => ~bound[x].resolved
    BY <2>4, <2>5
  <2>8. bound[x].resolved => \E j \in 1..m : eff[j].name = x /\ eff[j].kind = bound[x].kind
    BY <1>3, <2>4, <2>7
  <2>9. ~bound[x].resolved => \E j \in 1..n : wat[j].name = x /\ wat[j].kind = bound[x].kind
    BY <1>3, <2>5, <2>7
  <2> QED BY <2>3, <2>6, <2>8, <2>9
<1>9. DOMAIN bound = {eff[i].name : i \in DOMAIN eff} \cup {wat[i].name : i \in DOMAIN wat}
  <2>1. ASSUME NEW x
        PROVE  x \in DOMAIN bound <=> x \in {eff[i].name : i \in DOMAIN eff} \cup {wat[i].name : i \in DOMAIN wat}
    BY <1>7
  <2> QED BY <2>1
<1>10. ASSUME NEW x \in DOMAIN bound
       PROVE  /\ bound[x].resolved \in BOOLEAN
              /\ bound[x].resolved <=> x \in {eff[i].name : i \in DOMAIN eff}
              /\ bound[x].resolved => \E i \in DOMAIN eff : eff[i].name = x /\ eff[i].kind = bound[x].kind
              /\ ~bound[x].resolved => \E i \in DOMAIN wat : wat[i].name = x /\ wat[i].kind = bound[x].kind
  BY <1>8
<1> QED BY <1>9, <1>10 DEF SumOf

(* A sequence given by its length and its elements. *)
LEMMA SeqIs ==
  ASSUME NEW n \in Nat, NEW f, f = [i \in 1..n |-> f[i]], NEW S, \A i \in 1..n : f[i] \in S
  PROVE  f \in Seq(S) /\ Len(f) = n
<1>1. f \in [1..n -> S]
  OBVIOUS
<1> QED BY <1>1

LEMMA JoinOf ==
  ASSUME NEW S, NEW a \in Seq(S), NEW b \in Seq(S)
  PROVE  /\ DOMAIN (a \o b) = 1..Len(a) + Len(b) /\ Len(a) \in Nat /\ Len(b) \in Nat
         /\ \A i \in 1..Len(a) : (a \o b)[i] = a[i]
         /\ \A i \in 1..Len(b) : (a \o b)[Len(a) + i] = b[i]
  OBVIOUS

LEMMA BoundSummed ==
  ASSUME NEW Ref, NEW release, release.effective \in Seq(Ref), release.watched \in Seq(Ref)
  PROVE  SumOf(release.effective, release.watched, BoundConnections(release))
<1> DEFINE eff == release.effective
           wat == release.watched
           m == Len(eff)
           n == Len(wat)
           markedE == [i \in DOMAIN eff |-> [name |-> eff[i].name, kind |-> eff[i].kind, resolved |-> TRUE]]
           markedW == [i \in DOMAIN wat |-> [name |-> wat[i].name, kind |-> wat[i].kind, resolved |-> FALSE]]
           s == markedE \o markedW
           bound == FoldLeft(Remember, <<>>, s)
<1>0. m \in Nat /\ n \in Nat /\ DOMAIN eff = 1..m /\ DOMAIN wat = 1..n
  OBVIOUS
<1>a. Len(markedE) = m /\ Len(markedW) = n /\ DOMAIN markedE = 1..m /\ DOMAIN markedW = 1..n
  OBVIOUS
<1>c. BoundConnections(release) = bound
  BY DEF BoundConnections
<1>d. /\ markedE = [i \in 1..m |-> markedE[i]] /\ markedW = [i \in 1..n |-> markedW[i]]
      /\ \A i \in 1..m : markedE[i] = [name |-> eff[i].name, kind |-> eff[i].kind, resolved |-> TRUE]
      /\ \A i \in 1..n : markedW[i] = [name |-> wat[i].name, kind |-> wat[i].kind, resolved |-> FALSE]
  BY <1>0
<1> HIDE DEF m, n, markedE, markedW
<1>b. \E S : markedE \in Seq(S) /\ markedW \in Seq(S)
  <2> DEFINE S == {markedE[i] : i \in 1..m} \cup {markedW[i] : i \in 1..n}
  <2>1. (\A i \in 1..m : markedE[i] \in S) /\ \A i \in 1..n : markedW[i] \in S
    OBVIOUS
  <2> HIDE DEF S
  <2> QED BY <1>0, <1>d, <2>1, SeqIs
<1>e. DOMAIN s = 1..m + n /\ (\A i \in 1..m : s[i] = markedE[i]) /\ \A i \in 1..n : s[m + i] = markedW[i]
  <2>1. PICK S : markedE \in Seq(S) /\ markedW \in Seq(S)
    BY <1>b
  <2>2. /\ DOMAIN s = 1..Len(markedE) + Len(markedW)
        /\ \A i \in 1..Len(markedE) : s[i] = markedE[i]
        /\ \A i \in 1..Len(markedW) : s[Len(markedE) + i] = markedW[i]
    BY <2>1, JoinOf
  <2> HIDE DEF s
  <2> QED BY <1>a, <2>2
<1> HIDE DEF s, eff, wat
<1>1. /\ m + n \in Nat
      /\ \A i \in 1..m : s[i].name = eff[i].name /\ s[i].kind = eff[i].kind /\ s[i].resolved = TRUE
      /\ \A i \in 1..n : s[m + i].name = wat[i].name /\ s[m + i].kind = wat[i].kind /\ s[m + i].resolved = FALSE
  BY <1>0, <1>d, <1>e
<1>6. Summed(bound, s, m + n)
  BY <1>1, <1>e, RememberSums
<1> HIDE DEF bound
<1>7. SumOf(eff, wat, bound)
  BY <1>0, <1>1, <1>6, SumOfTwo
<1> QED BY <1>c, <1>7 DEF eff, wat

(* Whatever the controller resolved and watches, boundConnections shows      *)
(* every name once, resolved exactly when it resolved, as the kind of one of *)
(* its references.                                                           *)
THEOREM ConnectionsAreSummed ==
  ASSUME NEW Ref, NEW release, release.effective \in Seq(Ref), release.watched \in Seq(Ref)
  PROVE  ConnectionsSummedIn(release)
<1>1. SumOf(release.effective, release.watched, BoundConnections(release))
  BY BoundSummed
<1> QED BY <1>1 DEF SumOf, ConnectionsSummedIn

(* Whatever a release resolved and watches, the page of a connection lists   *)
(* the release as its own page shows the connection.                         *)
THEOREM ConsumersAgreed ==
  ASSUME NEW Ref, NEW release, release.effective \in Seq(Ref), release.watched \in Seq(Ref), NEW project
  PROVE  ConsumersAgreeIn(release, project)
<1> DEFINE eff == release.effective
           wat == release.watched
           all == eff \o wat
           bound == BoundConnections(release)
<1> SUFFICES ASSUME \A i \in 1..Len(all) : all[i].namespace \in {project, NoText},
                    NEW k \in 1..Len(all)
             PROVE  Consumer(release, project, all[k].name) = {[effective |-> bound[all[k].name].resolved]}
  BY DEF ConsumersAgreeIn
<1> DEFINE name == all[k].name
<1>1. /\ Len(eff) \in Nat /\ Len(wat) \in Nat /\ DOMAIN eff = 1..Len(eff) /\ DOMAIN wat = 1..Len(wat)
      /\ Len(all) = Len(eff) + Len(wat)
      /\ \A i \in 1..Len(eff) : all[i] = eff[i]
      /\ \A i \in 1..Len(wat) : all[Len(eff) + i] = wat[i]
  <2>1. eff \in Seq(Ref) /\ wat \in Seq(Ref)
    OBVIOUS
  <2> HIDE DEF eff, wat
  <2> QED BY <2>1
<1>2. SumOf(eff, wat, bound)
  BY BoundSummed
<1> HIDE DEF all, eff, wat, bound
<1>3. (\A i \in DOMAIN eff : eff[i].namespace \in {project, NoText})
  <2>1. ASSUME NEW i \in 1..Len(eff) PROVE i \in 1..Len(all) /\ all[i] = eff[i]
    BY <1>1
  <2> QED BY <1>1, <2>1
<1>4. (\A i \in DOMAIN wat : wat[i].namespace \in {project, NoText})
  <2>1. ASSUME NEW i \in 1..Len(wat) PROVE Len(eff) + i \in 1..Len(all) /\ all[Len(eff) + i] = wat[i]
    BY <1>1
  <2> QED BY <1>1, <2>1
<1>5. (\E i \in DOMAIN eff : eff[i].name = name) \/ \E i \in DOMAIN wat : wat[i].name = name
  <2>1. CASE k \in 1..Len(eff)
    BY <1>1, <2>1
  <2>2. CASE k \notin 1..Len(eff)
    <3>1. k - Len(eff) \in 1..Len(wat) /\ Len(eff) + (k - Len(eff)) = k
      BY <1>1, <2>2
    <3>2. all[Len(eff) + (k - Len(eff))] = wat[k - Len(eff)]
      BY <1>1, <3>1
    <3> QED BY <1>1, <3>1, <3>2
  <2> QED BY <2>1, <2>2
<1> HIDE DEF name
<1>6. name \in DOMAIN bound
  BY <1>2, <1>5 DEF SumOf
<1>7. bound[name].resolved \in BOOLEAN /\ (bound[name].resolved <=> \E i \in DOMAIN eff : eff[i].name = name)
  BY <1>2, <1>6 DEF SumOf
<1>8. (\E i \in DOMAIN eff : eff[i].name = name) <=> ReferencesConnection(eff, project, name)
  BY <1>3 DEF ReferencesConnection
<1>9. (\E i \in DOMAIN wat : wat[i].name = name) <=> ReferencesConnection(wat, project, name)
  BY <1>4 DEF ReferencesConnection
<1>10. Consumer(release, project, name) = {[effective |-> ReferencesConnection(eff, project, name)]}
  BY <1>5, <1>8, <1>9 DEF Consumer, eff, wat
<1>11. ReferencesConnection(eff, project, name) \in BOOLEAN
  BY DEF ReferencesConnection
<1>12. bound[name].resolved = ReferencesConnection(eff, project, name)
  BY <1>7, <1>8, <1>11
<1> QED BY <1>10, <1>12 DEF name, bound

(* Whatever connections with names of their own a project has, what          *)
(* ListSelectable offers is shown by exactly one of List and ListInternal.   *)
THEOREM OfferedAreShown ==
  ASSUME NEW connections, \A c, d \in connections : c.name = d.name => c = d,
         \A c \in connections : c.managed \in BOOLEAN, NEW contract
  PROVE  OfferedShownOnceIn(connections, contract)
<1> SUFFICES ASSUME NEW c \in connections
             PROVE  /\ c.managed <=> c.name \in ListInternal(connections)
                    /\ ~c.managed <=> c.name \in ListConnections(connections)
  BY DEF OfferedShownOnceIn, ListSelectable
<1> QED BY DEF ListInternal, ListConnections

(* Whatever conditions an object has before its last one, the status         *)
(* endpoints explain them alike.                                             *)
THEOREM StatusIsExplained ==
  ASSUME NEW Condition, NEW conditions \in Seq(Condition)
  PROVE  StatusExplainedIn(conditions)
<1> DEFINE n == Len(conditions)
<1> SUFFICES ASSUME n > 0, conditions[n].type = "Ready", \A i \in 1..n - 1 : conditions[i].type # "Ready"
             PROVE  LET s == StoreStatusResponse(conditions)
                        e == ExternalStatusResponse(conditions)
                    IN  /\ s.error = IF s.status = "Ready" THEN Blank ELSE conditions[n].message
                        /\ s.error = e.error /\ (s.status = "Ready") = (e.status = "Synced")
  BY DEF StatusExplainedIn
<1> DEFINE I == {i \in 1..n : conditions[i].type = "Ready"}
<1>1. n \in Nat /\ n \in 1..n /\ conditions # <<>>
  OBVIOUS
<1>2. I = {n}
  BY <1>1
<1>3. Min(I) = n
  BY <1>1, <1>2, MinIs
<1>4. SelectInSeq(conditions, LAMBDA c : c.type = "Ready") = Min(I)
  BY <1>1, <1>2 DEF SelectInSeq
<1> HIDE DEF n, I
<1>5. \A ready, empty, unready :
        StatusOf(conditions, ready, empty, unready) =
          CASE conditions[n].status = "True" -> ready
            [] conditions[n].status = "False" -> "Error"
            [] OTHER -> "Pending"
  BY <1>1, <1>3, <1>4 DEF StatusOf
<1>6. LastError(conditions) = IF conditions[n].status # "True" THEN conditions[n].message ELSE Blank
  BY <1>1 DEF LastError, n
<1> QED BY <1>5, <1>6 DEF StoreStatusResponse, ExternalStatusResponse, StoreStatus, ExternalStatus

(* In every namespace GetProjectMetrics and GetServiceMetrics agree.         *)
THEOREM MetricsAgreed == ASSUME NEW w PROVE MetricsAgreeIn(w)
  BY DEF MetricsAgreeIn, GetProjectMetrics, GetServiceMetrics, ListPods

(* What the list shows of a service. *)
LEMMA ListedAs ==
  ASSUME NEW w, NEW k \in DOMAIN w.releases
  PROVE  ListServices(w)[k] = EnrichPodHealth(w, SetURLIfExposed(w, ReleaseToInstance(w.releases[k])))
<1> DEFINE is == [j \in DOMAIN w.releases |-> ReleaseToInstance(w.releases[j])]
           i == ReleaseToInstance(w.releases[k])
           u == FirstExposed(IngressHosts(w), InstanceNames(w, i.release), CandidateHosts(i))
           shown == EnrichWithURL(w, is)
<1>1. is[k] = i /\ DOMAIN is = DOMAIN w.releases
  OBVIOUS
<1>2. [i EXCEPT !.url = None] = i
  BY DEF ReleaseToInstance
<1> HIDE DEF is, i
<1>3. shown[k] = (IF i.ns = None \/ InstanceNames(w, i.release) = {} THEN i
                  ELSE IF u = None THEN i ELSE [i EXCEPT !.url = u]) /\ DOMAIN shown = DOMAIN w.releases
  BY <1>1 DEF EnrichWithURL
<1>4. shown[k] = SetURLIfExposed(w, i)
  <2> HIDE DEF u, shown
  <2>1. SetURLIfExposed(w, i) = IF i.ns = None \/ InstanceNames(w, i.release) = {} THEN i ELSE [i EXCEPT !.url = u]
    BY DEF SetURLIfExposed, u
  <2> QED BY <1>2, <1>3, <2>1
<1>5. ListServices(w) = EnrichWithPodHealth(w, shown)
  BY DEF ListServices, is
<1> HIDE DEF shown
<1>6. EnrichWithPodHealth(w, shown)[k] = EnrichPodHealth(w, shown[k])
  BY <1>3 DEF EnrichWithPodHealth
<1> QED BY <1>4, <1>5, <1>6 DEF i

(* In every namespace the list, the page of a service and an event of the    *)
(* stream show the same of it.                                               *)
THEOREM ViewsAgreed == ASSUME NEW w PROVE ViewsAgreeIn(w)
<1> SUFFICES ASSUME NEW k \in DOMAIN w.releases
             PROVE  GetService(w, k) = ListServices(w)[k] /\ StreamService(w, k) = ListServices(w)[k]
  BY DEF ViewsAgreeIn
<1> DEFINE i == SetURLIfExposed(w, ReleaseToInstance(w.releases[k]))
<1>1. ListServices(w)[k] = EnrichPodHealth(w, i)
  BY ListedAs
<1>2. StreamService(w, k) = EnrichPodHealth(w, i)
  BY DEF StreamService, FromUnstructured, ReleaseToInstance
<1>3. GetService(w, k) = EnrichWithPodHealth(w, <<i>>)[1]
  BY DEF GetService
<1> HIDE DEF i
<1>4. EnrichWithPodHealth(w, <<i>>)[1] = EnrichPodHealth(w, i)
  BY DEF EnrichWithPodHealth
<1> QED BY <1>1, <1>2, <1>3, <1>4

(* A URL that is shown is a host of the service itself. *)
LEMMA ExposedIsOwn ==
  ASSUME NEW hosts, NEW names, NEW candidates, FirstExposed(hosts, names, candidates) # None
  PROVE  hosts[FirstExposed(hosts, names, candidates)] \in names
<1> DEFINE I == {i \in 1..Len(candidates) : candidates[i] \in DOMAIN hosts /\ hosts[candidates[i]] \in names}
           k == SelectInSeq(candidates, LAMBDA h : h \in DOMAIN hosts /\ hosts[h] \in names)
<1>1. FirstExposed(hosts, names, candidates) = IF k = 0 THEN None ELSE candidates[k]
  BY DEF FirstExposed
<1>2. k = IF I # {} THEN Min(I) ELSE 0
  BY DEF SelectInSeq
<1>3. I \in SUBSET Nat
  OBVIOUS
<1>4. \A i \in I : hosts[candidates[i]] \in names
  OBVIOUS
<1> HIDE DEF I, k
<1>5. k \in I
  BY <1>1, <1>2, <1>3, MinIs
<1> QED BY <1>1, <1>4, <1>5

LEMMA ListedURL ==
  ASSUME NEW w, NEW k \in DOMAIN w.releases, ListServices(w)[k].url # None
  PROVE  IngressHosts(w)[ListServices(w)[k].url] \in InstanceNames(w, w.releases[k].name)
<1> DEFINE r == ReleaseToInstance(w.releases[k])
           i == SetURLIfExposed(w, r)
           u == FirstExposed(IngressHosts(w), InstanceNames(w, r.release), CandidateHosts(r))
<1>1. r.url = None /\ r.release = w.releases[k].name /\ "url" \in DOMAIN r
  BY DEF ReleaseToInstance
<1> HIDE DEF r
<1>2. (i.url = None \/ i.url = u) /\ "url" \in DOMAIN i
  <2> HIDE DEF u
  <2> QED BY <1>1 DEF SetURLIfExposed, u
<1>3. \A x : "url" \in DOMAIN x => EnrichPodHealth(w, x).url = x.url
  BY DEF EnrichPodHealth
<1>4. ListServices(w)[k].url = i.url
  BY <1>2, <1>3, ListedAs DEF r
<1> HIDE DEF i, u
<1>5. u # None /\ ListServices(w)[k].url = u
  BY <1>2, <1>4
<1> QED BY <1>1, <1>5, ExposedIsOwn DEF u

(* In every namespace, where names are unique, no URL is shown for two       *)
(* services, however their candidate hosts coincide.                         *)
THEOREM URLsAreDistinct ==
  ASSUME NEW w, \A j, k \in DOMAIN w.releases : w.releases[j].name = w.releases[k].name => j = k
  PROVE  URLsDistinctIn(w)
<1> DEFINE l == ListServices(w)
<1>1. DOMAIN l = DOMAIN w.releases
  BY DEF ListServices, EnrichWithPodHealth, EnrichWithURL
<1> HIDE DEF l
<1> SUFFICES ASSUME NEW j \in DOMAIN l, NEW k \in DOMAIN l, j # k, l[j].url # None, l[j].url = l[k].url PROVE FALSE
  BY DEF URLsDistinctIn, l
<1>2. /\ IngressHosts(w)[l[j].url] \in InstanceNames(w, w.releases[j].name)
      /\ IngressHosts(w)[l[j].url] \in InstanceNames(w, w.releases[k].name)
  BY <1>1, ListedURL DEF l
<1>3. w.releases[j].name = w.releases[k].name
  BY <1>2 DEF InstanceNames
<1> QED BY <1>1, <1>3

(* Of two prefixes of one name, one is a prefix of the other. *)
LEMMA PrefixesCompare ==
  ASSUME NEW Part, NEW a \in Seq(Part), NEW b \in Seq(Part), NEW name \in Seq(Part),
         IsPrefix(a, name), IsPrefix(b, name), Len(a) <= Len(b)
  PROVE  IsPrefix(a, b)
<1>1. Len(a) \in Nat /\ Len(b) \in Nat /\ Len(name) \in Nat /\ Len(a) <= Len(name) /\ Len(b) <= Len(name)
  BY DEF IsPrefix
<1>2. ASSUME NEW x \in Seq(Part), IsPrefix(x, name), NEW i \in 1..Len(x) PROVE x[i] = name[i]
  <2>1. SubSeq(x, 1, Len(x))[i] = x[i]
    OBVIOUS
  <2>2. SubSeq(name, 1, Len(x))[i] = name[i]
    BY <1>2 DEF IsPrefix
  <2> QED BY <1>2, <2>1, <2>2 DEF IsPrefix
<1>3. \A i \in 1..Len(a) : a[i] = b[i]
  <2>1. ASSUME NEW i \in 1..Len(a) PROVE i \in 1..Len(b)
    BY <1>1
  <2> QED BY <1>2, <2>1
<1>4. SubSeq(a, 1, Len(a)) = [i \in 1..Len(a) |-> a[i]]
  OBVIOUS
<1>5. SubSeq(b, 1, Len(a)) = [i \in 1..Len(a) |-> b[i]]
  BY <1>1
<1> QED BY <1>3, <1>4, <1>5 DEF IsPrefix

(* The objects of a namespace: names are sequences, pods have finitely many  *)
(* containers.                                                               *)
Namespace(w, Part) ==
  /\ DOMAIN w.helm \subseteq Seq(Part)
  /\ \A p \in w.pods : p.name \in Seq(Part) /\ p.label \in Seq(Part) /\ IsFiniteSet(p.containers)

(* A pod with a container that fails is not fully ready. *)
LEMMA FailingCounts ==
  ASSUME NEW p, IsFiniteSet(p.containers), NEW c \in p.containers, Failing(c)
  PROVE  PodRow(p).ready < PodRow(p).total
<1> DEFINE own == {d \in p.containers : ~d.sidecar}
           ready == {d \in own : d.ready}
<1>1. IsFiniteSet(own)
  <2>1. own \in SUBSET p.containers
    OBVIOUS
  <2> QED BY <2>1, FS_Subset
<1>2. ready \in SUBSET own /\ c \in own /\ c \notin ready
  BY DEF Failing
<1>3. PodRow(p).ready = Cardinality(ready) /\ PodRow(p).total = Cardinality(own)
  BY DEF PodRow
<1> HIDE DEF own, ready
<1>4. IsFiniteSet(ready) /\ Cardinality(ready) <= Cardinality(own) /\ Cardinality(own) # Cardinality(ready)
  BY <1>1, <1>2, FS_Subset
<1>5. Cardinality(ready) \in Nat /\ Cardinality(own) \in Nat
  BY <1>1, <1>4, FS_CardinalityType
<1> QED BY <1>3, <1>4, <1>5

(* In every namespace, a service that is ready for KuboCD shows as failed    *)
(* exactly when a pod its page lists has a container that fails, provided    *)
(* no name continues another.                                                *)
THEOREM HealthIsOfPods == ASSUME NEW w, NEW Part, Namespace(w, Part) PROVE HealthMatchesPodsIn(w)
<1> SUFFICES ASSUME NEW k \in DOMAIN w.releases,
                    \A h, g \in DOMAIN w.helm \cup {p.label : p \in w.pods} : h # g => ~IsPrefix(h, g),
                    \A p \in w.pods : IsPrefix(p.label, p.name),
                    w.releases[k].phase = "READY", InstanceNames(w, w.releases[k].name) # {},
                    w.releases[k].target # None
             PROVE  (ListServices(w)[k].status = "Error") <=>
                      \E p \in ListPods(w, w.releases[k].name) :
                        PodRow(p).ready < PodRow(p).total /\ \E c \in p.containers : Failing(c)
  BY DEF HealthMatchesPodsIn
<1> DEFINE r == ReleaseToInstance(w.releases[k])
           i == SetURLIfExposed(w, r)
           names == InstanceNames(w, w.releases[k].name)
           sick(p) == \E c \in p.containers : Failing(c)
<1>1. /\ r.release = w.releases[k].name /\ r.status = "Ready" /\ r.ns = w.releases[k].target
      /\ DOMAIN r = {"name", "release", "service", "roles", "ns", "status", "url"}
  BY DEF ReleaseToInstance, StatusOfPhase
<1> HIDE DEF r
<1>2. i.release = w.releases[k].name /\ i.status = "Ready" /\ i.ns = w.releases[k].target /\ "status" \in DOMAIN i
  BY <1>1 DEF SetURLIfExposed
<1>3. ListServices(w)[k] = EnrichPodHealth(w, i)
  BY ListedAs DEF r
<1> HIDE DEF i
<1>4. ListServices(w)[k].status = CheckPodHealth(w.pods, names, "Ready")
  BY <1>2, <1>3 DEF EnrichPodHealth
<1>5. ListServices(w)[k].status = "Error" <=> \E p \in w.pods : MatchesInstance(p.name, names) /\ sick(p)
  BY <1>4 DEF CheckPodHealth
<1>6. ASSUME NEW p \in w.pods PROVE MatchesInstance(p.name, names) <=> p.label \in names
  <2>1. p.label \in names => MatchesInstance(p.name, names)
    BY DEF MatchesInstance
  <2>2. ASSUME NEW h \in names, IsPrefix(h, p.name) PROVE p.label = h
    <3>1. h \in DOMAIN w.helm
      BY DEF InstanceNames
    <3>2. h \in Seq(Part) /\ p.name \in Seq(Part) /\ p.label \in Seq(Part)
      BY <3>1 DEF Namespace
    <3>3. Len(h) <= Len(p.label) \/ Len(p.label) <= Len(h)
      BY <3>2
    <3>4. IsPrefix(h, p.label) \/ IsPrefix(p.label, h)
      BY <2>2, <3>2, <3>3, PrefixesCompare
    <3> QED BY <3>1, <3>4
  <2> QED BY <2>1, <2>2 DEF MatchesInstance
<1>7. \A p : p \in ListPods(w, w.releases[k].name) <=> p \in w.pods /\ p.label \in names
  BY DEF ListPods
<1> HIDE DEF names
<1>8. ASSUME NEW p \in w.pods, sick(p) PROVE PodRow(p).ready < PodRow(p).total
  BY <1>8, FailingCounts DEF Namespace
<1> QED BY <1>5, <1>6, <1>7, <1>8

-----------------------------------------------------------------------------
(* The inputs of the kinds that are about what is shown *)

LEMMA UptoSeq ==
  ASSUME NEW S, NEW n \in Nat, NEW s \in Upto(S, n)
  PROVE  s \in Seq(S) /\ \E k \in Nat : DOMAIN s = 1..k /\ \A i \in 1..k : s[i] \in S
<1>1. PICK k \in 0..n : s \in [1..k -> S]
  BY DEF Upto
<1>2. k \in Nat /\ DOMAIN s = 1..k /\ \A i \in 1..k : s[i] \in S
  BY <1>1
<1>3. s \in Seq(S)
  BY <1>1, <1>2
<1> QED BY <1>2, <1>3

LEMMA ShownInputs ==
  ASSUME Init
  PROVE  /\ Of("services") => input.value \in URLWorlds \cup PodWorlds \cup MetricWorlds \cup EventWorlds
         /\ Of("bindings") => input.value \in Bindings
         /\ Of("connections") => input.value \in OneEach
         /\ Of("consumers") => input.value \in [effective : Upto(NamespacedRefs, 2), watched : Upto(NamespacedRefs, 2)]
         /\ Of("conditions") => input.value \in Upto(Conditions, 2)
  BY DEF Init, Of

(* The parts of the names. *)
Parts == {"p", "kafka", "console", "seaweed", "main", "0", "1", "2"}

LEMMA Names ==
  /\ K \in Seq(Parts) /\ C \in Seq(Parts) /\ Z \in Seq(Parts) /\ None \in Seq(Parts)
  /\ \A h \in {K, C} : \A t \in {"0", "1", "2"} : h \o <<t>> \in Seq(Parts)
<1>1. \A x \in Parts : <<x>> \in Seq(Parts)
  OBVIOUS
<1>2. {"p", "kafka", "console", "seaweed", "main", "0", "1", "2"} \subseteq Parts
  BY DEF Parts
<1> HIDE DEF Parts
<1>3. K \in Seq(Parts) /\ C \in Seq(Parts) /\ Z \in Seq(Parts) /\ None \in Seq(Parts)
  BY <1>2 DEF K, C, Z, None
<1>4. \A h \in Seq(Parts) : \A t \in Parts : h \o <<t>> \in Seq(Parts)
  OBVIOUS
<1> QED BY <1>2, <1>3, <1>4

LEMMA ReleaseNames ==
  ASSUME NEW phases
  PROVE  /\ DOMAIN Releases(phases) = 1..3
         /\ \A j, k \in 1..3 : Releases(phases)[j].name = Releases(phases)[k].name => j = k
<1> DEFINE l == Releases(phases)
<1>1. /\ l[1].name = <<"p">> \o <<"kafka">> /\ l[2].name = <<"p">> \o <<"kafka", "console">>
      /\ l[3].name = <<"p">> \o <<"seaweed">> /\ DOMAIN l = 1..3
  BY DEF Releases, Rel
<1>2. ASSUME NEW x, NEW y
      PROVE  /\ (<<x>> \o <<y>>)[2] = y /\ Len(<<x>> \o <<y>>) = 2
             /\ \A z : (<<x>> \o <<y, z>>)[2] = y /\ Len(<<x>> \o <<y, z>>) = 3
  OBVIOUS
<1> HIDE DEF l
<1>3. l[1].name[2] = "kafka" /\ l[3].name[2] = "seaweed" /\ l[2].name[2] = "kafka"
  BY <1>1, <1>2
<1>4. Len(l[1].name) = 2 /\ Len(l[2].name) = 3
  BY <1>1, <1>2
<1>5. l[1].name # l[2].name /\ l[1].name # l[3].name /\ l[2].name # l[3].name
  BY <1>3, <1>4
<1> QED BY <1>1, <1>5 DEF l

(* What the theorems about services need of a world. *)
WorldFine(w) ==
  /\ \A j, k \in DOMAIN w.releases : w.releases[j].name = w.releases[k].name => j = k
  /\ Namespace(w, Parts)
  /\ \E n \in Nat : DOMAIN w.events = 1..n /\ \A i \in 1..n : EventTime(w.events[i]) \in Int

LEMMA WorldIsFine ==
  ASSUME NEW helm \in SUBSET {K, C, Z}, NEW ing, NEW pods, NEW phases, NEW events, NEW usage,
         \A p \in pods : p.name \in Seq(Parts) /\ p.label \in Seq(Parts) /\ IsFiniteSet(p.containers),
         \E n \in Nat : DOMAIN events = 1..n /\ \A i \in 1..n : EventTime(events[i]) \in Int
  PROVE  WorldFine(World(helm, ing, pods, Releases(phases), events, usage))
<1> DEFINE w == World(helm, ing, pods, Releases(phases), events, usage)
<1>1. w.releases = Releases(phases) /\ w.pods = pods /\ w.events = events /\ DOMAIN w.helm = helm
  BY DEF World, Restricted
<1> HIDE DEF w
<1>2. \A j, k \in DOMAIN w.releases : w.releases[j].name = w.releases[k].name => j = k
  BY <1>1, ReleaseNames
<1>3. helm \subseteq Seq(Parts)
  BY Names
<1>4. Namespace(w, Parts)
  BY <1>1, <1>3 DEF Namespace
<1>5. WorldFine(w)
  BY <1>1, <1>2, <1>4 DEF WorldFine
<1> QED BY <1>5 DEF w

LEMMA ContainersFinite == IsFiniteSet(Container)
<1> DEFINE c(a, b, d) == [sidecar |-> a, ready |-> b, fatal |-> d, limits |-> 2, requests |-> 3]
           S == {c(TRUE, TRUE, TRUE)} \cup {c(TRUE, TRUE, FALSE)} \cup {c(TRUE, FALSE, TRUE)} \cup {c(TRUE, FALSE, FALSE)}
                  \cup {c(FALSE, TRUE, TRUE)} \cup {c(FALSE, TRUE, FALSE)} \cup {c(FALSE, FALSE, TRUE)} \cup {c(FALSE, FALSE, FALSE)}
<1>1. IsFiniteSet(S)
  <2> HIDE DEF c
  <2> QED BY FS_Singleton, FS_Union
<1>2. \A x \in Container : \E a, b, d \in BOOLEAN : x = c(a, b, d)
  BY DEF Container
<1> HIDE DEF c
<1>3. \A a, b, d \in BOOLEAN : c(a, b, d) \in S
  OBVIOUS
<1> HIDE DEF S
<1>4. Container \in SUBSET S
  BY <1>2, <1>3
<1> QED BY <1>1, <1>4, FS_Subset

LEMMA PodIs ==
  ASSUME NEW h, NEW t, NEW cs
  PROVE  /\ Pod(h, t, cs).name = h \o <<t>> /\ Pod(h, t, cs).label = h /\ Pod(h, t, cs).containers = cs
         /\ DOMAIN Pod(h, t, cs) = {"name", "label", "containers"}
  BY DEF Pod

(* The inputs of kind services. *)
LEMMA WorldsFine ==
  ASSUME NEW w \in URLWorlds \cup PodWorlds \cup MetricWorlds \cup EventWorlds PROVE WorldFine(w)
<1>1. \E n \in Nat : DOMAIN <<>> = 1..n /\ \A i \in 1..n : EventTime(<<>>[i]) \in Int
  OBVIOUS
<1>2. CASE w \in URLWorlds
  <2>1. PICK helm, phase, ing :
          /\ helm \in {{K, C}, {C, Z}, {K, C, Z}}
          /\ w = URLWorld(helm, phase, ing)
    BY <1>2 DEF URLWorlds
  <2>2. helm \in SUBSET {K, C, Z}
    BY <2>1
  <2> QED BY <1>1, <2>1, <2>2, WorldIsFine DEF URLWorld
<1>3. CASE w \in PodWorlds
  <2>1. PICK helm, phases, cs1, cs2 :
          /\ helm \in {{K}, {K, C}} /\ cs1 \in SUBSET Container /\ cs2 \in SUBSET Container
          /\ w = PodWorld(helm, phases, cs1, cs2)
    BY <1>3 DEF PodWorlds
  <2>2. helm \in SUBSET {K, C, Z} /\ cs1 \in SUBSET Container /\ cs2 \in SUBSET Container
    BY <2>1
  <2>a. IsFiniteSet(cs1) /\ IsFiniteSet(cs2)
    BY <2>2, ContainersFinite, FS_Subset
  <2>3. ASSUME NEW p \in {Pod(K, "0", cs1), Pod(C, "0", cs2)}
        PROVE  p.name \in Seq(Parts) /\ p.label \in Seq(Parts) /\ IsFiniteSet(p.containers)
    <3>1. CASE p = Pod(K, "0", cs1)
      <4>1. p.name = K \o <<"0">> /\ p.label = K /\ p.containers = cs1
        BY <3>1, PodIs
      <4> QED BY <2>a, <4>1, Names
    <3>2. CASE p = Pod(C, "0", cs2)
      <4>1. p.name = C \o <<"0">> /\ p.label = C /\ p.containers = cs2
        BY <3>2, PodIs
      <4> QED BY <2>a, <4>1, Names
    <3> QED BY <3>1, <3>2
  <2> QED BY <1>1, <2>1, <2>2, <2>3, WorldIsFine DEF PodWorld
<1>4. CASE w \in MetricWorlds
  <2>1. PICK c1, c2, label, metered, u : label \in {C, None} /\ w = MetricWorld(c1, c2, label, metered, u)
    BY <1>4 DEF MetricWorlds
  <2> DEFINE pods == {Pod(K, "0", {c1}), Pod(K, "1", {c2}), [Pod(K, "2", {c2}) EXCEPT !.label = label]}
  <2>2. ASSUME NEW p \in pods PROVE p.name \in Seq(Parts) /\ p.label \in Seq(Parts) /\ IsFiniteSet(p.containers)
    <3>1. p.name \in {K \o <<"0">>, K \o <<"1">>, K \o <<"2">>} /\ p.label \in {K, label}
          /\ p.containers \in {{c1}, {c2}}
      BY DEF Pod
    <3> HIDE DEF pods
    <3>2. p.name \in Seq(Parts) /\ p.label \in Seq(Parts)
      BY <2>1, <3>1, Names
    <3> QED BY <3>1, <3>2, FS_Singleton
  <2>3. {K, C} \in SUBSET {K, C, Z}
    OBVIOUS
  <2> HIDE DEF pods
  <2> QED BY <1>1, <2>1, <2>2, <2>3, WorldIsFine DEF MetricWorld, pods
<1>5. CASE w \in EventWorlds
  <2>1. PICK events \in Upto(Events, 2) :
          w = World({K, C}, <<>>, {}, Releases(<<"FAILED", "READY">>), events, <<>>)
    BY <1>5 DEF EventWorlds
  <2>2. \A e \in Events : EventTime(e) \in Int
    BY DEF Events, EventTime
  <2>3. PICK n \in Nat : DOMAIN events = 1..n /\ \A i \in 1..n : events[i] \in Events
    BY UptoSeq
  <2>4. {K, C} \in SUBSET {K, C, Z}
    OBVIOUS
  <2> QED BY <2>1, <2>2, <2>3, <2>4, WorldIsFine
<1> QED BY <1>2, <1>3, <1>4, <1>5

(* What is shown of services, connections and stores is true and the same on *)
(* every page, for all inputs of the model.                                  *)
THEOREM ViewsTrueHolds == Spec => []ViewsTrue
<1>1. ASSUME Init PROVE ViewsTrue
  <2>1. ASSUME Of("services")
        PROVE  /\ URLsDistinctIn(input.value) /\ ViewsAgreeIn(input.value) /\ HealthMatchesPodsIn(input.value)
               /\ MetricsAgreeIn(input.value) /\ WarningIsLatestIn(input.value)
    <3>1. WorldFine(input.value)
      BY <1>1, <2>1, ShownInputs, WorldsFine
    <3>2. URLsDistinctIn(input.value)
      BY <3>1, URLsAreDistinct DEF WorldFine
    <3>3. HealthMatchesPodsIn(input.value)
      BY <3>1, HealthIsOfPods DEF WorldFine
    <3>4. WarningIsLatestIn(input.value)
      BY <3>1, LatestIsShown DEF WorldFine
    <3> QED BY <3>2, <3>3, <3>4, ViewsAgreed, MetricsAgreed
  <2>2. ASSUME Of("bindings") PROVE ConnectionsSummedIn(input.value)
    <3>1. input.value.effective \in Upto(Refs, 2) /\ input.value.watched \in Upto(Refs, 2)
      BY <1>1, <2>2, ShownInputs DEF Bindings
    <3>2. input.value.effective \in Seq(Refs) /\ input.value.watched \in Seq(Refs)
      BY <3>1, UptoSeq
    <3> QED BY <3>2, ConnectionsAreSummed
  <2>3. ASSUME Of("connections") PROVE OfferedShownOnceIn(input.value, input.contract)
    <3>1. /\ \A c, d \in input.value : c.name = d.name => c = d
          /\ \A c \in input.value : c.managed \in BOOLEAN
      BY <1>1, <2>3, ShownInputs DEF OneEach, SomeConnections
    <3> QED BY <3>1, OfferedAreShown
  <2>4. ASSUME Of("consumers") PROVE ConsumersAgreeIn(input.value, "p")
    <3>1. input.value.effective \in Upto(NamespacedRefs, 2) /\ input.value.watched \in Upto(NamespacedRefs, 2)
      BY <1>1, <2>4, ShownInputs
    <3>2. input.value.effective \in Seq(NamespacedRefs) /\ input.value.watched \in Seq(NamespacedRefs)
      BY <3>1, UptoSeq
    <3> QED BY <3>2, ConsumersAgreed
  <2>5. ASSUME Of("conditions") PROVE StatusExplainedIn(input.value)
    <3>1. input.value \in Seq(Conditions)
      BY <1>1, <2>5, ShownInputs, UptoSeq
    <3> QED BY <3>1, StatusIsExplained
  <2> QED BY <2>1, <2>2, <2>3, <2>4, <2>5
          DEF ViewsTrue, URLsDistinct, ViewsAgree, HealthMatchesPods, MetricsAgree, WarningIsLatest,
              ConnectionsSummed, OfferedShownOnce, ConsumersAgree, StatusExplained
<1>2. ViewsTrue /\ [Next]_input => ViewsTrue'
  BY DEF Next, Of, ViewsTrue, URLsDistinct, ViewsAgree, HealthMatchesPods, MetricsAgree, WarningIsLatest,
         ConnectionsSummed, OfferedShownOnce, ConsumersAgree, StatusExplained
<1> QED BY <1>1, <1>2, PTL DEF Spec

-----------------------------------------------------------------------------
(* The forms of connections *)

(* A contract descriptor in order: what its conditions and derivations look  *)
(* at comes before and is no credential, and what a field is derived from is *)
(* always asked for and leads to a value.  "secretRef" is kept for Create.   *)
Described(ct, n) ==
  /\ DOMAIN ct = 1..n /\ ValidateTypeDescriptor(ct)
  /\ \A i \in 1..n :
       /\ ct[i].name # "secretRef" /\ ct[i].secret \in BOOLEAN
       /\ \A c \in ct[i].showWhen : \E j \in 1..i - 1 : ct[j].name = c.field /\ ~ct[j].secret
       /\ ct[i].derivedFrom # NoText =>
            /\ ~ct[i].secret
            /\ \E j \in 1..i - 1 : /\ ct[j].name = ct[i].derivedFrom /\ ~ct[j].secret /\ ct[j].required
                                   /\ ct[j].type = "enum" /\ ct[j].showWhen = {} /\ ct[j].options \subseteq DOMAIN ct[i].map

IsMap(v) == v = [x \in DOMAIN v |-> v[x]]

(* Two forms that say the same of a field. *)
Same(a, b, x) == (x \in DOMAIN a <=> x \in DOMAIN b) /\ (x \in DOMAIN a => a[x] = b[x])

LEMMA SameText == ASSUME NEW a, NEW b, NEW x, Same(a, b, x) PROVE TextOf(a, x) = TextOf(b, x)
  BY DEF Same, TextOf

(* A turn of Normalize changes no field but its own. *)
LEMMA TurnElsewhere ==
  ASSUME NEW f, NEW out
  PROVE  /\ IsMap(out) => IsMap(NormalizeField(f, out, out))
         /\ \A x : x # f.name => Same(NormalizeField(f, out, out), out, x)
<1>1. \A v : IsMap(With(out, f.name, v)) /\ \A x : x # f.name => Same(With(out, f.name, v), out, x)
  BY DEF IsMap, Same, With
<1>2. IsMap(Without(out, {f.name})) /\ \A x : x # f.name => Same(Without(out, {f.name}), out, x)
  BY DEF IsMap, Same, Without
<1>3. \A x : Same(out, out, x)
  BY DEF Same
<1>4. \/ NormalizeField(f, out, out) = out
      \/ NormalizeField(f, out, out) = Without(out, {f.name})
      \/ \E v : NormalizeField(f, out, out) = With(out, f.name, v)
  BY DEF NormalizeField
<1> QED BY <1>1, <1>2, <1>3, <1>4

(* The turns for other fields leave a field as it is. *)
LEMMA RunElsewhere ==
  ASSUME NEW ct, NEW n \in Nat, NEW run,
         \A k \in 1..n : run[k] = NormalizeField(ct[k], run[k - 1], run[k - 1]),
         NEW x, NEW j \in 0..n, NEW m \in 0..n, j <= m, \A i \in 1..n : j < i /\ i <= m => ct[i].name # x
  PROVE  Same(run[m], run[j], x)
<1> DEFINE T == {k \in 0..n : j <= k /\ k <= m => Same(run[k], run[j], x)}
<1>1. 0 \in T
  BY DEF Same
<1>2. ASSUME NEW k \in 0..n, k \in T, k < n PROVE k + 1 \in T
  <2>1. k + 1 \in 1..n /\ k + 1 \in 0..n /\ (k + 1) - 1 = k
    BY <1>2
  <2>2. run[k + 1] = NormalizeField(ct[k + 1], run[k], run[k])
    BY <2>1
  <2>3. SUFFICES ASSUME j <= k + 1, k + 1 <= m PROVE Same(run[k + 1], run[j], x)
    BY <2>1
  <2>4. CASE j = k + 1
    BY <2>4 DEF Same
  <2>5. CASE j <= k
    <3>1. Same(run[k], run[j], x)
      BY <1>2, <2>3, <2>5
    <3>2. ct[k + 1].name # x
      BY <2>1, <2>3, <2>5
    <3>3. Same(run[k + 1], run[k], x)
      BY <2>2, <3>2, TurnElsewhere
    <3> QED BY <3>1, <3>3 DEF Same
  <2> QED BY <2>3, <2>4, <2>5
<1> HIDE DEF T
<1>3. \A k \in 0..n : k \in T
  BY <1>1, <1>2, Induction
<1> QED BY <1>3 DEF T

(* What Normalize makes of a form: no field is left whose condition is not   *)
(* met, a derived field has the value its source leads to, a field with a    *)
(* default has a value, and names outside the contract stay as they are.     *)
Normal(ct, n, values, out) ==
  /\ IsMap(out)
  /\ \A x : x \notin FieldNames(ct) => Same(out, values, x)
  /\ \A i \in 1..n :
       /\ ct[i].name \in DOMAIN out => Applies(ct[i], out)
       /\ Applies(ct[i], out) =>
            /\ ct[i].derivedFrom # NoText /\ TextOf(out, ct[i].derivedFrom) \in DOMAIN ct[i].map =>
                 ct[i].name \in DOMAIN out /\ out[ct[i].name] = Str(ct[i].map[TextOf(out, ct[i].derivedFrom)])
            /\ ct[i].derivedFrom = NoText /\ ct[i].default # {} /\ ~ct[i].secret => ct[i].name \in DOMAIN out

(* A turn, seen from its own field. *)
LEMMA TurnHere ==
  ASSUME NEW f, NEW out
  PROVE  LET new == NormalizeField(f, out, out) IN
         /\ f.name \in DOMAIN new => Applies(f, out)
         /\ Applies(f, out) =>
              /\ f.derivedFrom # NoText /\ TextOf(out, f.derivedFrom) \in DOMAIN f.map =>
                   f.name \in DOMAIN new /\ new[f.name] = Str(f.map[TextOf(out, f.derivedFrom)])
              /\ f.derivedFrom = NoText /\ f.default # {} /\ ~f.secret => f.name \in DOMAIN new
<1>1. \A v : f.name \in DOMAIN With(out, f.name, v) /\ With(out, f.name, v)[f.name] = v
  BY DEF With
<1>2. f.name \notin DOMAIN Without(out, {f.name})
  BY DEF Without
<1>3. CASE ~Applies(f, out)
  BY <1>2, <1>3 DEF NormalizeField
<1>4. CASE Applies(f, out) /\ f.derivedFrom # NoText
  BY <1>1, <1>4 DEF NormalizeField
<1>5. CASE Applies(f, out) /\ f.derivedFrom = NoText
  <2>1. NormalizeField(f, out, out) =
          IF f.name \notin DOMAIN out /\ f.default # {} /\ ~f.secret
          THEN With(out, f.name, CHOOSE d \in f.default : TRUE) ELSE out
    BY <1>5 DEF NormalizeField
  <2> QED BY <1>1, <1>5, <2>1
<1> QED BY <1>3, <1>4, <1>5

(* Conditions are the same in two forms that agree on what they look at. *)
LEMMA SameApplies ==
  ASSUME NEW f, NEW a, NEW b, \A c \in f.showWhen : TextOf(a, c.field) = TextOf(b, c.field)
  PROVE  Applies(f, a) <=> Applies(f, b)
  BY DEF Applies

LEMMA NormalizeIsNormal ==
  ASSUME NEW ct, NEW n \in Nat, Described(ct, n), NEW values, IsMap(values)
  PROVE  Normal(ct, n, values, Normalize(ct, values))
<1>0. /\ DOMAIN ct = 1..n /\ \A i, j \in 1..n : ct[i].name = ct[j].name => i = j
      /\ FieldNames(ct) = {ct[i].name : i \in 1..n}
  BY DEF Described, ValidateTypeDescriptor, FieldNames
<1>1. PICK run : /\ run[0] = values
                 /\ \A k \in 1..n : run[k] = NormalizeField(ct[k], run[k - 1], run[k - 1])
                 /\ run[n] = Normalize(ct, values)
  BY <1>0, NormalizeRuns
<1> DEFINE out == run[n]
<1>2. IsMap(out)
  <2> DEFINE T == {k \in 0..n : IsMap(run[k])}
  <2>1. 0 \in T
    BY <1>1
  <2>2. ASSUME NEW k \in 0..n, k \in T, k < n PROVE k + 1 \in T
    <3>1. k + 1 \in 1..n /\ k + 1 \in 0..n /\ (k + 1) - 1 = k
      BY <2>2
    <3>2. run[k + 1] = NormalizeField(ct[k + 1], run[k], run[k])
      BY <1>1, <3>1
    <3>3. IsMap(run[k + 1])
      BY <2>2, <3>2, TurnElsewhere
    <3> QED BY <3>1, <3>3
  <2> HIDE DEF T
  <2>3. n \in 0..n
    OBVIOUS
  <2>4. n \in T
    BY <2>1, <2>2, <2>3, Induction
  <2> QED BY <2>4 DEF T
<1>3. ASSUME NEW x, x \notin FieldNames(ct) PROVE Same(out, values, x)
  <2>1. 0 \in 0..n /\ n \in 0..n /\ 0 <= n /\ \A i \in 1..n : ct[i].name # x
    BY <1>0, <1>3
  <2> HIDE DEF out
  <2>2. Same(run[n], run[0], x)
    BY <1>1, <2>1, RunElsewhere
  <2> QED BY <1>1, <2>2 DEF out
<1>4. ASSUME NEW i \in 1..n, NEW j \in 1..i - 1 PROVE TextOf(run[i - 1], ct[j].name) = TextOf(out, ct[j].name)
  <2>1. /\ j \in 0..n /\ n \in 0..n /\ i - 1 \in 0..n /\ j \in 1..n /\ j <= i - 1 /\ j <= n
        /\ \A k \in 1..n : j < k => k # j
    OBVIOUS
  <2>2. \A k \in 1..n : j < k => ct[k].name # ct[j].name
    BY <1>0, <2>1
  <2>3. Same(run[i - 1], run[j], ct[j].name)
    BY <1>1, <2>1, <2>2, RunElsewhere
  <2>4. Same(run[n], run[j], ct[j].name)
    BY <1>1, <2>1, <2>2, RunElsewhere
  <2> QED BY <2>3, <2>4, SameText
<1>5. ASSUME NEW i \in 1..n
      PROVE  /\ ct[i].name \in DOMAIN out => Applies(ct[i], out)
             /\ Applies(ct[i], out) =>
                  /\ ct[i].derivedFrom # NoText /\ TextOf(out, ct[i].derivedFrom) \in DOMAIN ct[i].map =>
                       ct[i].name \in DOMAIN out /\ out[ct[i].name] = Str(ct[i].map[TextOf(out, ct[i].derivedFrom)])
                  /\ ct[i].derivedFrom = NoText /\ ct[i].default # {} /\ ~ct[i].secret => ct[i].name \in DOMAIN out
  <2> DEFINE f == ct[i]
             old == run[i - 1]
             new == run[i]
  <2>1. new = NormalizeField(f, old, old)
    BY <1>1
  <2>2. Same(out, new, f.name)
    <3>1. i \in 0..n /\ n \in 0..n /\ i <= n /\ \A k \in 1..n : i < k => k # i
      OBVIOUS
    <3>2. \A k \in 1..n : i < k /\ k <= n => ct[k].name # ct[i].name
      BY <1>0, <3>1
    <3> QED BY <1>1, <3>1, <3>2, RunElsewhere
  <2>3. \A c \in f.showWhen : TextOf(old, c.field) = TextOf(out, c.field)
    BY <1>4 DEF Described
  <2>4. f.derivedFrom # NoText => TextOf(old, f.derivedFrom) = TextOf(out, f.derivedFrom)
    BY <1>4 DEF Described
  <2> HIDE DEF f, old, new, out
  <2>5. Applies(f, old) <=> Applies(f, out)
    BY <2>3, SameApplies
  <2>6. /\ f.name \in DOMAIN new => Applies(f, old)
        /\ Applies(f, old) =>
              /\ f.derivedFrom # NoText /\ TextOf(old, f.derivedFrom) \in DOMAIN f.map =>
                   f.name \in DOMAIN new /\ new[f.name] = Str(f.map[TextOf(old, f.derivedFrom)])
              /\ f.derivedFrom = NoText /\ f.default # {} /\ ~f.secret => f.name \in DOMAIN new
    BY <2>1, TurnHere
  <2>7. /\ f.name \in DOMAIN out => Applies(f, out)
        /\ Applies(f, out) =>
             /\ f.derivedFrom # NoText /\ TextOf(out, f.derivedFrom) \in DOMAIN f.map =>
                  f.name \in DOMAIN out /\ out[f.name] = Str(f.map[TextOf(out, f.derivedFrom)])
             /\ f.derivedFrom = NoText /\ f.default # {} /\ ~f.secret => f.name \in DOMAIN out
    BY <2>2, <2>4, <2>5, <2>6 DEF Same
  <2> QED BY <2>7 DEF f
<1> HIDE DEF out
<1>6. Normal(ct, n, values, out)
  BY <1>2, <1>3, <1>5 DEF Normal
<1> QED BY <1>1, <1>6 DEF out

(* A form none of whose fields has anything to be done stays as it is. *)
LEMMA NormalizeFixed ==
  ASSUME NEW ct, NEW n \in Nat, DOMAIN ct = 1..n, NEW v, \A i \in 1..n : NormalizeField(ct[i], v, v) = v
  PROVE  Normalize(ct, v) = v
<1>1. PICK run : /\ run[0] = v
                 /\ \A k \in 1..n : run[k] = NormalizeField(ct[k], run[k - 1], run[k - 1])
                 /\ run[n] = Normalize(ct, v)
  BY NormalizeRuns
<1> DEFINE T == {k \in 0..n : run[k] = v}
<1>2. 0 \in T
  BY <1>1
<1>3. ASSUME NEW k \in 0..n, k \in T, k < n PROVE k + 1 \in T
  <2>1. k + 1 \in 1..n /\ k + 1 \in 0..n /\ (k + 1) - 1 = k
    BY <1>3
  <2>2. run[k + 1] = NormalizeField(ct[k + 1], run[k], run[k])
    BY <1>1, <2>1
  <2> QED BY <1>3, <2>1, <2>2
<1>4. n \in 0..n
  OBVIOUS
<1> HIDE DEF T
<1>5. n \in T
  BY <1>2, <1>3, <1>4, Induction
<1> QED BY <1>1, <1>5 DEF T

(* Forms that say the same of all fields but the credentials. *)
Kin(ct, n, a, b) == \A i \in 1..n : ~ct[i].secret => Same(a, b, ct[i].name)

LEMMA KinApplies ==
  ASSUME NEW ct, NEW n \in Nat, Described(ct, n), NEW a, NEW b, Kin(ct, n, a, b), NEW i \in 1..n
  PROVE  /\ Applies(ct[i], a) <=> Applies(ct[i], b)
         /\ ct[i].derivedFrom # NoText => TextOf(a, ct[i].derivedFrom) = TextOf(b, ct[i].derivedFrom)
<1>1. ASSUME NEW j \in 1..i - 1, ~ct[j].secret PROVE TextOf(a, ct[j].name) = TextOf(b, ct[j].name)
  <2>1. j \in 1..n
    OBVIOUS
  <2>2. Same(a, b, ct[j].name)
    BY <1>1, <2>1 DEF Kin
  <2> QED BY <2>2, SameText
<1>2. \A c \in ct[i].showWhen : TextOf(a, c.field) = TextOf(b, c.field)
  BY <1>1 DEF Described
<1>3. ct[i].derivedFrom # NoText => TextOf(a, ct[i].derivedFrom) = TextOf(b, ct[i].derivedFrom)
  BY <1>1 DEF Described
<1> QED BY <1>2, <1>3, SameApplies

LEMMA SecretsNamed ==
  ASSUME NEW ct, NEW n \in Nat, Described(ct, n)
  PROVE  /\ SecretNames(ct) = {ct[i].name : i \in {j \in 1..n : ct[j].secret}}
         /\ "secretRef" \notin FieldNames(ct) /\ "secretRef" \notin SecretNames(ct)
         /\ \A i \in 1..n : ct[i].name \in SecretNames(ct) <=> ct[i].secret
<1>1. \A i, j \in 1..n : ct[i].name = ct[j].name => i = j
  BY DEF Described, ValidateTypeDescriptor
<1>2. SecretNames(ct) = {ct[i].name : i \in {j \in 1..n : ct[j].secret}}
  BY DEF Described, SecretNames, ToSet
<1>3. "secretRef" \notin FieldNames(ct)
  BY DEF Described, FieldNames
<1>4. "secretRef" \notin SecretNames(ct)
  BY <1>2 DEF Described
<1>5. \A i \in 1..n : ct[i].name \in SecretNames(ct) <=> ct[i].secret
  BY <1>1, <1>2
<1> QED BY <1>2, <1>3, <1>4, <1>5

(* What Create and Update write: the public values, alone or with a          *)
(* reference to a Secret.                                                    *)
LEMMA StoredShape ==
  ASSUME NEW ct, NEW req, NEW previous
  PROVE  LET public == PublicValues(ct, RequestValues(ct, req.values))
         IN  StoredValues(ct, req, previous) = public \/ \E z : StoredValues(ct, req, previous) = With(public, "secretRef", z)
  BY DEF StoredValues

(* The public values of a normalised form, and what is stored of them. *)
LEMMA StoredKin ==
  ASSUME NEW ct, NEW n \in Nat, Described(ct, n), NEW values, NEW out, Normal(ct, n, values, out),
         NEW public, public = Without(Without(out, {"secretRef"}), SecretNames(ct)),
         NEW stored, stored = public \/ \E z : stored = With(public, "secretRef", z)
  PROVE  /\ IsMap(public) /\ IsMap(stored) /\ Without(stored, {"secretRef"}) = public
         /\ DOMAIN public \cap SecretNames(ct) = {} /\ DOMAIN stored \cap SecretNames(ct) = {}
         /\ "secretRef" \notin DOMAIN public
         /\ Kin(ct, n, Without(out, {"secretRef"}), out)
         /\ Kin(ct, n, public, out) /\ Kin(ct, n, stored, out)
<1>1. /\ IsMap(public) /\ DOMAIN public = (DOMAIN out \ {"secretRef"}) \ SecretNames(ct)
      /\ \A x \in DOMAIN public : public[x] = out[x]
  BY DEF Without, IsMap
<1>2. IsMap(stored) /\ DOMAIN stored \in {DOMAIN public, DOMAIN public \cup {"secretRef"}}
      /\ \A x \in DOMAIN public : stored[x] = public[x]
  <2>1. CASE stored = public
    BY <1>1, <2>1
  <2>2. ASSUME NEW z, stored = With(public, "secretRef", z)
        PROVE  /\ IsMap(stored) /\ DOMAIN stored = DOMAIN public \cup {"secretRef"}
               /\ \A x \in DOMAIN public : stored[x] = public[x]
    BY <1>1, <2>2 DEF With, IsMap
  <2> QED BY <2>1, <2>2
<1>3. Without(stored, {"secretRef"}) = public
  <2>1. DOMAIN stored \ {"secretRef"} = DOMAIN public
    BY <1>1, <1>2
  <2>2. Without(stored, {"secretRef"}) = [x \in DOMAIN public |-> public[x]]
    BY <1>2, <2>1 DEF Without
  <2> QED BY <1>1, <2>2 DEF IsMap
<1>4. \A i \in 1..n : ct[i].name # "secretRef" /\ (ct[i].name \in SecretNames(ct) <=> ct[i].secret)
  BY SecretsNamed DEF Described
<1>5. /\ DOMAIN Without(out, {"secretRef"}) = DOMAIN out \ {"secretRef"}
      /\ \A x \in DOMAIN out \ {"secretRef"} : Without(out, {"secretRef"})[x] = out[x]
  BY DEF Without
<1>6. Kin(ct, n, Without(out, {"secretRef"}), out)
  BY <1>4, <1>5 DEF Kin, Same
<1>7. Kin(ct, n, public, out)
  BY <1>1, <1>4 DEF Kin, Same
<1>8. Kin(ct, n, stored, out)
  BY <1>1, <1>2, <1>4 DEF Kin, Same
<1>9. "secretRef" \notin SecretNames(ct)
  BY SecretsNamed
<1> QED BY <1>1, <1>2, <1>3, <1>6, <1>7, <1>8, <1>9

(* Nothing is left to be done for what is stored: a client that sends back   *)
(* what it read changes nothing.                                             *)
LEMMA StoredFixed ==
  ASSUME NEW ct, NEW n \in Nat, Described(ct, n), NEW values, NEW out, Normal(ct, n, values, out),
         NEW stored, IsMap(stored), DOMAIN stored \cap SecretNames(ct) = {}, Kin(ct, n, stored, out)
  PROVE  Normalize(ct, stored) = stored
<1>1. ASSUME NEW i \in 1..n PROVE NormalizeField(ct[i], stored, stored) = stored
  <2> DEFINE f == ct[i]
  <2>1. /\ Applies(f, stored) <=> Applies(f, out)
        /\ f.derivedFrom # NoText => TextOf(stored, f.derivedFrom) = TextOf(out, f.derivedFrom)
    BY KinApplies
  <2>2. /\ f.name \in DOMAIN out => Applies(f, out)
        /\ Applies(f, out) =>
             /\ f.derivedFrom # NoText /\ TextOf(out, f.derivedFrom) \in DOMAIN f.map =>
                  f.name \in DOMAIN out /\ out[f.name] = Str(f.map[TextOf(out, f.derivedFrom)])
             /\ f.derivedFrom = NoText /\ f.default # {} /\ ~f.secret => f.name \in DOMAIN out
    BY DEF Normal
  <2>3. ~f.secret => Same(stored, out, f.name)
    BY DEF Kin
  <2>4. f.secret => f.name \notin DOMAIN stored /\ f.derivedFrom = NoText
    BY SecretsNamed DEF Described
  <2> HIDE DEF f
  <2>5. f.name \notin DOMAIN stored => Without(stored, {f.name}) = stored
    BY DEF Without, IsMap
  <2>6. f.name \in DOMAIN stored => With(stored, f.name, stored[f.name]) = stored
    <3>1. SUFFICES ASSUME f.name \in DOMAIN stored PROVE With(stored, f.name, stored[f.name]) = stored
      OBVIOUS
    <3>2. DOMAIN stored \cup {f.name} = DOMAIN stored
      BY <3>1
    <3>3. With(stored, f.name, stored[f.name]) = [x \in DOMAIN stored |-> stored[x]]
      BY <3>2 DEF With
    <3> QED BY <3>3 DEF IsMap
  <2>7. CASE ~Applies(f, stored)
    <3>1. f.name \notin DOMAIN stored
      BY <2>1, <2>2, <2>3, <2>4, <2>7 DEF Same
    <3> QED BY <2>5, <2>7, <3>1 DEF NormalizeField, f
  <2>8. CASE Applies(f, stored) /\ f.derivedFrom # NoText
    <3>1. CASE TextOf(stored, f.derivedFrom) \in DOMAIN f.map
      <4>1. f.name \in DOMAIN stored /\ stored[f.name] = Str(f.map[TextOf(stored, f.derivedFrom)])
        BY <2>1, <2>2, <2>3, <2>4, <2>8, <3>1 DEF Same
      <4>2. NormalizeField(f, stored, stored) = With(stored, f.name, Str(f.map[TextOf(stored, f.derivedFrom)]))
        BY <2>8, <3>1 DEF NormalizeField
      <4> QED BY <2>6, <4>1, <4>2 DEF f
    <3>2. CASE TextOf(stored, f.derivedFrom) \notin DOMAIN f.map
      BY <2>8, <3>2 DEF NormalizeField, f
    <3> QED BY <3>1, <3>2
  <2>9. CASE Applies(f, stored) /\ f.derivedFrom = NoText
    <3>1. ~(f.name \notin DOMAIN stored /\ f.default # {} /\ ~f.secret)
      BY <2>1, <2>2, <2>3, <2>9 DEF Same
    <3>2. NormalizeField(f, stored, stored) = stored
      BY <2>9, <3>1 DEF NormalizeField
    <3> QED BY <3>2 DEF f
  <2> QED BY <2>7, <2>8, <2>9
<1>2. DOMAIN ct = 1..n
  BY DEF Described
<1> QED BY <1>1, <1>2, NormalizeFixed

(* The fields of a form that is accepted, in what is made public of it. *)
LEMMA PublicValid ==
  ASSUME NEW ct, NEW n \in Nat, Described(ct, n), NEW values, NEW public, Kin(ct, n, public, values),
         DOMAIN public \subseteq DOMAIN values, DOMAIN public \cap SecretNames(ct) = {},
         NEW strict, Valid(ct, values, strict)
  PROVE  Valid(ct, public, FALSE)
<1>1. DOMAIN public \subseteq FieldNames(ct) /\ DOMAIN ct = 1..n
  BY DEF Valid, Described
<1>2. ASSUME NEW i \in 1..n, Applies(ct[i], public)
      PROVE  /\ ct[i].required /\ ~ct[i].secret =>
                  ct[i].name \in DOMAIN public /\ public[ct[i].name] \notin {Null, Str(NoText)}
             /\ ct[i].name \in DOMAIN public /\ public[ct[i].name] \notin {Null, Str(NoText)} =>
                  ValidField(ct[i], public[ct[i].name])
  <2> DEFINE f == ct[i]
  <2>1. Applies(f, values)
    BY <1>2, KinApplies
  <2>2. /\ f.required /\ ~f.secret => f.name \in DOMAIN values /\ values[f.name] \notin {Null, Str(NoText)}
        /\ f.name \in DOMAIN values /\ values[f.name] \notin {Null, Str(NoText)} => ValidField(f, values[f.name])
    BY <1>1, <2>1 DEF Valid
  <2>3. ~f.secret => Same(public, values, f.name)
    BY DEF Kin
  <2>4. f.secret => f.name \notin DOMAIN public
    BY SecretsNamed
  <2> HIDE DEF f
  <2>5. /\ f.required /\ ~f.secret => f.name \in DOMAIN public /\ public[f.name] \notin {Null, Str(NoText)}
        /\ f.name \in DOMAIN public /\ public[f.name] \notin {Null, Str(NoText)} => ValidField(f, public[f.name])
    BY <2>2, <2>3, <2>4 DEF Same
  <2> QED BY <2>5 DEF f
<1> QED BY <1>1, <1>2 DEF Valid

(* For every contract in order and every form: saving a connection as List   *)
(* shows it is accepted by validateRequest, and Update writes the same       *)
(* values, the reference to the Secret included.                             *)
THEOREM ConnectionFormRoundTrip ==
  ASSUME NEW ct, NEW n \in Nat, Described(ct, n), NEW req, IsMap(req.values)
  PROVE  ConnectionEditUnchangedIn(ct, req)
<1> DEFINE out == Normalize(ct, req.values)
           values == RequestValues(ct, req.values)
           public == PublicValues(ct, values)
           stored == StoredValues(ct, req, <<>>)
           again == [update |-> TRUE, existing |-> NoText, values |-> stored]
<1> SUFFICES ASSUME Accepted(ct, req) PROVE Accepted(ct, again) /\ StoredValues(ct, again, stored) = stored
  BY DEF ConnectionEditUnchangedIn
<1>1. Normal(ct, n, req.values, out)
  BY NormalizeIsNormal
<1>2. values = Without(out, {"secretRef"}) /\ public = Without(values, SecretNames(ct))
  BY DEF RequestValues, PublicValues
<1>3. stored = public \/ \E z : stored = With(public, "secretRef", z)
  BY StoredShape
<1>4. \E strict : Valid(ct, values, strict)
  BY DEF Accepted
<1> HIDE DEF out, values, public, stored
<1>5. public = Without(Without(out, {"secretRef"}), SecretNames(ct))
  BY <1>2
<1>6. /\ IsMap(public) /\ IsMap(stored) /\ Without(stored, {"secretRef"}) = public
      /\ DOMAIN public \cap SecretNames(ct) = {} /\ DOMAIN stored \cap SecretNames(ct) = {}
      /\ "secretRef" \notin DOMAIN public
      /\ Kin(ct, n, Without(out, {"secretRef"}), out)
      /\ Kin(ct, n, public, out) /\ Kin(ct, n, stored, out)
  BY <1>1, <1>3, <1>5, StoredKin
<1>7. Normalize(ct, stored) = stored
  BY <1>1, <1>6, StoredFixed
<1>8. again.values = stored /\ again.existing = NoText /\ again.update = TRUE
  OBVIOUS
<1> HIDE DEF again
<1>9. RequestValues(ct, again.values) = public
  BY <1>6, <1>7, <1>8 DEF RequestValues
<1>10. Valid(ct, public, FALSE)
  <2>1. Kin(ct, n, public, values)
    BY <1>2, <1>6 DEF Kin, Same
  <2>2. DOMAIN public \subseteq DOMAIN values
    BY <1>2 DEF Without
  <2> QED BY <1>4, <1>6, <2>1, <2>2, PublicValid
<1>11. Accepted(ct, again)
  <2>1. (~again.update /\ again.existing = NoText) = FALSE
    BY <1>8
  <2> QED BY <1>9, <1>10, <2>1 DEF Accepted
<1>12. PublicValues(ct, public) = public
  <2>1. DOMAIN public \ SecretNames(ct) = DOMAIN public
    BY <1>6
  <2> QED BY <1>6, <2>1 DEF PublicValues, Without, IsMap
<1>13. Credentials(ct, public) = {}
  BY <1>6 DEF Credentials
<1>14. StoredValues(ct, again, stored) =
         IF "secretRef" \in DOMAIN stored THEN With(public, "secretRef", stored["secretRef"]) ELSE public
  BY <1>8, <1>9, <1>12, <1>13 DEF StoredValues
<1>15. CASE "secretRef" \in DOMAIN stored
  <2>1. PICK z : stored = With(public, "secretRef", z)
    BY <1>3, <1>6, <1>15
  <2>2. stored["secretRef"] = z
    BY <2>1 DEF With
  <2> QED BY <1>11, <1>14, <1>15, <2>1, <2>2
<1>16. CASE "secretRef" \notin DOMAIN stored
  <2>1. \A z : "secretRef" \in DOMAIN With(public, "secretRef", z)
    BY DEF With
  <2> QED BY <1>3, <1>11, <1>14, <1>16, <2>1
<1> QED BY <1>15, <1>16

(* For every contract in order and every form: what Create and Update store  *)
(* of an accepted form has no credential, no field whose condition is not    *)
(* met, every required one, and derived values that follow their sources.    *)
THEOREM StoredIsCoherent ==
  ASSUME NEW ct, NEW n \in Nat, Described(ct, n), NEW req, IsMap(req.values)
  PROVE  StoredCoherentIn(ct, req)
<1> DEFINE out == Normalize(ct, req.values)
           values == RequestValues(ct, req.values)
           public == PublicValues(ct, values)
           stored == StoredValues(ct, req, <<>>)
<1>0. ToSet(ct) = {ct[i] : i \in 1..n} /\ DOMAIN ct = 1..n
  BY DEF ToSet, Described
<1> SUFFICES ASSUME Accepted(ct, req)
             PROVE  /\ DOMAIN stored \cap SecretNames(ct) = {}
                    /\ \A i \in 1..n :
                         /\ ct[i].name \in DOMAIN stored => Applies(ct[i], stored)
                         /\ Applies(ct[i], stored) =>
                              /\ ct[i].required /\ ~ct[i].secret =>
                                   ct[i].name \in DOMAIN stored /\ stored[ct[i].name] \notin {Null, Str(NoText)}
                              /\ ct[i].derivedFrom # NoText =>
                                   stored[ct[i].name].text = ct[i].map[stored[ct[i].derivedFrom].text]
  BY <1>0 DEF StoredCoherentIn
<1>1. Normal(ct, n, req.values, out)
  BY NormalizeIsNormal
<1>2. values = Without(out, {"secretRef"}) /\ public = Without(values, SecretNames(ct))
  BY DEF RequestValues, PublicValues
<1>3. stored = public \/ \E z : stored = With(public, "secretRef", z)
  BY StoredShape
<1>4. PICK strict : Valid(ct, values, strict)
  BY DEF Accepted
<1> HIDE DEF out, values, public, stored
<1>5. public = Without(Without(out, {"secretRef"}), SecretNames(ct))
  BY <1>2
<1>6. /\ DOMAIN stored \cap SecretNames(ct) = {}
      /\ Kin(ct, n, values, out) /\ Kin(ct, n, stored, out)
  BY <1>1, <1>2, <1>3, <1>5, StoredKin
<1>7. Kin(ct, n, stored, values)
  BY <1>6 DEF Kin, Same
<1>8. ASSUME NEW i \in 1..n, ~ct[i].secret, ct[i].required, Applies(ct[i], stored)
      PROVE  /\ ct[i].name \in DOMAIN stored /\ stored[ct[i].name] \notin {Null, Str(NoText)}
             /\ ValidField(ct[i], stored[ct[i].name])
  <2>1. Applies(ct[i], values)
    BY <1>7, <1>8, KinApplies
  <2>2. /\ ct[i].name \in DOMAIN values /\ values[ct[i].name] \notin {Null, Str(NoText)}
        /\ ValidField(ct[i], values[ct[i].name])
    BY <1>0, <1>4, <1>8, <2>1 DEF Valid
  <2>3. Same(stored, values, ct[i].name)
    BY <1>7, <1>8 DEF Kin
  <2> QED BY <2>2, <2>3 DEF Same
<1>9. ASSUME NEW i \in 1..n, ct[i].name \in DOMAIN stored PROVE Applies(ct[i], stored)
  <2>1. ~ct[i].secret
    BY <1>6, <1>9, SecretsNamed
  <2>2. ct[i].name \in DOMAIN out
    BY <1>6, <1>9, <2>1 DEF Kin, Same
  <2>3. Applies(ct[i], out)
    BY <1>1, <2>2 DEF Normal
  <2> QED BY <1>6, <2>3, KinApplies
<1>10. ASSUME NEW i \in 1..n, Applies(ct[i], stored), ct[i].derivedFrom # NoText
       PROVE  stored[ct[i].name].text = ct[i].map[stored[ct[i].derivedFrom].text]
  <2>1. PICK j \in 1..i - 1 : /\ ct[j].name = ct[i].derivedFrom /\ ~ct[j].secret /\ ct[j].required
                              /\ ct[j].type = "enum" /\ ct[j].showWhen = {} /\ ct[j].options \subseteq DOMAIN ct[i].map
    BY <1>10 DEF Described
  <2>2. j \in 1..n /\ Applies(ct[j], stored) /\ ~ct[i].secret
    BY <1>10, <2>1 DEF Applies, Described
  <2> DEFINE v == stored[ct[j].name]
  <2>3. ct[j].name \in DOMAIN stored /\ ValidField(ct[j], v)
    BY <1>8, <2>1, <2>2
  <2> HIDE DEF v
  <2>4. v.type = "string" /\ v.text \in ct[j].options
    BY <2>1, <2>3 DEF ValidField
  <2>5. TextOf(stored, ct[i].derivedFrom) = v.text
    BY <2>1, <2>3, <2>4 DEF TextOf, v
  <2>6. Applies(ct[i], out) /\ TextOf(out, ct[i].derivedFrom) = v.text
    BY <1>6, <1>10, <2>5, KinApplies
  <2>7. ct[i].name \in DOMAIN out /\ out[ct[i].name] = Str(ct[i].map[v.text])
    BY <1>1, <1>10, <2>1, <2>4, <2>6 DEF Normal
  <2>8. stored[ct[i].name] = Str(ct[i].map[v.text])
    BY <1>6, <2>2, <2>7 DEF Kin, Same
  <2>9. stored[ct[i].derivedFrom] = v
    BY <2>1 DEF v
  <2> QED BY <2>8, <2>9 DEF Str
<1> QED BY <1>6, <1>8, <1>9, <1>10

(* For every contract in order and every form: Test accepts what Create      *)
(* accepts, and tries the values Create stores.                              *)
THEOREM TestTriesTheStored ==
  ASSUME NEW ct, NEW n \in Nat, Described(ct, n), NEW req, IsMap(req.values)
  PROVE  TestTriesStoredIn(ct, req)
<1> DEFINE out == Normalize(ct, req.values)
           public == PublicValues(ct, RequestValues(ct, req.values))
           stored == StoredValues(ct, req, <<>>)
<1> SUFFICES ASSUME ~req.update, req.existing = NoText, "secretRef" \notin DOMAIN req.values
             PROVE  /\ Tested(ct, req.values) <=> Accepted(ct, req)
                    /\ PublicValues(ct, TestedValues(ct, req.values)) = Without(stored, {"secretRef"})
  BY DEF TestTriesStoredIn
<1>1. Normal(ct, n, req.values, out)
  BY NormalizeIsNormal
<1>2. "secretRef" \notin DOMAIN out
  BY <1>1, SecretsNamed DEF Normal, Same
<1>3. RequestValues(ct, req.values) = Without(out, {"secretRef"}) /\ TestedValues(ct, req.values) = out
  BY DEF RequestValues, TestedValues
<1>4. stored = public \/ \E z : stored = With(public, "secretRef", z)
  BY StoredShape
<1>a. public = Without(RequestValues(ct, req.values), SecretNames(ct))
  BY DEF PublicValues
<1> HIDE DEF out, stored, public
<1>5. Without(out, {"secretRef"}) = out
  <2>1. DOMAIN out \ {"secretRef"} = DOMAIN out /\ IsMap(out)
    BY <1>1, <1>2 DEF Normal
  <2> QED BY <2>1 DEF Without, IsMap
<1>6. public = Without(Without(out, {"secretRef"}), SecretNames(ct))
  BY <1>3, <1>a
<1>7. Without(stored, {"secretRef"}) = public
  BY <1>1, <1>4, <1>6, StoredKin
<1>8. PublicValues(ct, TestedValues(ct, req.values)) = public
  BY <1>3, <1>5, <1>6 DEF PublicValues
<1>9. Tested(ct, req.values) <=> Accepted(ct, req)
  <2>1. (~req.update /\ req.existing = NoText) = TRUE
    OBVIOUS
  <2> QED BY <1>3, <1>5, <2>1 DEF Tested, Accepted
<1> QED BY <1>7, <1>8, <1>9

-----------------------------------------------------------------------------
(* The contracts of the model, and all its forms *)

LEMMA NamesGiven ==
  \A x \in {"engine", "driver", "port", "password", "sslMode", "tls", "apiUrl", "region", "secretKey", "pathStyle"} :
    x # NoText /\ x # "secretRef"
  BY Zenon DEF NoText

LEMMA DatabaseFields ==
  LET ct == DatabaseServer
      map == [postgresql |-> "org.postgresql.Driver", mysql |-> "com.mysql.cj.jdbc.Driver"]
  IN  /\ DOMAIN ct = 1..6
      /\ /\ ct[1].name = "engine" /\ ct[1].type = "enum" /\ ct[1].secret = FALSE /\ ct[1].required = TRUE
         /\ ct[1].showWhen = {} /\ ct[1].derivedFrom = NoText /\ ct[1].options = {"postgresql", "mysql"}
      /\ /\ ct[2].name = "driver" /\ ct[2].type = "string" /\ ct[2].secret = FALSE
         /\ ct[2].showWhen = {} /\ ct[2].derivedFrom = "engine" /\ ct[2].map = map
      /\ /\ ct[3].name = "port" /\ ct[3].type = "number" /\ ct[3].secret = FALSE
         /\ ct[3].showWhen = {} /\ ct[3].derivedFrom = NoText
      /\ /\ ct[4].name = "password" /\ ct[4].type = "string" /\ ct[4].secret = TRUE
         /\ ct[4].showWhen = {} /\ ct[4].derivedFrom = NoText
      /\ /\ ct[5].name = "sslMode" /\ ct[5].type = "enum" /\ ct[5].secret = FALSE
         /\ ct[5].showWhen = {[field |-> "engine", value |-> "postgresql"]} /\ ct[5].derivedFrom = NoText
         /\ ct[5].options = {"prefer", "require"}
      /\ /\ ct[6].name = "tls" /\ ct[6].type = "enum" /\ ct[6].secret = FALSE
         /\ ct[6].showWhen = {[field |-> "engine", value |-> "mysql"]} /\ ct[6].derivedFrom = NoText
         /\ ct[6].options = {"true", "preferred"}
<1> DEFINE e1 == [Field("engine", "enum") EXCEPT !.required = TRUE, !.default = {Str("postgresql")},
                                                 !.options = {"postgresql", "mysql"}]
           e2 == [Field("driver", "string") EXCEPT !.required = TRUE, !.derivedFrom = "engine",
                    !.map = [postgresql |-> "org.postgresql.Driver", mysql |-> "com.mysql.cj.jdbc.Driver"]]
           e3 == [Field("port", "number") EXCEPT !.required = TRUE, !.default = {Num(5432)},
                                                 !.range = {[min |-> 1, max |-> 65535]}]
           e4 == [Field("password", "string") EXCEPT !.required = TRUE, !.secret = TRUE]
           e5 == [Field("sslMode", "enum") EXCEPT !.options = {"prefer", "require"}, !.default = {Str("prefer")},
                                                  !.showWhen = {[field |-> "engine", value |-> "postgresql"]}]
           e6 == [Field("tls", "enum") EXCEPT !.options = {"true", "preferred"},
                                              !.showWhen = {[field |-> "engine", value |-> "mysql"]}]
<1>0. DatabaseServer = <<e1, e2, e3, e4, e5, e6>>
  BY DEF DatabaseServer
<1>1. /\ e1.name = "engine" /\ e1.type = "enum" /\ e1.secret = FALSE /\ e1.required = TRUE
      /\ e1.showWhen = {} /\ e1.derivedFrom = NoText /\ e1.options = {"postgresql", "mysql"}
  BY DEF Field
<1>2. /\ e2.name = "driver" /\ e2.type = "string" /\ e2.secret = FALSE
      /\ e2.showWhen = {} /\ e2.derivedFrom = "engine"
      /\ e2.map = [postgresql |-> "org.postgresql.Driver", mysql |-> "com.mysql.cj.jdbc.Driver"]
  BY DEF Field
<1>3. /\ e3.name = "port" /\ e3.type = "number" /\ e3.secret = FALSE
      /\ e3.showWhen = {} /\ e3.derivedFrom = NoText
  BY DEF Field
<1>4. /\ e4.name = "password" /\ e4.type = "string" /\ e4.secret = TRUE
      /\ e4.showWhen = {} /\ e4.derivedFrom = NoText
  BY DEF Field
<1>5. /\ e5.name = "sslMode" /\ e5.type = "enum" /\ e5.secret = FALSE
      /\ e5.showWhen = {[field |-> "engine", value |-> "postgresql"]} /\ e5.derivedFrom = NoText
      /\ e5.options = {"prefer", "require"}
  BY DEF Field
<1>6. /\ e6.name = "tls" /\ e6.type = "enum" /\ e6.secret = FALSE
      /\ e6.showWhen = {[field |-> "engine", value |-> "mysql"]} /\ e6.derivedFrom = NoText
      /\ e6.options = {"true", "preferred"}
  BY DEF Field
<1> HIDE DEF e1, e2, e3, e4, e5, e6
<1>7. /\ DOMAIN <<e1, e2, e3, e4, e5, e6>> = 1..6
      /\ <<e1, e2, e3, e4, e5, e6>>[1] = e1 /\ <<e1, e2, e3, e4, e5, e6>>[2] = e2
      /\ <<e1, e2, e3, e4, e5, e6>>[3] = e3 /\ <<e1, e2, e3, e4, e5, e6>>[4] = e4
      /\ <<e1, e2, e3, e4, e5, e6>>[5] = e5 /\ <<e1, e2, e3, e4, e5, e6>>[6] = e6
  OBVIOUS
<1>8. /\ DOMAIN DatabaseServer = 1..6 /\ DatabaseServer[1] = e1 /\ DatabaseServer[2] = e2 /\ DatabaseServer[3] = e3
      /\ DatabaseServer[4] = e4 /\ DatabaseServer[5] = e5 /\ DatabaseServer[6] = e6
  BY <1>0, <1>7, Zenon
<1> QED BY <1>1, <1>2, <1>3, <1>4, <1>5, <1>6, <1>8

LEMMA S3Fields ==
  /\ DOMAIN S3 = 1..4
  /\ S3[1].name = "apiUrl" /\ S3[1].type = "string" /\ S3[2].name = "region" /\ S3[2].type = "string"
  /\ S3[3].name = "secretKey" /\ S3[3].type = "string" /\ S3[4].name = "pathStyle" /\ S3[4].type = "boolean"
  /\ \A i \in 1..4 : S3[i].showWhen = {} /\ S3[i].derivedFrom = NoText /\ S3[i].secret \in BOOLEAN
<1> DEFINE e1 == [Field("apiUrl", "string") EXCEPT !.required = TRUE]
           e2 == [Field("region", "string") EXCEPT !.default = {Str("us-east-1")}]
           e3 == [Field("secretKey", "string") EXCEPT !.required = TRUE, !.secret = TRUE]
           e4 == [Field("pathStyle", "boolean") EXCEPT !.default = {Bool("true")}]
<1>0. S3 = <<e1, e2, e3, e4>>
  BY Zenon DEF S3
<1>1. e1.name = "apiUrl" /\ e1.type = "string" /\ e1.showWhen = {} /\ e1.derivedFrom = NoText /\ e1.secret = FALSE
  BY DEF Field
<1>2. e2.name = "region" /\ e2.type = "string" /\ e2.showWhen = {} /\ e2.derivedFrom = NoText /\ e2.secret = FALSE
  BY DEF Field
<1>3. e3.name = "secretKey" /\ e3.type = "string" /\ e3.showWhen = {} /\ e3.derivedFrom = NoText /\ e3.secret = TRUE
  BY DEF Field
<1>4. e4.name = "pathStyle" /\ e4.type = "boolean" /\ e4.showWhen = {} /\ e4.derivedFrom = NoText /\ e4.secret = FALSE
  BY DEF Field
<1> HIDE DEF e1, e2, e3, e4
<1>5. /\ DOMAIN <<e1, e2, e3, e4>> = 1..4 /\ <<e1, e2, e3, e4>>[1] = e1 /\ <<e1, e2, e3, e4>>[2] = e2
      /\ <<e1, e2, e3, e4>>[3] = e3 /\ <<e1, e2, e3, e4>>[4] = e4
  OBVIOUS
<1>6. DOMAIN S3 = 1..4 /\ S3[1] = e1 /\ S3[2] = e2 /\ S3[3] = e3 /\ S3[4] = e4
  BY <1>0, <1>5, Zenon
<1>7. \A i \in 1..4 : i = 1 \/ i = 2 \/ i = 3 \/ i = 4
  OBVIOUS
<1>8. \A i \in 1..4 : S3[i].showWhen = {} /\ S3[i].derivedFrom = NoText /\ S3[i].secret \in BOOLEAN
  BY <1>1, <1>2, <1>3, <1>4, <1>6, <1>7
<1> QED BY <1>1, <1>2, <1>3, <1>4, <1>6, <1>8

LEMMA S3Described == Described(S3, 4)
<1>1. \A i \in 1..4 : i = 1 \/ i = 2 \/ i = 3 \/ i = 4
  OBVIOUS
<1>2. \A i \in 1..4 : S3[i].name # NoText /\ S3[i].name # "secretRef" /\ S3[i].type \in {"string", "boolean"}
  BY <1>1, S3Fields, NamesGiven
<1>3. \A i, j \in 1..4 : S3[i].name = S3[j].name => i = j
  BY <1>1, S3Fields
<1>4. S3 # <<>>
  <2>1. DOMAIN <<>> = {} /\ 1 \in 1..4
    OBVIOUS
  <2> QED BY <2>1, S3Fields, Zenon
<1>5. ValidateTypeDescriptor(S3)
  BY <1>2, <1>3, <1>4, S3Fields DEF ValidateTypeDescriptor
<1> QED BY <1>2, <1>5, S3Fields DEF Described

LEMMA DatabaseDescribed == Described(DatabaseServer, 6)
<1>1. \A i \in 1..6 : i = 1 \/ i = 2 \/ i = 3 \/ i = 4 \/ i = 5 \/ i = 6
  OBVIOUS
<1>2. \A i \in 1..6 : DatabaseServer[i].name # NoText /\ DatabaseServer[i].name # "secretRef"
  BY <1>1, DatabaseFields, NamesGiven
<1>3. \A i, j \in 1..6 : DatabaseServer[i].name = DatabaseServer[j].name => i = j
  BY <1>1, DatabaseFields
<1>4. \A i \in 1..6 :
        /\ DatabaseServer[i].type \in {"string", "number", "boolean", "enum"}
        /\ DatabaseServer[i].type = "enum" => DatabaseServer[i].options # {}
        /\ DatabaseServer[i].secret \in BOOLEAN
  BY <1>1, DatabaseFields
<1>5. DatabaseServer # <<>> /\ DOMAIN DatabaseServer = 1..6
  <2>1. DOMAIN <<>> = {} /\ 1 \in 1..6
    OBVIOUS
  <2>2. DOMAIN DatabaseServer = 1..6
    BY DatabaseFields
  <2> QED BY <2>1, <2>2, Zenon
<1>6. \A i \in 1..6 : \A c \in DatabaseServer[i].showWhen :
        \E j \in 1..i - 1 : DatabaseServer[j].name = c.field /\ ~DatabaseServer[j].secret
  <2>1. DatabaseServer[1].name = "engine" /\ ~DatabaseServer[1].secret /\ 1 \in 1..5 - 1 /\ 1 \in 1..6 - 1
    BY DatabaseFields
  <2>2. \A i \in 1..6 : \A c \in DatabaseServer[i].showWhen : i \in {5, 6} /\ c.field = "engine"
    BY <1>1, DatabaseFields
  <2> QED BY <2>1, <2>2
<1>7. \A i \in 1..6 : DatabaseServer[i].derivedFrom # NoText => i = 2
  BY <1>1, DatabaseFields
<1>8. /\ ~DatabaseServer[2].secret /\ 1 \in 1..2 - 1
      /\ DatabaseServer[1].name = DatabaseServer[2].derivedFrom /\ ~DatabaseServer[1].secret /\ DatabaseServer[1].required
      /\ DatabaseServer[1].type = "enum" /\ DatabaseServer[1].showWhen = {}
      /\ DatabaseServer[1].options \subseteq DOMAIN DatabaseServer[2].map
  BY DatabaseFields
<1>9. ValidateTypeDescriptor(DatabaseServer)
  <2>1. \A i \in 1..6 :
          /\ DatabaseServer[i].name # NoText
          /\ \A j \in 1..6 : DatabaseServer[j].name = DatabaseServer[i].name => j = i
          /\ DatabaseServer[i].type \in {"string", "number", "boolean", "enum"}
          /\ DatabaseServer[i].type = "enum" => DatabaseServer[i].options # {}
    BY <1>2, <1>3, <1>4, Zenon
  <2> QED BY <1>5, <2>1, Zenon DEF ValidateTypeDescriptor
<1>10. \A i \in 1..6 :
         DatabaseServer[i].derivedFrom # NoText =>
           /\ ~DatabaseServer[i].secret
           /\ \E j \in 1..i - 1 :
                /\ DatabaseServer[j].name = DatabaseServer[i].derivedFrom /\ ~DatabaseServer[j].secret /\ DatabaseServer[j].required
                /\ DatabaseServer[j].type = "enum" /\ DatabaseServer[j].showWhen = {}
                /\ DatabaseServer[j].options \subseteq DOMAIN DatabaseServer[i].map
  BY <1>7, <1>8, Zenon
<1>11. \A i \in 1..6 : DatabaseServer[i].name # "secretRef" /\ DatabaseServer[i].secret \in BOOLEAN
  BY <1>2, <1>4, Zenon
<1> QED BY <1>5, <1>6, <1>9, <1>10, <1>11, Zenon DEF Described

(* What MC_Forms sends through the forms. *)
LEMMA FormInputs ==
  ASSUME Init
  PROVE  /\ Of("connection") => /\ input.contract \in {DatabaseServer, S3}
                                /\ input.value.values \in DatabaseValues \cup S3Values
         /\ Of("external") => input.value \in ExternalRequests
  BY DEF Init, Of

LEMMA SentIsMap == ASSUME NEW v \in DatabaseValues \cup S3Values PROVE IsMap(v)
<1>1. PICK form : v = Sent(form)
  BY DEF DatabaseValues, S3Values
<1>2. IsMap(Sent(form))
  BY DEF Sent, IsMap
<1> QED BY <1>1, <1>2

(* EditUnchanged of every form of MC_Forms: its two contracts are in order.  *)
THEOREM EditUnchangedHolds == Spec => []EditUnchanged
<1>1. ASSUME Init PROVE EditUnchanged
  <2>1. ASSUME Of("connection") PROVE ConnectionEditUnchangedIn(input.contract, input.value)
    <3>1. IsMap(input.value.values) /\ input.contract \in {DatabaseServer, S3}
      BY <1>1, <2>1, FormInputs, SentIsMap
    <3>2. \E n \in Nat : Described(input.contract, n)
      BY <3>1, DatabaseDescribed, S3Described
    <3> QED BY <3>1, <3>2, ConnectionFormRoundTrip
  <2> QED BY <2>1, StoreFormRoundTrip, ExternalFormRoundTrip
          DEF EditUnchanged, ConnectionEditUnchanged, StoreEditUnchanged, ExternalEditUnchanged
<1>2. EditUnchanged /\ [Next]_input => EditUnchanged'
  BY DEF Next, Of, EditUnchanged, ConnectionEditUnchanged, StoreEditUnchanged, ExternalEditUnchanged
<1> QED BY <1>1, <1>2, PTL DEF Spec

(* FormsCoherent of every form of MC_Forms. *)
THEOREM FormsCoherentHolds == Spec => []FormsCoherent
<1>1. ASSUME Init PROVE FormsCoherent
  <2>1. ASSUME Of("connection")
        PROVE  StoredCoherentIn(input.contract, input.value) /\ TestTriesStoredIn(input.contract, input.value)
    <3>1. IsMap(input.value.values) /\ input.contract \in {DatabaseServer, S3}
      BY <1>1, <2>1, FormInputs, SentIsMap
    <3>2. \E n \in Nat : Described(input.contract, n)
      BY <3>1, DatabaseDescribed, S3Described
    <3> QED BY <3>1, <3>2, StoredIsCoherent, TestTriesTheStored
  <2>2. ASSUME Of("external") PROVE KeysMappedOnceIn(input.value)
    <3>1. input.value.data \in Upto(Mappings, 1) \cup Upto(Mappings, 2)
      BY <1>1, <2>2, FormInputs DEF ExternalRequests
    <3>2. input.value.data \in Seq(Mappings)
      BY <3>1, UptoSeq
    <3> QED BY <3>2, KeysHaveOneSource
  <2> QED BY <2>1, <2>2 DEF FormsCoherent, StoredCoherent, TestTriesStored, KeysMappedOnce
<1>2. FormsCoherent /\ [Next]_input => FormsCoherent'
  BY DEF Next, Of, FormsCoherent, StoredCoherent, TestTriesStored, KeysMappedOnce
<1> QED BY <1>1, <1>2, PTL DEF Spec

-----------------------------------------------------------------------------
(* Packages *)

(* What such a loop makes of a list: the elements that are kept, and no more. *)
LEMMA AmongIs ==
  ASSUME NEW S, NEW X, NEW s \in Seq(X)
  PROVE  Among(s, S) \in Seq(X) /\ ToSet(Among(s, S)) = {e \in ToSet(s) : e \in S}
<1>1. PICK n \in Nat : n = Len(s) /\ DOMAIN s = 1..n /\ \A i \in 1..n : s[i] \in X
  OBVIOUS
<1>2. PICK run : /\ run[0] = <<>> /\ \A k \in 1..n : run[k] = Keep(S, run[k - 1], s[k])
                 /\ run[n] = Among(s, S)
  BY <1>1, AmongRuns
<1> DEFINE T == {k \in 0..n : run[k] \in Seq(X) /\ ToSet(run[k]) = {e \in {s[i] : i \in 1..k} : e \in S}}
<1>3. 0 \in T
  <2>1. 1..0 = {} /\ 0 \in 0..n /\ <<>> \in Seq(X) /\ ToSet(<<>>) = {}
    BY DEF ToSet
  <2> QED BY <1>2, <2>1
<1>4. ASSUME NEW k \in 0..n, k \in T, k < n PROVE k + 1 \in T
  <2>1. k + 1 \in 1..n /\ k + 1 \in 0..n /\ (k + 1) - 1 = k /\ 1..k + 1 = (1..k) \cup {k + 1}
    BY <1>4
  <2>2. run[k + 1] = Keep(S, run[k], s[k + 1]) /\ s[k + 1] \in X
    BY <1>1, <1>2, <2>1
  <2>3. run[k] \in Seq(X) /\ ToSet(run[k]) = {e \in {s[i] : i \in 1..k} : e \in S}
    BY <1>4
  <2>4. {s[i] : i \in 1..k + 1} = {s[i] : i \in 1..k} \cup {s[k + 1]}
    BY <2>1
  <2> HIDE DEF T
  <2>5. CASE s[k + 1] \in S
    <3>1. run[k + 1] = Append(run[k], s[k + 1])
      BY <2>2, <2>5 DEF Keep
    <3>2. ASSUME NEW q \in Seq(X), NEW e \in X PROVE ToSet(Append(q, e)) = ToSet(q) \cup {e}
      <4>1. PICK m \in Nat : m = Len(q)
        OBVIOUS
      <4>2. /\ DOMAIN q = 1..m /\ DOMAIN Append(q, e) = 1..m + 1 /\ Append(q, e)[m + 1] = e
            /\ \A i \in 1..m : Append(q, e)[i] = q[i]
        BY <4>1
      <4>3. 1..m + 1 = (1..m) \cup {m + 1}
        OBVIOUS
      <4> QED BY <4>2, <4>3 DEF ToSet
    <3>3. run[k + 1] \in Seq(X) /\ ToSet(run[k + 1]) = ToSet(run[k]) \cup {s[k + 1]}
      BY <2>2, <2>3, <3>1, <3>2
    <3>4. ToSet(run[k + 1]) = {e \in {s[i] : i \in 1..k + 1} : e \in S}
      BY <2>3, <2>4, <2>5, <3>3
    <3> QED BY <2>1, <3>3, <3>4 DEF T
  <2>6. CASE s[k + 1] \notin S
    <3>1. run[k + 1] = run[k]
      BY <2>2, <2>6 DEF Keep
    <3>2. ToSet(run[k + 1]) = {e \in {s[i] : i \in 1..k + 1} : e \in S}
      BY <2>3, <2>4, <2>6, <3>1
    <3> QED BY <2>1, <2>3, <3>1, <3>2 DEF T
  <2> QED BY <2>5, <2>6
<1> HIDE DEF T
<1>5. n \in T
  <2>1. n \in 0..n
    OBVIOUS
  <2> QED BY <1>3, <1>4, <2>1, Induction
<1>6. ToSet(s) = {s[i] : i \in 1..n}
  BY <1>1 DEF ToSet
<1> QED BY <1>2, <1>5, <1>6 DEF T

(* However many parameters a package has and in whatever order Go walks      *)
(* them: inputsFromMarkers offers the same inputs, and every connectionRef   *)
(* with a contract is one of them, under its name and as mandatory as the    *)
(* parameters say, whatever inputsOf adds.                                   *)
THEOREM InputsAreDetermined ==
  ASSUME NEW Parameters, ParamOrder \in Seq(Parameters), NEW Entries, NEW doc, doc.inputs \in Seq(Entries),
         DOMAIN doc.properties \subseteq ToSet(ParamOrder)
  PROVE  InputsDeterminedIn(doc)
<1> DEFINE props == doc.properties
           refs == {n \in DOMAIN props : props[n] \notin {"none", Missing}}
           sorted == Among(ParamOrder, refs)
           markers == [i \in DOMAIN sorted |->
                        [alias |-> sorted[i], contract |-> props[sorted[i]], parameter |-> sorted[i],
                         optional |-> sorted[i] \notin doc.required]]
           orders == {o \in [1..Len(ParamOrder) -> ToSet(ParamOrder)] : ToSet(o) = ToSet(ParamOrder)}
<1>1. ASSUME NEW o \in Seq(Parameters), ToSet(o) = ToSet(ParamOrder), doc.hasParameters
      PROVE  InputsFromMarkers(doc, o) = markers
  <2> DEFINE marked == Among(o, refs)
  <2>1. ToSet(marked) = {e \in ToSet(o) : e \in refs}
    <3> HIDE DEF refs
    <3> QED BY AmongIs
  <2>2. ToSet(marked) = refs
    BY <1>1, <2>1
  <2>3. InputsFromMarkers(doc, o) =
          [i \in DOMAIN Among(ParamOrder, ToSet(marked)) |->
             [alias |-> Among(ParamOrder, ToSet(marked))[i], contract |-> props[Among(ParamOrder, ToSet(marked))[i]],
              parameter |-> Among(ParamOrder, ToSet(marked))[i],
              optional |-> Among(ParamOrder, ToSet(marked))[i] \notin doc.required]]
    BY <1>1, Zenon DEF InputsFromMarkers
  <2> HIDE DEF marked, refs
  <2> QED BY <2>2, <2>3, Zenon
<1>2. \A o \in orders : o \in Seq(Parameters) /\ ToSet(o) = ToSet(ParamOrder)
  <2>1. Len(ParamOrder) \in Nat /\ ToSet(ParamOrder) \subseteq Parameters
    BY DEF ToSet
  <2>2. ASSUME NEW o, NEW m \in Nat, NEW Y, Y \subseteq Parameters, o \in [1..m -> Y] PROVE o \in Seq(Parameters)
    <3>1. o \in Seq(Y)
      BY <2>2
    <3> QED BY <2>2
  <2> QED BY <2>1, <2>2
<1>3. \A o \in orders : PackageInputs(doc, o) = PackageInputs(doc, ParamOrder)
  <2> HIDE DEF markers, orders
  <2> QED BY <1>1, <1>2 DEF PackageInputs
<1>4. ASSUME doc.hasParameters, NEW n \in DOMAIN props, props[n] \notin {"none", Missing}
      PROVE  LET inputs == PackageInputs(doc, ParamOrder).inputs
             IN  \E i \in DOMAIN inputs : /\ inputs[i].alias = n /\ inputs[i].contract = props[n]
                                          /\ inputs[i].optional = (n \notin doc.required)
  <2>1. PackageInputs(doc, ParamOrder).inputs = markers \o InputsOf(doc)
    <3>1. InputsFromMarkers(doc, ParamOrder) = markers
      BY <1>1, <1>4
    <3> HIDE DEF markers
    <3> QED BY <1>4, <3>1 DEF PackageInputs
  <2>2. n \in refs /\ n \in ToSet(ParamOrder)
    BY <1>4
  <2>3. sorted \in Seq(Parameters) /\ n \in ToSet(sorted)
    <3> HIDE DEF refs
    <3> QED BY <2>2, AmongIs
  <2> HIDE DEF sorted
  <2>4. PICK i \in DOMAIN sorted : sorted[i] = n
    BY <2>3 DEF ToSet
  <2>5. DOMAIN markers = 1..Len(sorted) /\ Len(sorted) \in Nat /\ i \in 1..Len(sorted)
    BY <2>3, <2>4
  <2>6. /\ markers[i].alias = n /\ markers[i].contract = props[n] /\ markers[i].optional = (n \notin doc.required)
    BY <2>4
  <2>7. InputsOf(doc) \in Seq({InputsOf(doc)[j] : j \in DOMAIN InputsOf(doc)})
    <3> DEFINE about == Among(doc.inputs, {e \in ToSet(doc.inputs) : e.contract # Missing})
    <3>1. about \in Seq(Entries)
      BY AmongIs
    <3>2. /\ DOMAIN InputsOf(doc) = DOMAIN about
          /\ InputsOf(doc) = [j \in DOMAIN InputsOf(doc) |-> InputsOf(doc)[j]]
      BY DEF InputsOf
    <3> HIDE DEF about
    <3>3. DOMAIN about = 1..Len(about) /\ Len(about) \in Nat
      BY <3>1
    <3> QED BY <3>2, <3>3
  <2>8. markers \in Seq({markers[j] : j \in DOMAIN markers})
    <3>1. markers = [j \in DOMAIN markers |-> markers[j]]
      OBVIOUS
    <3> HIDE DEF markers
    <3> QED BY <2>5, <3>1
  <2> HIDE DEF markers
  <2>9. ASSUME NEW A, NEW B, NEW a \in Seq(A), NEW b \in Seq(B), i \in DOMAIN a
        PROVE  i \in DOMAIN (a \o b) /\ (a \o b)[i] = a[i]
    <3>1. a \in Seq(A \cup B) /\ b \in Seq(A \cup B)
      OBVIOUS
    <3> QED BY <2>9, <3>1
  <2>10. i \in DOMAIN (markers \o InputsOf(doc)) /\ (markers \o InputsOf(doc))[i] = markers[i]
    BY <2>5, <2>7, <2>8, <2>9
  <2> QED BY <2>1, <2>6, <2>10
<1>5. PackageInputs(doc, ParamOrder).ok => doc.hasParameters
  BY DEF PackageInputs
<1> HIDE DEF orders
<1> QED BY <1>3, <1>4, <1>5 DEF InputsDeterminedIn, orders

(* For every registry, credentials file and service: with the credential of  *)
(* the host, or none, listOCITags lists the tags exactly when the registry   *)
(* would serve some request that can be made, and GetServiceVersions falls   *)
(* back on the default version otherwise.                                    *)
THEOREM ReadableIsListed ==
  ASSUME NEW world, world.registry.realm \in BOOLEAN, world.registry.public \in BOOLEAN,
         \A a \in world.auths : a.secret \in {"right", "wrong"}
  PROVE  ReadableListedIn(world)
<1> DEFINE reg == world.registry
           tokens(cred) == reg.realm /\ (TokenEndpoint(reg, cred).token \/ TokenEndpoint(reg, cred).access_token)
           usable(cred) == {"none"} \cup (IF tokens(cred) \/ tokens("nil") THEN {"bearer"} ELSE {})
                             \cup (IF cred = "right" THEN {"basic right"} ELSE {})
<1>1. CredentialFor(world.auths, "host") \ {"wrong"} \subseteq {"nil", "right", "error"}
  BY DEF CredentialFor
<1>2. ASSUME NEW cred \in {"nil", "right"}
      PROVE  (RegistryGet(reg, cred) = 200) <=> \E a \in usable(cred) : RegistryStatus(reg, a) = 200
  <2>1. \A c : tokens(c) <=> /\ reg.realm /\ (c = "right" \/ (c = "nil" /\ reg.public))
                             /\ reg.tokenField \in {"token", "access_token"}
    BY DEF TokenEndpoint
  <2>2. FetchToken(reg, cred) <=> reg.challenge = "bearer" /\ tokens(cred)
    BY DEF FetchToken
  <2>3. tokens("nil") => tokens(cred)
    BY <2>1
  <2>4. /\ "none" \in usable(cred) /\ ("bearer" \in usable(cred) <=> tokens(cred) \/ tokens("nil"))
        /\ ("basic right" \in usable(cred) <=> cred = "right")
        /\ \A a \in usable(cred) : a \in {"none", "bearer", "basic right"}
    <3> HIDE DEF tokens
    <3> QED OBVIOUS
  <2> HIDE DEF tokens, usable
  <2>5. 401 # 200 /\ 0 # 200
    OBVIOUS
  <2>6. RegistryGet(reg, cred) = 200 <=>
          \/ reg.challenge = "open"
          \/ reg.challenge = "basic" /\ cred = "right"
          \/ reg.challenge = "bearer" /\ tokens(cred)
    <3> HIDE DEF reg
    <3>1. CASE reg.challenge = "open"
      <4>1. RegistryStatus(reg, "none") = 200 /\ RegistryStatus(reg, "none") # 401
        BY <3>1 DEF RegistryStatus
      <4>2. RegistryGet(reg, cred) = RegistryStatus(reg, "none")
        BY <4>1, Zenon DEF RegistryGet
      <4> QED BY <3>1, <4>1, <4>2
    <3>2. CASE reg.challenge = "basic"
      <4>1. RegistryStatus(reg, "none") = 401 /\ RegistryStatus(reg, "basic right") = 200
        BY <3>2 DEF RegistryStatus
      <4>2. CASE cred = "nil"
        <5>1. RegistryGet(reg, cred) = 0
          BY <3>2, <4>1, <4>2, Zenon DEF RegistryGet
        <5> QED BY <2>5, <3>2, <4>2, <5>1, Zenon
      <4>3. CASE cred = "right"
        <5>1. RegistryGet(reg, cred) = RegistryStatus(reg, "basic right")
          BY <3>2, <4>1, <4>3, Zenon DEF RegistryGet
        <5> QED BY <3>2, <4>1, <4>3, <5>1, Zenon
      <4> QED BY <4>2, <4>3
    <3>3. CASE reg.challenge = "bearer"
      <4>1. RegistryStatus(reg, "none") = 401 /\ RegistryStatus(reg, "bearer") = 200
        BY <3>3 DEF RegistryStatus
      <4>2. CASE tokens(cred)
        <5>1. RegistryGet(reg, cred) = 200
          BY <2>2, <3>3, <4>1, <4>2 DEF RegistryGet
        <5> QED BY <3>3, <4>2, <5>1
      <4>3. CASE ~tokens(cred)
        <5>1. RegistryGet(reg, cred) = 0
          BY <2>2, <3>3, <4>1, <4>3 DEF RegistryGet
        <5> QED BY <2>5, <3>3, <4>3, <5>1, Zenon
      <4> QED BY <4>2, <4>3
    <3>4. CASE reg.challenge \notin {"open", "basic", "bearer"}
      <4>1. RegistryStatus(reg, "none") = 401
        BY <3>4 DEF RegistryStatus
      <4>2. RegistryGet(reg, cred) = 0
        BY <2>2, <3>4, <4>1, Zenon DEF RegistryGet
      <4> QED BY <2>5, <3>4, <4>2, Zenon
    <3> QED BY <3>1, <3>2, <3>3, <3>4, Zenon
  <2> HIDE DEF reg
  <2>7. ASSUME NEW a
        PROVE  RegistryStatus(reg, a) = 200 <=>
                 \/ reg.challenge = "open"
                 \/ reg.challenge = "basic" /\ a = "basic right"
                 \/ reg.challenge = "bearer" /\ a = "bearer"
    BY <2>5 DEF RegistryStatus
  <2>8. ASSUME RegistryGet(reg, cred) = 200 PROVE \E a \in usable(cred) : RegistryStatus(reg, a) = 200
    <3>1. CASE reg.challenge = "open"
      BY <2>4, <2>7, <3>1
    <3>2. CASE reg.challenge = "basic" /\ cred = "right"
      BY <2>4, <2>7, <3>2
    <3>3. CASE reg.challenge = "bearer" /\ tokens(cred)
      BY <2>4, <2>7, <3>3
    <3> QED BY <2>6, <2>8, <3>1, <3>2, <3>3
  <2>9. ASSUME NEW a \in usable(cred), RegistryStatus(reg, a) = 200 PROVE RegistryGet(reg, cred) = 200
    <3>1. CASE reg.challenge = "open"
      BY <2>6, <3>1
    <3>2. CASE reg.challenge = "basic" /\ a = "basic right"
      BY <2>4, <2>6, <2>9, <3>2
    <3>3. CASE reg.challenge = "bearer" /\ a = "bearer"
      BY <2>3, <2>4, <2>6, <2>9, <3>3
    <3> QED BY <2>7, <2>9, <3>1, <3>2, <3>3
  <2> QED BY <2>8, <2>9
<1>3. ASSUME NEW cred \in CredentialFor(world.auths, "host") \ {"wrong"}
      PROVE  ListOCITags(reg, cred) <=> cred # "error" /\ \E a \in usable(cred) : RegistryStatus(reg, a) = 200
  <2> HIDE DEF reg, usable
  <2> QED BY <1>1, <1>2, <1>3 DEF ListOCITags
<1>4. ASSUME NEW cred
      PROVE  ServiceVersions(world.service, "host", reg, cred).versions =
               IF ListOCITags(reg, cred) THEN {"tags"}
               ELSE IF world.service.default = Missing THEN {} ELSE {world.service.default}
  BY DEF ServiceVersions
<1>5. ASSUME NEW cred \in CredentialFor(world.auths, "host") \ {"wrong"}
      PROVE  ServiceVersions(world.service, "host", reg, cred).versions =
               IF cred # "error" /\ \E a \in usable(cred) : RegistryStatus(reg, a) = 200 THEN {"tags"}
               ELSE IF world.service.default = Missing THEN {} ELSE {world.service.default}
  <2> HIDE DEF reg, usable
  <2> QED BY <1>3, <1>4
<1> QED BY <1>5, Zenon DEF ReadableListedIn
=============================================================================
