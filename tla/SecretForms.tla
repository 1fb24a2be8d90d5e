----------------------------- MODULE SecretForms -----------------------------
(***************************************************************************)
(* The conversions of secret stores and external secrets: what a request   *)
(* must have, the object built from it, and what is shown of an object.    *)
(* Blank is an empty string, "absent" a field that is not sent.            *)
(***************************************************************************)
EXTENDS Naturals, SequencesExt

Blank == ""

(* A request for a store: vault stands for server, path and version, which   *)
(* must all be given; account is a pointer.                                  *)
StoreRequests ==
  [name : {Blank, "name"}, provider : {"vault", "other"}, vault : {"absent", Blank, "v1", "v2"},
   auth : {"absent", "token", "kubernetes", "other"}, role : {Blank, "role"},
   account : {"absent", Blank, "own", "Not_A_Name"}, mount : {Blank, "kubernetes", "k8s-2"},
   ca : {Blank, "pem"}, default : BOOLEAN]

(* validateRequest *)
ValidStoreRequest(req) ==
  /\ req.name # Blank /\ req.provider = "vault" /\ req.vault \in {"v1", "v2"}
  /\ \/ req.auth = "token"
     \/ req.auth = "kubernetes" /\ req.role # Blank /\ req.account # "Not_A_Name"

(* buildSecretStoreCRD *)
BuildStore(req) ==
  [name |-> req.name, vault |-> req.vault, ca |-> req.ca, default |-> req.default,
   auth |-> IF req.auth = "token" THEN [tokenRef |-> TRUE]
            ELSE [tokenRef |-> FALSE, role |-> req.role,
                  mount |-> IF req.mount = Blank THEN "kubernetes" ELSE req.mount,
                  account |-> IF req.account \in {"absent", Blank} THEN "default" ELSE req.account]]

(* Mutant: the mount path is not read back. *)
StoreToResponse_NoMount(store) ==
  LET kube == ~store.auth.tokenRef
  IN  [name |-> store.name, provider |-> "vault", vault |-> store.vault, ca |-> store.ca, default |-> store.default,
       auth |-> IF kube THEN "kubernetes" ELSE "token", mount |-> Blank,
       role |-> IF kube THEN store.auth.role ELSE Blank, account |-> IF kube THEN store.auth.account ELSE "absent"]

(* toResponse: the token is never part of it. *)
StoreToResponse(store) ==
  LET kube == ~store.auth.tokenRef
  IN  [name |-> store.name, provider |-> "vault", vault |-> store.vault, ca |-> store.ca, default |-> store.default,
       auth |-> IF kube THEN "kubernetes" ELSE "token",
       mount |-> IF kube THEN store.auth.mount ELSE Blank, role |-> IF kube THEN store.auth.role ELSE Blank,
       account |-> IF kube THEN store.auth.account ELSE "absent"]

(* UpdateSecretStore, the part about the account: absent keeps the one in use. *)
KeepAccount(req, store) ==
  IF req.auth = "kubernetes" /\ req.account = "absent" /\ ~store.auth.tokenRef
  THEN [req EXCEPT !.account = store.auth.account] ELSE req

(* deriveOverallStatus and deriveExternalSecretStatus: the first condition of *)
(* type Ready decides; empty and unready name what the two say otherwise.     *)
StatusOf(conditions, ready, empty, unready) ==
  LET k == SelectInSeq(conditions, LAMBDA c : c.type = "Ready")
  IN  IF conditions = <<>> THEN empty
      ELSE IF k = 0 THEN unready
      ELSE CASE conditions[k].status = "True" -> ready
             [] conditions[k].status = "False" -> "Error"
             [] OTHER -> "Pending"

StoreStatus(conditions) == StatusOf(conditions, "Ready", "Unknown", "Pending")
ExternalStatus(conditions) == StatusOf(conditions, "Synced", "Pending", "Unknown")

(* Mutant: the error is that of the first condition. *)
LastError_First(conditions) ==
  IF conditions # <<>> /\ conditions[1].status # "True" THEN conditions[1].message ELSE Blank

(* LastError, of the last condition, in the list and in the status alike. *)
LastError(conditions) ==
  IF conditions = <<>> THEN Blank
  ELSE LET last == conditions[Len(conditions)]
       IN  IF last.status # "True" THEN last.message ELSE Blank

(* GetSecretStoreStatus and GetExternalSecretStatus *)
StoreStatusResponse(conditions) == [status |-> StoreStatus(conditions), error |-> LastError(conditions)]
ExternalStatusResponse(conditions) == [status |-> ExternalStatus(conditions), error |-> LastError(conditions)]

-----------------------------------------------------------------------------

(* A request for an external secret: names and the interval are given,        *)
(* missing or malformed; data is a sequence of mappings.                      *)
Given == {Blank, "Not_A_Name", "ok"}
Mappings == [key : {Blank, "a/b", "user", "password"}, remote : {Blank, "path"}, property : {Blank, "p"}]

(* Mutant: a key may be mapped twice. *)
ValidExternalRequest_Duplicates(req) ==
  /\ req.name = "ok" /\ req.store # Blank /\ req.target = "ok"
  /\ req.interval \in {"0", "1h"} /\ req.data # <<>>
  /\ \A i \in DOMAIN req.data : req.data[i].key \notin {Blank, "a/b"} /\ req.data[i].remote # Blank

(* validateExternalSecretRequest: an interval of zero is legal. *)
ValidExternalRequest(req) ==
  /\ req.name = "ok" /\ req.store # Blank /\ req.target = "ok"
  /\ req.interval \in {"0", "1h"} /\ req.data # <<>>
  /\ \A i \in DOMAIN req.data :
       /\ req.data[i].key \notin {Blank, "a/b"} /\ req.data[i].remote # Blank
       /\ \A j \in 1..i - 1 : req.data[j].key # req.data[i].key

(* buildExternalSecretCRD *)
BuildExternal(req) ==
  [name |-> req.name, store |-> req.store, kind |-> "SecretStore", target |-> req.target, policy |-> "Owner",
   interval |-> req.interval, data |-> req.data]

(* Mutant: the property of a mapping is not read back. *)
ExternalToResponse_NoProperty(es) ==
  [name |-> es.name, store |-> es.store, target |-> es.target, policy |-> es.policy, interval |-> es.interval,
   data |-> [i \in DOMAIN es.data |-> [es.data[i] EXCEPT !.property = Blank]]]

(* toResponse *)
ExternalToResponse(es) ==
  [name |-> es.name, store |-> es.store, target |-> es.target, policy |-> es.policy, interval |-> es.interval,
   data |-> es.data]

-----------------------------------------------------------------------------

(* Saving the form of a store as it is shown changes nothing: what the       *)
(* response says is accepted again, and rebuilds the same object.  The CR is *)
(* rebuilt from the request, so a field not read back would be reset.        *)
StoreEditUnchangedIn(req) ==
  ValidStoreRequest(req) =>
    LET store == BuildStore(req)
        shown == StoreToResponse(store)
    IN  ValidStoreRequest(shown) /\ BuildStore(KeepAccount(shown, store)) = store

(* The same for an external secret this server made. *)
ExternalEditUnchangedIn(req) ==
  ValidExternalRequest(req) =>
    LET es == BuildExternal(req)
        shown == ExternalToResponse(es)
        again == [name |-> shown.name, store |-> shown.store, target |-> shown.target,
                  interval |-> shown.interval, data |-> shown.data]
    IN  ValidExternalRequest(again) /\ BuildExternal(again) = es

(* "Two mappings writing the same key would silently keep one value and drop *)
(* the other": in what is built no key of the Secret has two sources.        *)
KeysMappedOnceIn(req) ==
  ValidExternalRequest(req) =>
    LET data == BuildExternal(req).data
    IN  \A i, j \in DOMAIN data : data[i].key = data[j].key => i = j

(* For the conditions ESO publishes, Ready last, an object that is fine      *)
(* shows no error and one that is not shows the message there is; an error   *)
(* comes only with a status that is not fine.                                *)
StatusExplainedIn(conditions) ==
  LET n == Len(conditions)
      s == StoreStatusResponse(conditions)
      e == ExternalStatusResponse(conditions)
  IN  n > 0 /\ conditions[n].type = "Ready" /\ (\A i \in 1..n - 1 : conditions[i].type # "Ready") =>
        /\ s.error = IF s.status = "Ready" THEN Blank ELSE conditions[n].message
        /\ s.error = e.error /\ (s.status = "Ready") = (e.status = "Synced")
=============================================================================
