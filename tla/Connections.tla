----------------------------- MODULE Connections -----------------------------
(***************************************************************************)
(* The external connections of one project: DefaultConnectionService over  *)
(* k8sConnectionRepository.  A connection is a Connection object plus, for *)
(* a contract with credential fields, a Secret; Kubernetes has no          *)
(* transaction over the two, so a request is a sequence of API calls, each *)
(* of which is one action here and may fail.  Requests, the KuboCD release *)
(* controller (which publishes managed connections) and whoever projects   *)
(* Secrets of its own into the namespace interleave between the calls.     *)
(*                                                                         *)
(* Resource versions are modelled by who still holds the current one: a    *)
(* read puts the request in connRV or secretRV, any write of that object   *)
(* takes every request on it out again.  UIDs likewise: connUID holds the  *)
(* requests whose Connection has not been deleted since they read it.      *)
(***************************************************************************)
EXTENDS Naturals, FiniteSets

CONSTANTS
  Requests,       \* concurrent requests to the connection handlers
  Names,          \* connection names, valid DNS subdomains
  OtherSecrets,   \* Secret names that follow no connection's convention
  Contracts,      \* external contracts of the catalog
  OpenContracts,  \* the ones without credential fields (hive, trino, ...)
  Fields,         \* credential fields of the other contracts, all required
  LostAnswers,    \* may a failed create of a Connection have been applied?
  Absent          \* no object, no name

ASSUME ConnectionsAssumption ==
  /\ OpenContracts \subseteq Contracts
  /\ LostAnswers \in BOOLEAN

VARIABLES
  connections,  \* the Connection objects of the namespace
  secrets,      \* the Secret objects of the namespace
  requests,     \* what each request asks for, and how far it is
  connUID,      \* requests that hold the UID of their Connection
  connRV,       \* ... and its current resource version
  secretRV,     \* requests that hold the current version of their Secret
  debris        \* history: Secrets the server is known to have left behind

vars == <<connections, secrets, requests, connUID, connRV, secretRV, debris>>

-----------------------------------------------------------------------------
(* Objects *)

(* name + credentialsSecretSuffix *)
Cred(n) == <<n, "credentials">>

SecretNames == {Cred(n) : n \in Names} \cup OtherSecrets

(* ContractDescriptor.SecretFields *)
SecretFields(contract) == IF contract \in OpenContracts THEN {} ELSE Fields

(* Connection: the contract, spec.values.secretRef, the two credentials     *)
(* annotations (secret is Absent when they are not there), and IsManaged.   *)
Connection ==
  [contract : Contracts, ref : SecretNames \cup {Absent},
   secret : SecretNames \cup {Absent}, owned : BOOLEAN, managed : BOOLEAN]

(* A Secret: the managed-by label and the keys of its data. *)
Secret == [managed : BOOLEAN, keys : SUBSET Fields]

ConnectionOrAbsent == Connection \cup {Absent}
SecretOrAbsent == Secret \cup {Absent}

(* No object and no name is one. *)
ASSUME AbsentAssumption ==
  Absent \notin SecretNames /\ Absent \notin Connection /\ Absent \notin Secret

(* A request: the operation and its payload (fields are the credentials     *)
(* submitted, existing is ExistingSecret), and the locals of its handler:   *)
(* the Connection it read and the keys of the Secret it read.               *)
Locations ==
  {"idle", "validate", "get", "secretGet", "secretCreate", "secretUpdate",
   "create", "rollback", "rvGet", "put", "dropOrphan", "delete", "dropSecret"}

Request ==
  [pc : Locations, op : {"create", "update", "delete"}, name : Names \cup {Absent},
   contract : Contracts \cup {Absent}, existing : SecretNames \cup {Absent},
   fields : SUBSET Fields, seen : ConnectionOrAbsent, keys : SUBSET Fields]

(* credentialsOwned: without annotations, the naming convention decides. *)
CredentialsOwned(connection, n, s) ==
  IF connection.secret = Absent THEN s = Cred(n) ELSE connection.owned

(* credentialsSecretOf: the Secret of a connection and whether this server  *)
(* wrote it.                                                                *)
CredentialsSecretOf(connection, n) ==
  LET s == IF connection.secret = Absent THEN Cred(n) ELSE connection.secret
  IN [name |-> s, owned |-> CredentialsOwned(connection, n, s)]

TypeOK ==
  /\ connections \in [Names -> ConnectionOrAbsent]
  /\ secrets \in [SecretNames -> SecretOrAbsent]
  /\ requests \in [Requests -> Request]
  /\ connUID \subseteq Requests
  /\ connRV \subseteq Requests
  /\ secretRV \subseteq Requests
  /\ debris \subseteq SecretNames

NewRequest(pc, op, n, contract, existing, fields) ==
  [pc |-> pc, op |-> op, name |-> n, contract |-> contract, existing |-> existing,
   fields |-> fields, seen |-> Absent, keys |-> {}]

IdleRequest == NewRequest("idle", "create", Absent, Absent, Absent, {})

(* The namespace may already hold Secrets that others projected into it. *)
Init ==
  /\ connections = [n \in Names |-> Absent]
  /\ secrets \in [SecretNames -> {Absent} \cup [managed : {FALSE}, keys : {{}, Fields}]]
  /\ requests = [r \in Requests |-> IdleRequest]
  /\ connUID = {}
  /\ connRV = {}
  /\ secretRV = {}
  /\ debris = {}

-----------------------------------------------------------------------------
(* The API server *)

At(r, pc) == requests[r].pc = pc
Goto(r, pc) == requests' = [requests EXCEPT ![r].pc = pc]

(* The handler answers, with a result or with an error. *)
Done(r) == requests' = [requests EXCEPT ![r] = IdleRequest]

PutConnection(n, connection) ==
  /\ connections' = [connections EXCEPT ![n] = connection]
  /\ connUID' = {q \in connUID : connection = Absent => requests[q].name # n}
  /\ connRV' = {q \in connRV : requests[q].name # n}

PutSecret(s, secret) ==
  /\ secrets' = [secrets EXCEPT ![s] = secret]
  /\ secretRV' = {q \in secretRV : Cred(requests[q].name) # s}

(* DeleteSecret: a Secret that is not there is not an error, and nothing is *)
(* asked of the Secret but its name.                                        *)
DeleteSecret(s) ==
  /\ PutSecret(s, Absent)
  /\ debris' = debris \ {s}

SameConnections == UNCHANGED <<connections, connUID, connRV>>
SameSecrets == UNCHANGED <<secrets, secretRV>>

-----------------------------------------------------------------------------
(* validate, on what the properties tell apart: only credential fields of   *)
(* the contract are submitted, and all of them if requireSecrets.           *)
Validate(contract, fields, requireSecrets) ==
  /\ fields \subseteq SecretFields(contract)
  /\ requireSecrets => fields = SecretFields(contract)

(* A request arrives.  validateRequest: the contract is one that may be     *)
(* declared by hand, and a create that does not name an existing Secret     *)
(* uses Validate, any other request ValidateUpdate.                         *)
Submit(r, op, n, contract, existing, fields) ==
  /\ At(r, "idle")
  /\ Validate(contract, fields, op = "create" /\ existing = Absent)
  /\ requests' = [requests EXCEPT ![r] =
       NewRequest(IF existing = Absent THEN "get" ELSE "validate", op, n, contract, existing, fields)]
  /\ UNCHANGED <<connections, secrets, connUID, connRV, secretRV, debris>>

SubmitWrite(r) ==
  \E op \in {"create", "update"}, n \in Names, contract \in Contracts :
    \/ \E fields \in SUBSET Fields : Submit(r, op, n, contract, Absent, fields)
    \/ \E s \in SecretNames : Submit(r, op, n, contract, s, {})

SubmitDelete(r) ==
  /\ At(r, "idle")
  /\ \E n \in Names :
       requests' = [requests EXCEPT ![r] = NewRequest("get", "delete", n, Absent, Absent, {})]
  /\ UNCHANGED <<connections, secrets, connUID, connRV, secretRV, debris>>

(* checkExistingSecret: the Secret must be there, not be managed by this    *)
(* server, and carry what the contract needs; otherwise the request ends.   *)
CheckExistingSecret(r) ==
  LET q == requests[r]
      secret == secrets[q.existing]
      usable == secret # Absent /\ ~secret.managed /\ SecretFields(q.contract) \subseteq secret.keys
  IN /\ At(r, "validate")
     /\ IF usable THEN Goto(r, "get") ELSE Done(r)
     /\ SameConnections /\ SameSecrets /\ UNCHANGED debris

(* Does the request have credentials of its own to store? *)
StoresSecret(q) == q.existing = Absent /\ q.fields # {}

(* Has it stored them? *)
Stored(q) == StoresSecret(q) /\ q.pc \in {"create", "rvGet", "put"}

(* The first call of repo.Create or repo.Update. *)
WriteOf(q) == IF q.op = "create" THEN "create" ELSE "rvGet"

(* Mutant of GetConnection: IsManaged is not asked. *)
GetConnection_AnyOwner(r) ==
  LET q == requests[r]
      c == connections[q.name]
      next == IF q.op = "delete" THEN "delete"
              ELSE IF StoresSecret(q) THEN "secretGet" ELSE WriteOf(q)
  IN /\ At(r, "get")
     /\ IF (q.op = "create") <=> (c # Absent)
        THEN Done(r)
        ELSE requests' = [requests EXCEPT ![r].pc = next, ![r].seen = c]
     /\ connUID' = IF c = Absent THEN connUID \ {r} ELSE connUID \cup {r}
     /\ UNCHANGED <<connections, connRV>> /\ SameSecrets /\ UNCHANGED debris

(* Create refuses a taken name; Update and Delete need an unmanaged one and *)
(* keep what they read.                                                     *)
GetConnection(r) ==
  LET q == requests[r]
      c == connections[q.name]
      next == IF q.op = "delete" THEN "delete"
              ELSE IF StoresSecret(q) THEN "secretGet" ELSE WriteOf(q)
  IN /\ At(r, "get")
     /\ IF \/ q.op = "create" /\ c # Absent
           \/ q.op # "create" /\ c = Absent
           \/ q.op # "create" /\ c.managed
        THEN Done(r)
        ELSE requests' = [requests EXCEPT ![r].pc = next, ![r].seen = c]
     /\ connUID' = IF c = Absent THEN connUID \ {r} ELSE connUID \cup {r}
     /\ UNCHANGED <<connections, connRV>> /\ SameSecrets /\ UNCHANGED debris

(* CreateOrUpdateSecret reads first, and refuses a Secret without the       *)
(* managed-by label (ErrForeignSecret).                                     *)
GetSecret(r) ==
  LET s == secrets[Cred(requests[r].name)] IN
  /\ At(r, "secretGet")
  /\ \/ /\ s = Absent
        /\ Goto(r, "secretCreate")
        /\ UNCHANGED secretRV
     \/ /\ s # Absent /\ ~s.managed
        /\ Done(r)
        /\ UNCHANGED secretRV
     \/ /\ s # Absent /\ s.managed
        /\ requests' = [requests EXCEPT ![r].pc = "secretUpdate", ![r].keys = s.keys]
        /\ secretRV' = secretRV \cup {r}
  /\ SameConnections /\ UNCHANGED <<secrets, debris>>

(* ... creates it if it was not there: AlreadyExists if it now is ...       *)
CreateSecret(r) ==
  LET q == requests[r]
      s == Cred(q.name)
  IN /\ At(r, "secretCreate")
     /\ IF secrets[s] = Absent
        THEN /\ PutSecret(s, [managed |-> TRUE, keys |-> q.fields])
             /\ Goto(r, WriteOf(q))
             /\ debris' = debris \ {s}
        ELSE Done(r) /\ SameSecrets /\ UNCHANGED debris
     /\ SameConnections

(* Mutants of UpdateSecret: no resource version in the update; the          *)
(* submitted keys replace the stored ones.                                  *)
UpdateSecret_NoVersion(r) ==
  LET q == requests[r] IN
  /\ At(r, "secretUpdate")
  /\ PutSecret(Cred(q.name), [managed |-> TRUE, keys |-> q.keys \cup q.fields])
  /\ Goto(r, WriteOf(q))
  /\ SameConnections /\ UNCHANGED debris

UpdateSecret_Replace(r) ==
  LET q == requests[r]
      s == Cred(q.name)
  IN /\ At(r, "secretUpdate")
     /\ IF r \in secretRV
        THEN PutSecret(s, [managed |-> TRUE, keys |-> q.fields]) /\ Goto(r, WriteOf(q))
        ELSE Done(r) /\ SameSecrets
     /\ SameConnections /\ UNCHANGED debris

(* ... or merges the submitted keys into the ones it read, under the        *)
(* resource version it read: a conflict if the Secret has changed.          *)
UpdateSecret(r) ==
  LET q == requests[r]
      s == Cred(q.name)
  IN /\ At(r, "secretUpdate")
     /\ IF r \in secretRV
        THEN PutSecret(s, [managed |-> TRUE, keys |-> q.keys \cup q.fields]) /\ Goto(r, WriteOf(q))
        ELSE Done(r) /\ SameSecrets
     /\ SameConnections /\ UNCHANGED debris

-----------------------------------------------------------------------------
(* Create, from the Connection it stores on. *)

NewConnection(q) ==
  LET s == IF q.existing # Absent THEN q.existing
           ELSE IF StoresSecret(q) THEN Cred(q.name) ELSE Absent
  IN [contract |-> q.contract, ref |-> s, secret |-> s,
      owned |-> StoresSecret(q), managed |-> FALSE]

(* AlreadyExists leaves the Secret to the concurrent create that took the   *)
(* name.                                                                    *)
CreateConnection(r) ==
  LET q == requests[r] IN
  /\ At(r, "create")
  /\ IF connections[q.name] = Absent
     THEN PutConnection(q.name, NewConnection(q)) /\ UNCHANGED debris
     ELSE /\ SameConnections
          /\ debris' = IF Stored(q) THEN debris \cup {Cred(q.name)} ELSE debris
  /\ Done(r)
  /\ SameSecrets

(* Any other error: the Secret this request wrote is rolled back.  With     *)
(* LostAnswers the error may come after the API server stored the object    *)
(* (a timeout).                                                             *)
CreateConnectionFails(r) ==
  LET q == requests[r] IN
  /\ At(r, "create")
  /\ \/ SameConnections
     \/ /\ LostAnswers
        /\ connections[q.name] = Absent
        /\ PutConnection(q.name, NewConnection(q))
  /\ IF Stored(q) THEN Goto(r, "rollback") ELSE Done(r)
  /\ SameSecrets /\ UNCHANGED debris

-----------------------------------------------------------------------------
(* Update, from repo.Update on. *)

(* The Connection as the request rewrites what it read. *)
EditedConnection(q) ==
  LET own == StoresSecret(q)
      s == IF own THEN Cred(q.name) ELSE q.existing
  IN IF own \/ q.existing # Absent
     THEN [q.seen EXCEPT !.contract = q.contract, !.ref = s, !.secret = s, !.owned = own]
     ELSE [q.seen EXCEPT !.contract = q.contract]

(* Mutant of OrphanedSecret: any edit drops the Secret owned before. *)
OrphanedSecret_Eager(q) ==
  LET previous == CredentialsSecretOf(q.seen, q.name) IN
  IF previous.owned THEN previous.name ELSE Absent

(* The Secret that the update leaves behind, if it owned one. *)
OrphanedSecret(q) ==
  LET previous == CredentialsSecretOf(q.seen, q.name) IN
  IF q.existing # Absent /\ previous.owned /\ previous.name # q.existing
  THEN previous.name ELSE Absent

(* An update that fails after it has stored credentials leaves them there. *)
UpdateFailed(r) ==
  /\ Done(r)
  /\ debris' = IF Stored(requests[r]) THEN debris \cup {Cred(requests[r].name)} ELSE debris

(* Mutant of GetResourceVersion: the UID does not go with the update. *)
GetResourceVersion_NoUID(r) ==
  LET c == connections[requests[r].name] IN
  /\ At(r, "rvGet")
  /\ IF c = Absent
     THEN UpdateFailed(r) /\ UNCHANGED connRV
     ELSE Goto(r, "put") /\ connRV' = connRV \cup {r} /\ UNCHANGED debris
  /\ UNCHANGED <<connections, connUID>> /\ SameSecrets

(* repo.Update reads the resource version right before it writes.  The UID  *)
(* in its metadata is the one of the first read, so the API server answers  *)
(* a conflict if the object is another one by now.                          *)
GetResourceVersion(r) ==
  LET c == connections[requests[r].name] IN
  /\ At(r, "rvGet")
  /\ IF c = Absent
     THEN UpdateFailed(r) /\ UNCHANGED connRV
     ELSE Goto(r, "put") /\ connRV' = connRV \cup ({r} \cap connUID) /\ UNCHANGED debris
  /\ UNCHANGED <<connections, connUID>> /\ SameSecrets

UpdateConnection(r) ==
  LET q == requests[r] IN
  /\ At(r, "put")
  /\ IF r \in connRV
     THEN /\ PutConnection(q.name, EditedConnection(q))
          /\ IF OrphanedSecret(q) # Absent THEN Goto(r, "dropOrphan") ELSE Done(r)
          /\ debris' = IF Stored(q) THEN debris \ {Cred(q.name)} ELSE debris
     ELSE SameConnections /\ UpdateFailed(r)
  /\ SameSecrets

-----------------------------------------------------------------------------
(* Mutant of DeleteConnection: the Secret is left. *)
DeleteConnection_LeavesSecret(r) ==
  LET q == requests[r] IN
  /\ At(r, "delete")
  /\ IF connections[q.name] # Absent THEN PutConnection(q.name, Absent) ELSE SameConnections
  /\ Done(r)
  /\ SameSecrets /\ UNCHANGED debris

(* Delete: the object first, whatever it is by now, then the Secret the one *)
(* it read owned.                                                           *)
DeleteConnection(r) ==
  LET q == requests[r] IN
  /\ At(r, "delete")
  /\ IF connections[q.name] # Absent
     THEN /\ PutConnection(q.name, Absent)
          /\ IF CredentialsSecretOf(q.seen, q.name).owned THEN Goto(r, "dropSecret") ELSE Done(r)
     ELSE SameConnections /\ Done(r)
  /\ SameSecrets /\ UNCHANGED debris

(* The three best-effort deletions: the rollback of a create, the Secret an *)
(* update moved off, the Secret of a deleted connection.                    *)
Doomed(q) ==
  CASE q.pc = "rollback" -> Cred(q.name)
    [] q.pc = "dropOrphan" -> OrphanedSecret(q)
    [] q.pc = "dropSecret" -> CredentialsSecretOf(q.seen, q.name).name

DropSecret(r) ==
  /\ requests[r].pc \in {"rollback", "dropOrphan", "dropSecret"}
  /\ DeleteSecret(Doomed(requests[r]))
  /\ Done(r)
  /\ SameConnections

(* Their failure is logged and nothing more. *)
DropSecretFails(r) ==
  /\ requests[r].pc \in {"rollback", "dropOrphan", "dropSecret"}
  /\ debris' = debris \cup {Doomed(requests[r])}
  /\ Done(r)
  /\ SameConnections /\ SameSecrets

(* Any other call that fails ends the request with its error. *)
CallFails(r) ==
  /\ requests[r].pc \in {"validate", "get", "secretGet", "secretCreate", "secretUpdate",
                          "rvGet", "put", "delete"}
  /\ UpdateFailed(r)
  /\ connRV' = connRV \ {r}
  /\ secretRV' = secretRV \ {r}
  /\ UNCHANGED <<connections, connUID, secrets>>

-----------------------------------------------------------------------------
(* The others in the namespace *)

(* The release controller publishes the outputs of a release as managed     *)
(* connections under free names, and withdraws them with the release.       *)
Publish(n) ==
  /\ connections[n] = Absent
  /\ \E c \in Contracts :
       PutConnection(n, [contract |-> c, ref |-> Absent, secret |-> Absent,
                         owned |-> FALSE, managed |-> TRUE])
  /\ SameSecrets /\ UNCHANGED <<requests, debris>>

Withdraw(n) ==
  /\ connections[n] # Absent
  /\ connections[n].managed
  /\ PutConnection(n, Absent)
  /\ SameSecrets /\ UNCHANGED <<requests, debris>>

(* Somebody (External Secrets, a user) projects a Secret or removes one of  *)
(* the Secrets it projected.                                                *)
Project(s) ==
  /\ \/ /\ secrets[s] = Absent
        /\ \E keys \in {{}, Fields} : PutSecret(s, [managed |-> FALSE, keys |-> keys])
     \/ /\ secrets[s] # Absent
        /\ ~secrets[s].managed
        /\ PutSecret(s, Absent)
  /\ SameConnections /\ UNCHANGED <<requests, debris>>

ServerStep(r) ==
  \/ SubmitWrite(r) \/ SubmitDelete(r) \/ CheckExistingSecret(r) \/ GetConnection(r)
  \/ GetSecret(r) \/ CreateSecret(r) \/ UpdateSecret(r)
  \/ CreateConnection(r) \/ CreateConnectionFails(r)
  \/ GetResourceVersion(r) \/ UpdateConnection(r)
  \/ DeleteConnection(r) \/ DropSecret(r) \/ DropSecretFails(r) \/ CallFails(r)

Next ==
  \/ \E r \in Requests : ServerStep(r)
  \/ \E n \in Names : Publish(n) \/ Withdraw(n)
  \/ \E s \in SecretNames : Project(s)

Spec == Init /\ [][Next]_vars

-----------------------------------------------------------------------------
(* Properties that hold whatever the interleaving *)

(* A Secret somebody else put into the namespace is never written into:     *)
(* "Adopting it would put someone else's data under our lifecycle"          *)
(* (ErrForeignSecret), not even when it takes the place of our own between  *)
(* the check and the write.                                                 *)
ForeignNeverWritten ==
  [][\A s \in SecretNames :
       secrets[s] # Absent /\ ~secrets[s].managed => secrets'[s] \in {secrets[s], Absent}]_vars

(* "Merge rather than replace": while a Secret of ours lives, no update     *)
(* loses a credential that another one stored.                              *)
MergeKeepsKeys ==
  [][\A s \in SecretNames :
       secrets[s] # Absent /\ secrets[s].managed /\ secrets'[s] # Absent
         => secrets'[s].managed /\ secrets[s].keys \subseteq secrets'[s].keys]_vars

(* What a request has read of its Secret is what it merges into, as long as *)
(* its resource version is the current one.                                 *)
SnapshotCurrent ==
  \A r \in secretRV :
    LET secret == secrets[Cred(requests[r].name)] IN
    /\ requests[r].pc = "secretUpdate"
    /\ secret # Absent /\ secret.managed
    /\ secret.keys = requests[r].keys

(* What a package binds (spec.values.secretRef) and what the console and    *)
(* the delete path read (the annotation) are the same Secret: "they must be *)
(* carried over" by an edit that submits no credential.                     *)
RefAgrees ==
  \A n \in Names : connections[n] # Absent => connections[n].ref = connections[n].secret

(* No edit lands on a managed connection that a release has published under *)
(* the name since the edit looked: repo.Update takes a new resource version *)
(* but keeps the UID of the object that was read.                           *)
ManagedNeverRewritten ==
  [][\A n \in Names :
       connections[n] # Absent /\ connections[n].managed
         => connections'[n] \in {connections[n], Absent}]_vars

-----------------------------------------------------------------------------
(* Properties that need one request at a time *)

(* The Secret a connection says it owns. *)
Owns(n, s) ==
  /\ connections[n] # Absent
  /\ ~connections[n].managed
  /\ CredentialsSecretOf(connections[n], n) = [name |-> s, owned |-> TRUE]

(* A live connection that publishes credentials of its own has them: its    *)
(* Secret is there and is ours, whichever calls failed.  Create writes the  *)
(* Secret first and Update drops the old one last for this.                 *)
CredentialsBound ==
  \A n \in Names :
    connections[n] # Absent /\ connections[n].secret # Absent /\ connections[n].owned =>
      /\ secrets[connections[n].secret] # Absent
      /\ secrets[connections[n].secret].managed

(* "Leave no orphan Secret behind": a Secret of ours belongs to a live      *)
(* connection, to a request that still works on it, or is known debris (a   *)
(* best-effort deletion that failed, an update that failed after it stored  *)
(* credentials, a create that lost its name).                               *)
NoUnknownOrphan ==
  \A s \in SecretNames : secrets[s] # Absent /\ secrets[s].managed =>
    \/ s \in debris
    \/ \E n \in Names : Owns(n, s)
    \/ \E r \in Requests : requests[r].pc # "idle" /\ Cred(requests[r].name) = s

(* Secrets and connections are written by separate calls, and whichever of   *)
(* them fails, credentials are where they are used and nowhere else unknown. *)
CredentialsAccounted == CredentialsBound /\ NoUnknownOrphan

(* Managed connections "are owned by a release and must not be editable     *)
(* here": only the controller removes or rewrites one.  With concurrent     *)
(* requests a delete may take a connection that a release has published     *)
(* under the name since it was read: it is addressed by name alone.         *)
ManagedNeverEdited ==
  [][\A n \in Names :
       connections[n] # Absent /\ connections[n].managed /\ connections'[n] # connections[n]
         => requests' = requests]_vars

(* The credential keys the consumers of a connection can read. *)
Readable(n) ==
  IF connections[n] = Absent \/ connections[n].ref = Absent THEN {}
  ELSE IF secrets[connections[n].ref] = Absent THEN {} ELSE secrets[connections[n].ref].keys

(* "a missing secret field is a value left as it is, not an omission": no    *)
(* step of an edit that keeps the contract and names no existing Secret      *)
(* takes a credential field of the contract from the consumers.  That        *)
(* excepts an edit that sends some of the fields of a connection bound to an *)
(* existing Secret, which is rebound to a Secret with those fields only.     *)
EditKeepsCredentials ==
  [][\A r \in Requests, n \in Names :
       LET q == requests[r] IN
       /\ q.op = "update" /\ q.name = n /\ requests'[r] # q
       /\ connections[n] # Absent /\ connections[n].contract = q.contract
       /\ q.existing = Absent
       /\ connections[n].owned \/ q.fields \in {{}, SecretFields(q.contract)}
       => Readable(n) \cap SecretFields(q.contract) \subseteq Readable(n)']_vars

(* A request takes away neither what a release manages nor what an edit did  *)
(* not send.                                                                 *)
EditsTakeNothing == ManagedNeverEdited /\ EditKeepsCredentials

-----------------------------------------------------------------------------
(* What comments in the code say of it, and what it does otherwise *)

(* "A Secret we do not own is never touched, and neither is the one a       *)
(* concurrent create under the same name has just bound to its own          *)
(* Connection": the rollback of a create leaves bound Secrets alone.        *)
RollbackSparesBound ==
  [][\A r \in Requests, n \in Names :
       /\ requests[r].pc = "rollback"
       /\ connections[n] # Absent
       /\ connections[n].secret = Doomed(requests[r]) /\ connections[n].owned
       => secrets'[Doomed(requests[r])] # Absent]_secrets
=============================================================================
