------------------------- MODULE Connections_proofs -------------------------
(***************************************************************************)
(* Proofs about Connections for any number of requests, names, contracts   *)
(* and credential fields, with any interleaving of the API calls.          *)
(***************************************************************************)
EXTENDS Connections, TLAPS

(* What the place of a request in its handler says of its locals. *)
RequestOK(q) ==
  /\ q.pc # "idle" => q.name \in Names
  /\ q.pc # "idle" /\ q.op # "delete" => q.contract \in Contracts
  /\ q.pc = "validate" => q.existing \in SecretNames /\ q.op # "delete"
  /\ q.pc \in {"secretGet", "secretCreate", "secretUpdate"} => q.op # "delete"
  /\ q.pc \in {"create", "rollback"} => q.op = "create"
  /\ q.pc \in {"rvGet", "put", "dropOrphan"} => q.op = "update"
  /\ q.pc \in {"delete", "dropSecret"} => q.op = "delete"
  /\ q.op # "create" /\ q.pc \notin {"idle", "validate", "get"} =>
       q.seen \in Connection /\ q.seen.ref = q.seen.secret /\ ~q.seen.managed
  /\ q.pc = "dropOrphan" => OrphanedSecret(q) # Absent

RequestsOK == \A r \in Requests : RequestOK(requests[r])

(* The request is an update that has read its Connection. *)
Editing(q) ==
  /\ q.op = "update"
  /\ q.pc \in {"secretGet", "secretCreate", "secretUpdate", "rvGet", "put"}

(* The object an update holds the UID of is there and is not managed, and   *)
(* it holds a resource version of that object only.                         *)
ObjectHeld ==
  /\ \A r \in connUID : Editing(requests[r]) =>
       /\ connections[requests[r].name] # Absent
       /\ ~connections[requests[r].name].managed
  /\ \A r \in connRV : r \in connUID /\ requests[r].pc = "put"

(* The inductive invariant. *)
Inv == TypeOK /\ RequestsOK /\ SnapshotCurrent /\ RefAgrees /\ ObjectHeld

-----------------------------------------------------------------------------
(* Helpers *)

(* Every name a request can derive a Secret name from is in SecretNames. *)
LEMMA CredType == \A n \in Names : Cred(n) \in SecretNames
  BY DEF SecretNames

(* The Secret of a connection has a name of the namespace. *)
LEMMA SecretOfType ==
  ASSUME NEW c \in Connection, NEW n \in Names
  PROVE  CredentialsSecretOf(c, n).name \in SecretNames
  BY CredType DEF CredentialsSecretOf, Connection

(* The Secret a best-effort deletion names is one of the namespace. *)
LEMMA DoomedType ==
  ASSUME NEW q \in Request, RequestOK(q), q.pc \in {"rollback", "dropOrphan", "dropSecret"}
  PROVE  Doomed(q) \in SecretNames
<1>1. CASE q.pc = "rollback"
  BY <1>1, CredType DEF Doomed, RequestOK
<1>2. CASE q.pc = "dropOrphan"
  <2>1. q.op = "update" /\ q.seen \in Connection /\ q.name \in Names /\ OrphanedSecret(q) # Absent
    BY <1>2 DEF RequestOK
  <2>2. OrphanedSecret(q) = CredentialsSecretOf(q.seen, q.name).name
    BY <2>1 DEF OrphanedSecret
  <2> QED BY <1>2, <2>1, <2>2, SecretOfType DEF Doomed
<1>3. CASE q.pc = "dropSecret"
  BY <1>3, SecretOfType DEF Doomed, RequestOK
<1> QED BY <1>1, <1>2, <1>3

(* The Connection a create stores is well formed. *)
LEMMA NewConnectionType ==
  ASSUME NEW q \in Request, RequestOK(q), q.pc = "create"
  PROVE  NewConnection(q) \in Connection /\ NewConnection(q).ref = NewConnection(q).secret
<1>1. q.name \in Names /\ q.contract \in Contracts /\ q.existing \in SecretNames \cup {Absent}
  BY DEF RequestOK, Request
<1>2. StoresSecret(q) \in BOOLEAN
  BY Zenon DEF StoresSecret
<1> DEFINE s == IF q.existing # Absent THEN q.existing
                ELSE IF StoresSecret(q) THEN Cred(q.name) ELSE Absent
<1>3. s \in SecretNames \cup {Absent}
  BY <1>1, CredType
<1>4. NewConnection(q) = [contract |-> q.contract, ref |-> s, secret |-> s,
                          owned |-> StoresSecret(q), managed |-> FALSE]
  BY DEF NewConnection
<1> HIDE DEF s
<1> QED BY <1>1, <1>2, <1>3, <1>4 DEF Connection

(* So is the one an update stores. *)
LEMMA EditedConnectionType ==
  ASSUME NEW q \in Request, RequestOK(q), q.pc = "put"
  PROVE  EditedConnection(q) \in Connection /\ EditedConnection(q).ref = EditedConnection(q).secret
<1>1. /\ q.name \in Names /\ q.contract \in Contracts /\ q.existing \in SecretNames \cup {Absent}
      /\ q.seen \in Connection /\ q.seen.ref = q.seen.secret
  BY DEF RequestOK, Request
<1>2. StoresSecret(q) \in BOOLEAN
  BY Zenon DEF StoresSecret
<1> DEFINE own == StoresSecret(q)
           s == IF own THEN Cred(q.name) ELSE q.existing
<1>3. CASE own \/ q.existing # Absent
  <2>1. EditedConnection(q) =
          [q.seen EXCEPT !.contract = q.contract, !.ref = s, !.secret = s, !.owned = own]
    BY <1>3 DEF EditedConnection
  <2>2. s \in SecretNames
    BY <1>1, <1>3, CredType
  <2> HIDE DEF s, own
  <2>3. own \in BOOLEAN
    BY <1>2 DEF own
  <2> QED BY <1>1, <2>1, <2>2, <2>3 DEF Connection
<1>4. CASE ~(own \/ q.existing # Absent)
  BY <1>1, <1>4 DEF EditedConnection, Connection
<1> QED BY <1>3, <1>4

-----------------------------------------------------------------------------
(* Steps of the server *)

(* A request moves to a well-formed record; the others stay where they are. *)
LEMMA RequestMoves ==
  ASSUME requests \in [Requests -> Request], RequestsOK,
         NEW r \in Requests, NEW q \in Request, RequestOK(q),
         requests' = [requests EXCEPT ![r] = q]
  PROVE  requests' \in [Requests -> Request] /\ RequestsOK'
<1>1. requests' \in [Requests -> Request]
  OBVIOUS
<1>2. ASSUME NEW d \in Requests PROVE RequestOK(requests'[d])
  <2>1. CASE d = r
    BY <2>1
  <2>2. CASE d # r
    BY <2>2 DEF RequestsOK
  <2> QED BY <2>1, <2>2
<1> QED BY <1>1, <1>2 DEF RequestsOK

(* The record of a finished request. *)
LEMMA IdleOK == IdleRequest \in Request /\ RequestOK(IdleRequest)
  BY DEF IdleRequest, NewRequest, Request, Locations, ConnectionOrAbsent, RequestOK

(* A request that ends. *)
LEMMA DoneMoves ==
  ASSUME requests \in [Requests -> Request], RequestsOK, NEW r \in Requests, Done(r)
  PROVE  requests' \in [Requests -> Request] /\ RequestsOK'
  BY IdleOK, RequestMoves DEF Done

(* A request that only changes its place stays well formed if the new place *)
(* asks nothing more of it.                                                 *)
LEMMA GotoMoves ==
  ASSUME requests \in [Requests -> Request], RequestsOK, NEW r \in Requests,
         NEW pc \in Locations, Goto(r, pc), RequestOK([requests[r] EXCEPT !.pc = pc])
  PROVE  requests' \in [Requests -> Request] /\ RequestsOK'
<1>1. [requests[r] EXCEPT !.pc = pc] \in Request
  BY DEF Request
<1>2. requests' = [requests EXCEPT ![r] = [requests[r] EXCEPT !.pc = pc]]
  BY DEF Goto
<1> QED BY <1>1, <1>2, RequestMoves

(* From storing its Secret a request goes on to store its Connection. *)
LEMMA WriteOfMoves ==
  ASSUME requests \in [Requests -> Request], RequestsOK, NEW r \in Requests,
         requests[r].pc \in {"secretCreate", "secretUpdate"}, Goto(r, WriteOf(requests[r]))
  PROVE  requests' \in [Requests -> Request] /\ RequestsOK'
<1> DEFINE q == requests[r]
<1>1. q \in Request /\ RequestOK(q)
  BY DEF RequestsOK
<1>2. CASE q.op = "create"
  <2>1. RequestOK([q EXCEPT !.pc = "create"])
    BY <1>1, <1>2 DEF RequestOK, Request
  <2> QED BY <1>2, <2>1, GotoMoves DEF WriteOf, Locations
<1>3. CASE q.op = "update"
  <2>1. RequestOK([q EXCEPT !.pc = "rvGet"])
    BY <1>1, <1>3 DEF RequestOK, Request
  <2> QED BY <1>3, <2>1, GotoMoves DEF WriteOf, Locations
<1> QED BY <1>1, <1>2, <1>3 DEF RequestOK, Request

(* Writing an object keeps the store well formed. *)
LEMMA PutConnectionType ==
  ASSUME TypeOK, NEW n \in Names, NEW c \in ConnectionOrAbsent, PutConnection(n, c)
  PROVE  /\ connections' \in [Names -> ConnectionOrAbsent]
         /\ connUID' \subseteq Requests /\ connRV' \subseteq Requests
  BY DEF TypeOK, PutConnection

(* So does writing a Secret. *)
LEMMA PutSecretType ==
  ASSUME TypeOK, NEW s \in SecretNames, NEW x \in SecretOrAbsent, PutSecret(s, x)
  PROVE  secrets' \in [SecretNames -> SecretOrAbsent] /\ secretRV' \subseteq Requests
  BY DEF TypeOK, PutSecret

(* Every step keeps the objects and the requests well formed. *)
LEMMA ServerStepTyped ==
  ASSUME Inv, NEW r \in Requests, ServerStep(r)
  PROVE  TypeOK' /\ RequestsOK'
<1> USE DEF Inv
<1> DEFINE q == requests[r]
           ReqOK == requests' \in [Requests -> Request] /\ RequestsOK'
<1>0. q \in Request /\ RequestOK(q)
  BY DEF TypeOK, RequestsOK
<1>1. CASE SubmitWrite(r)
  <2>1. PICK op \in {"create", "update"}, n \in Names, contract \in Contracts,
             existing \in SecretNames \cup {Absent}, fields \in SUBSET Fields :
               Submit(r, op, n, contract, existing, fields)
    BY <1>1 DEF SubmitWrite
  <2> DEFINE pc == IF existing = Absent THEN "get" ELSE "validate"
             new == NewRequest(pc, op, n, contract, existing, fields)
  <2>2. new \in Request /\ RequestOK(new)
    BY DEF NewRequest, Request, Locations, ConnectionOrAbsent, RequestOK
  <2>3. requests' = [requests EXCEPT ![r] = new]
    BY <2>1 DEF Submit
  <2>4. ReqOK
    BY <2>2, <2>3, RequestMoves DEF TypeOK
  <2> QED BY <2>1, <2>4 DEF Submit, TypeOK
<1>2. CASE SubmitDelete(r)
  <2>1. PICK n \in Names :
          requests' = [requests EXCEPT ![r] = NewRequest("get", "delete", n, Absent, Absent, {})]
    BY <1>2 DEF SubmitDelete
  <2> DEFINE new == NewRequest("get", "delete", n, Absent, Absent, {})
  <2>2. new \in Request /\ RequestOK(new)
    BY DEF NewRequest, Request, Locations, ConnectionOrAbsent, RequestOK
  <2>3. ReqOK
    BY <2>1, <2>2, RequestMoves DEF TypeOK
  <2> QED BY <1>2, <2>3 DEF SubmitDelete, TypeOK
<1>3. CASE CheckExistingSecret(r)
  <2>1. RequestOK([q EXCEPT !.pc = "get"])
    BY <1>0, <1>3 DEF CheckExistingSecret, At, RequestOK, Request
  <2>2. Goto(r, "get") \/ Done(r)
    BY <1>3 DEF CheckExistingSecret
  <2>3. ReqOK
    BY <2>1, <2>2, GotoMoves, DoneMoves DEF TypeOK, Locations
  <2> QED BY <1>3, <2>3 DEF CheckExistingSecret, SameConnections, SameSecrets, TypeOK
<1>4. CASE GetConnection(r)
  <2> DEFINE c == connections[q.name]
             next == IF q.op = "delete" THEN "delete"
                     ELSE IF StoresSecret(q) THEN "secretGet" ELSE WriteOf(q)
             new == [q EXCEPT !.pc = next, !.seen = c]
  <2>0. q.pc = "get" /\ q.name \in Names /\ c \in ConnectionOrAbsent /\ q.op \in {"create", "update", "delete"}
    BY <1>0, <1>4 DEF GetConnection, At, RequestOK, TypeOK, Request
  <2>1. CASE Done(r)
    BY <2>1, <1>4, DoneMoves DEF GetConnection, SameConnections, SameSecrets, TypeOK
  <2>2. CASE /\ requests' = [requests EXCEPT ![r].pc = next, ![r].seen = c]
             /\ q.op # "create" => c # Absent /\ ~c.managed
    <3>1. q.op # "create" => c \in Connection /\ c.ref = c.secret /\ ~c.managed
      BY <2>0, <2>2 DEF ConnectionOrAbsent, RefAgrees
    <3>2. /\ next \in Locations
          /\ q.op = "delete" => next = "delete"
          /\ q.op = "create" => next \in {"secretGet", "create"}
          /\ q.op = "update" => next \in {"secretGet", "rvGet"}
      BY <2>0 DEF WriteOf, Locations
    <3> HIDE DEF c, next
    <3>3. new \in Request /\ new.pc = next /\ new.seen = c
      BY <1>0, <2>0, <3>2 DEF Request
    <3>4. new.op = q.op /\ new.name = q.name /\ new.contract = q.contract
      BY <1>0 DEF Request
    <3> HIDE DEF new
    <3>5. RequestOK(new)
      BY <1>0, <2>0, <3>1, <3>2, <3>3, <3>4 DEF RequestOK
    <3>6. requests' = [requests EXCEPT ![r] = new]
      BY <2>2 DEF new
    <3>7. ReqOK
      BY <3>3, <3>5, <3>6, RequestMoves DEF TypeOK
    <3> QED BY <1>4, <3>7 DEF GetConnection, SameConnections, SameSecrets, TypeOK
  <2> QED BY <1>4, <2>1, <2>2 DEF GetConnection
<1>5. CASE GetSecret(r)
  <2> DEFINE s == secrets[Cred(q.name)]
  <2>0. q.pc = "secretGet" /\ s \in SecretOrAbsent
    BY <1>0, <1>5, CredType DEF GetSecret, At, RequestOK, TypeOK
  <2>1. CASE Goto(r, "secretCreate") /\ UNCHANGED secretRV
    <3>1. RequestOK([q EXCEPT !.pc = "secretCreate"])
      BY <1>0, <2>0 DEF RequestOK, Request
    <3>2. ReqOK
      BY <2>1, <3>1, GotoMoves DEF TypeOK, Locations
    <3> QED BY <1>5, <2>1, <3>2 DEF GetSecret, SameConnections, TypeOK
  <2>2. CASE Done(r) /\ UNCHANGED secretRV
    BY <1>5, <2>2, DoneMoves DEF GetSecret, SameConnections, TypeOK
  <2>3. CASE /\ s # Absent /\ s.managed
             /\ requests' = [requests EXCEPT ![r].pc = "secretUpdate", ![r].keys = s.keys]
             /\ secretRV' = secretRV \cup {r}
    <3> DEFINE new == [q EXCEPT !.pc = "secretUpdate", !.keys = s.keys]
    <3>1. s.keys \in SUBSET Fields
      BY <2>0, <2>3 DEF SecretOrAbsent, Secret
    <3>2. new \in Request
      BY <1>0, <3>1 DEF Request, Locations
    <3>3. RequestOK(new)
      BY <1>0, <2>0 DEF RequestOK, Request
    <3>4. requests' = [requests EXCEPT ![r] = new]
      BY <2>3
    <3>5. ReqOK
      BY <3>2, <3>3, <3>4, RequestMoves DEF TypeOK
    <3> QED BY <1>5, <2>3, <3>5 DEF GetSecret, SameConnections, TypeOK
  <2> QED BY <1>5, <2>1, <2>2, <2>3 DEF GetSecret
<1>6. CASE CreateSecret(r)
  <2>0. q.pc = "secretCreate" /\ Cred(q.name) \in SecretNames
    BY <1>0, <1>6, CredType DEF CreateSecret, At, RequestOK
  <2>1. CASE /\ PutSecret(Cred(q.name), [managed |-> TRUE, keys |-> q.fields])
             /\ Goto(r, WriteOf(q))
             /\ debris' = debris \ {Cred(q.name)}
    <3>1. [managed |-> TRUE, keys |-> q.fields] \in SecretOrAbsent
      BY <1>0 DEF Request, Secret, SecretOrAbsent
    <3>2. ReqOK
      BY <1>0, <2>0, <2>1, WriteOfMoves DEF TypeOK
    <3> QED BY <1>6, <2>0, <2>1, <3>1, <3>2, PutSecretType DEF CreateSecret, SameConnections, TypeOK
  <2>2. CASE Done(r) /\ SameSecrets /\ UNCHANGED debris
    BY <1>6, <2>2, DoneMoves DEF CreateSecret, SameConnections, SameSecrets, TypeOK
  <2> QED BY <1>6, <2>1, <2>2 DEF CreateSecret
<1>7. CASE UpdateSecret(r)
  <2>0. q.pc = "secretUpdate" /\ Cred(q.name) \in SecretNames
    BY <1>0, <1>7, CredType DEF UpdateSecret, At, RequestOK
  <2>1. CASE /\ PutSecret(Cred(q.name), [managed |-> TRUE, keys |-> q.keys \cup q.fields])
             /\ Goto(r, WriteOf(q))
    <3>1. [managed |-> TRUE, keys |-> q.keys \cup q.fields] \in SecretOrAbsent
      BY <1>0 DEF Request, Secret, SecretOrAbsent
    <3>2. ReqOK
      BY <1>0, <2>0, <2>1, WriteOfMoves DEF TypeOK
    <3> QED BY <1>7, <2>0, <2>1, <3>1, <3>2, PutSecretType DEF UpdateSecret, SameConnections, TypeOK
  <2>2. CASE Done(r) /\ SameSecrets
    BY <1>7, <2>2, DoneMoves DEF UpdateSecret, SameConnections, SameSecrets, TypeOK
  <2> QED BY <1>7, <2>1, <2>2 DEF UpdateSecret
<1>8. CASE CreateConnection(r)
  <2>0. q.pc = "create" /\ q.name \in Names /\ Cred(q.name) \in SecretNames
    BY <1>0, <1>8, CredType DEF CreateConnection, At, RequestOK
  <2>1. ReqOK
    BY <1>8, DoneMoves DEF CreateConnection, TypeOK
  <2>2. CASE PutConnection(q.name, NewConnection(q)) /\ UNCHANGED debris
    <3>1. NewConnection(q) \in ConnectionOrAbsent
      BY <1>0, <2>0, NewConnectionType DEF ConnectionOrAbsent
    <3> QED BY <1>8, <2>0, <2>1, <2>2, <3>1, PutConnectionType DEF CreateConnection, SameSecrets, TypeOK
  <2>3. CASE /\ SameConnections
             /\ debris' = IF Stored(q) THEN debris \cup {Cred(q.name)} ELSE debris
    BY <1>8, <2>0, <2>1, <2>3 DEF CreateConnection, SameConnections, SameSecrets, TypeOK
  <2> QED BY <1>8, <2>2, <2>3 DEF CreateConnection
<1>9. CASE CreateConnectionFails(r)
  <2>0. q.pc = "create" /\ q.name \in Names
    BY <1>0, <1>9 DEF CreateConnectionFails, At, RequestOK
  <2>1. RequestOK([q EXCEPT !.pc = "rollback"])
    BY <1>0, <2>0 DEF RequestOK, Request
  <2>2. ReqOK
    BY <1>9, <2>1, GotoMoves, DoneMoves DEF CreateConnectionFails, TypeOK, Locations
  <2>3. NewConnection(q) \in ConnectionOrAbsent
    BY <1>0, <2>0, NewConnectionType DEF ConnectionOrAbsent
  <2>4. SameConnections \/ PutConnection(q.name, NewConnection(q))
    BY <1>9 DEF CreateConnectionFails
  <2>5. /\ connections' \in [Names -> ConnectionOrAbsent]
       /\ connUID' \subseteq Requests /\ connRV' \subseteq Requests
    BY <2>0, <2>3, <2>4, PutConnectionType DEF SameConnections, TypeOK
  <2> QED BY <1>9, <2>2, <2>5 DEF CreateConnectionFails, SameSecrets, TypeOK
<1>10. CASE GetResourceVersion(r)
  <2>0. q.pc = "rvGet" /\ Cred(q.name) \in SecretNames
    BY <1>0, <1>10, CredType DEF GetResourceVersion, At, RequestOK
  <2>1. CASE UpdateFailed(r) /\ UNCHANGED connRV
    <3>1. ReqOK
      BY <2>1, DoneMoves DEF UpdateFailed, TypeOK
    <3> QED BY <1>10, <2>0, <2>1, <3>1 DEF GetResourceVersion, UpdateFailed, SameSecrets, TypeOK
  <2>2. CASE Goto(r, "put") /\ connRV' = connRV \cup ({r} \cap connUID) /\ UNCHANGED debris
    <3>1. RequestOK([q EXCEPT !.pc = "put"])
      BY <1>0, <2>0 DEF RequestOK, Request
    <3>2. ReqOK
      BY <2>2, <3>1, GotoMoves DEF TypeOK, Locations
    <3> QED BY <1>10, <2>2, <3>2 DEF GetResourceVersion, SameSecrets, TypeOK
  <2> QED BY <1>10, <2>1, <2>2 DEF GetResourceVersion
<1>11. CASE UpdateConnection(r)
  <2>0. q.pc = "put" /\ q.name \in Names /\ Cred(q.name) \in SecretNames
    BY <1>0, <1>11, CredType DEF UpdateConnection, At, RequestOK
  <2>1. CASE r \in connRV
    <3>1. EditedConnection(q) \in ConnectionOrAbsent
      BY <1>0, <2>0, EditedConnectionType DEF ConnectionOrAbsent
    <3>2. PutConnection(q.name, EditedConnection(q))
      BY <1>11, <2>1 DEF UpdateConnection
    <3>3. ASSUME OrphanedSecret(q) # Absent PROVE RequestOK([q EXCEPT !.pc = "dropOrphan"])
      BY <1>0, <2>0, <3>3 DEF RequestOK, Request, OrphanedSecret
    <3>4. ReqOK
      BY <1>11, <2>1, <3>3, GotoMoves, DoneMoves DEF UpdateConnection, TypeOK, Locations
    <3>5. debris' \subseteq debris
      BY <1>11, <2>1 DEF UpdateConnection
    <3> QED BY <1>11, <2>0, <3>1, <3>2, <3>4, <3>5, PutConnectionType
            DEF UpdateConnection, SameSecrets, TypeOK
  <2>2. CASE r \notin connRV
    <3>1. ReqOK
      BY <1>11, <2>2, DoneMoves DEF UpdateConnection, UpdateFailed, TypeOK
    <3> QED BY <1>11, <2>0, <2>2, <3>1
            DEF UpdateConnection, UpdateFailed, SameConnections, SameSecrets, TypeOK
  <2> QED BY <2>1, <2>2
<1>12. CASE DeleteConnection(r)
  <2>0. q.pc = "delete" /\ q.name \in Names
    BY <1>0, <1>12 DEF DeleteConnection, At, RequestOK
  <2>1. RequestOK([q EXCEPT !.pc = "dropSecret"])
    BY <1>0, <2>0 DEF RequestOK, Request
  <2>2. ReqOK
    BY <1>12, <2>1, GotoMoves, DoneMoves DEF DeleteConnection, TypeOK, Locations
  <2>3. SameConnections \/ PutConnection(q.name, Absent)
    BY <1>12 DEF DeleteConnection
  <2>4. /\ connections' \in [Names -> ConnectionOrAbsent]
       /\ connUID' \subseteq Requests /\ connRV' \subseteq Requests
    BY <2>0, <2>3, PutConnectionType DEF SameConnections, TypeOK, ConnectionOrAbsent
  <2> QED BY <1>12, <2>2, <2>4 DEF DeleteConnection, SameSecrets, TypeOK
<1>13. CASE DropSecret(r)
  <2>1. Doomed(q) \in SecretNames
    BY <1>0, <1>13, DoomedType DEF DropSecret
  <2>2. ReqOK
    BY <1>13, DoneMoves DEF DropSecret, TypeOK
  <2>3. PutSecret(Doomed(q), Absent) /\ debris' \subseteq debris
    BY <1>13 DEF DropSecret, DeleteSecret
  <2> QED BY <1>13, <2>1, <2>2, <2>3, PutSecretType DEF DropSecret, SameConnections, TypeOK, SecretOrAbsent
<1>14. CASE DropSecretFails(r)
  <2>1. Doomed(q) \in SecretNames
    BY <1>0, <1>14, DoomedType DEF DropSecretFails
  <2>2. ReqOK
    BY <1>14, DoneMoves DEF DropSecretFails, TypeOK
  <2> QED BY <1>14, <2>1, <2>2 DEF DropSecretFails, SameConnections, SameSecrets, TypeOK
<1>15. CASE CallFails(r)
  <2>1. Cred(q.name) \in SecretNames
    BY <1>0, <1>15, CredType DEF CallFails, RequestOK
  <2>2. ReqOK
    BY <1>15, DoneMoves DEF CallFails, UpdateFailed, TypeOK
  <2> QED BY <1>15, <2>1, <2>2 DEF CallFails, UpdateFailed, TypeOK
<1> QED BY <1>1, <1>2, <1>3, <1>4, <1>5, <1>6, <1>7, <1>8, <1>9, <1>10, <1>11, <1>12, <1>13, <1>14, <1>15 DEF ServerStep

(* The others in the namespace keep the objects well formed. *)
LEMMA OthersTyped ==
  ASSUME Inv,
         \/ \E n \in Names : Publish(n) \/ Withdraw(n)
         \/ \E s \in SecretNames : Project(s)
  PROVE  TypeOK' /\ RequestsOK'
<1> USE DEF Inv
<1>1. ASSUME NEW n \in Names, Publish(n) PROVE TypeOK' /\ RequestsOK'
  <2>1. PICK c \in Contracts :
          PutConnection(n, [contract |-> c, ref |-> Absent, secret |-> Absent,
                            owned |-> FALSE, managed |-> TRUE])
    BY <1>1 DEF Publish
  <2>2. [contract |-> c, ref |-> Absent, secret |-> Absent,
         owned |-> FALSE, managed |-> TRUE] \in ConnectionOrAbsent
    BY DEF Connection, ConnectionOrAbsent
  <2> QED BY <1>1, <2>1, <2>2, PutConnectionType DEF Publish, SameSecrets, TypeOK, RequestsOK
<1>2. ASSUME NEW n \in Names, Withdraw(n) PROVE TypeOK' /\ RequestsOK'
  <2>1. PutConnection(n, Absent) /\ Absent \in ConnectionOrAbsent
    BY <1>2 DEF Withdraw, ConnectionOrAbsent
  <2> QED BY <1>2, <2>1, PutConnectionType DEF Withdraw, SameSecrets, TypeOK, RequestsOK
<1>3. ASSUME NEW s \in SecretNames, Project(s) PROVE TypeOK' /\ RequestsOK'
  <2>1. PICK x \in SecretOrAbsent : PutSecret(s, x)
    BY <1>3 DEF Project, Secret, SecretOrAbsent
  <2> QED BY <1>3, <2>1, PutSecretType DEF Project, SameConnections, TypeOK, RequestsOK
<1> QED BY <1>1, <1>2, <1>3

-----------------------------------------------------------------------------
(* The versions of Secrets *)

(* The requests that still hold the current version of their Secret, and    *)
(* only those, are unaffected by a write of a Secret.                       *)
LEMMA PutSecretSnapshot ==
  ASSUME TypeOK, SnapshotCurrent, NEW s \in SecretNames, NEW x, PutSecret(s, x),
         \A d \in secretRV' : requests'[d] = requests[d]
  PROVE  SnapshotCurrent'
<1> SUFFICES ASSUME NEW d \in secretRV'
             PROVE  LET secret == secrets'[Cred(requests'[d].name)] IN
                    /\ requests'[d].pc = "secretUpdate"
                    /\ secret # Absent /\ secret.managed
                    /\ secret.keys = requests'[d].keys
  BY DEF SnapshotCurrent
<1>1. d \in secretRV /\ Cred(requests[d].name) # s
  BY DEF PutSecret
<1>2. secrets'[Cred(requests[d].name)] = secrets[Cred(requests[d].name)]
  BY <1>1 DEF PutSecret, TypeOK
<1> QED BY <1>1, <1>2 DEF SnapshotCurrent

(* Neither are they affected by a step of another request that leaves the   *)
(* Secrets alone.                                                           *)
LEMMA OtherStepSnapshot ==
  ASSUME SnapshotCurrent, UNCHANGED secrets, secretRV' \subseteq secretRV,
         \A d \in secretRV' : requests'[d] = requests[d]
  PROVE  SnapshotCurrent'
  BY DEF SnapshotCurrent

(* A request that is elsewhere in its handler holds no version. *)
LEMMA OthersHoldNone ==
  ASSUME TypeOK, SnapshotCurrent, NEW r \in Requests, requests[r].pc # "secretUpdate"
  PROVE  r \notin secretRV
  BY DEF SnapshotCurrent

(* A server step moves the record of its own request only. *)
LEMMA OneRequestMoves ==
  ASSUME TypeOK, NEW r \in Requests, ServerStep(r)
  PROVE  \A d \in Requests \ {r} : requests'[d] = requests[d]
  BY DEF ServerStep, TypeOK, SubmitWrite, Submit, SubmitDelete, CheckExistingSecret, GetConnection,
         GetSecret, CreateSecret, UpdateSecret, CreateConnection, CreateConnectionFails,
         GetResourceVersion, UpdateConnection, UpdateFailed, DeleteConnection, DropSecret,
         DropSecretFails, CallFails, Goto, Done

(* A step of the server keeps the snapshots. *)
LEMMA ServerStepSnapshot ==
  ASSUME Inv, NEW r \in Requests, ServerStep(r)
  PROVE  SnapshotCurrent'
<1> USE DEF Inv
<1>0. /\ requests[r] \in Request /\ RequestOK(requests[r])
      /\ \A d \in Requests \ {r} : requests'[d] = requests[d]
      /\ secretRV \subseteq Requests
  BY OneRequestMoves DEF TypeOK, RequestsOK
<1>1. CASE GetSecret(r)
  <2>0. requests[r].pc = "secretGet" /\ r \notin secretRV /\ UNCHANGED secrets
    BY <1>1, OthersHoldNone DEF GetSecret, At
  <2>1. CASE UNCHANGED secretRV
    BY <1>0, <2>0, <2>1, OtherStepSnapshot
  <2>2. CASE /\ secrets[Cred(requests[r].name)] # Absent
             /\ secrets[Cred(requests[r].name)].managed
             /\ requests' = [requests EXCEPT ![r].pc = "secretUpdate",
                                             ![r].keys = secrets[Cred(requests[r].name)].keys]
             /\ secretRV' = secretRV \cup {r}
    <3>1. /\ requests'[r].pc = "secretUpdate" /\ requests'[r].name = requests[r].name
          /\ requests'[r].keys = secrets[Cred(requests[r].name)].keys
      BY <1>0, <2>2 DEF TypeOK, Request
    <3>2. \A d \in secretRV : requests'[d] = requests[d]
      BY <1>0, <2>0
    <3> QED BY <2>0, <2>2, <3>1, <3>2 DEF SnapshotCurrent
  <2> QED BY <1>1, <2>1, <2>2 DEF GetSecret
<1>2. CASE CreateSecret(r)
  <2>0. r \notin secretRV /\ Cred(requests[r].name) \in SecretNames
    BY <1>0, <1>2, OthersHoldNone, CredType DEF CreateSecret, At, RequestOK
  <2>1. CASE SameSecrets
    BY <1>0, <2>0, <2>1, OtherStepSnapshot DEF SameSecrets
  <2>2. CASE PutSecret(Cred(requests[r].name), [managed |-> TRUE, keys |-> requests[r].fields])
    <3>1. secretRV' \subseteq secretRV
      BY <2>2 DEF PutSecret
    <3> QED BY <1>0, <2>0, <2>2, <3>1, PutSecretSnapshot
  <2> QED BY <1>2, <2>1, <2>2 DEF CreateSecret
<1>3. CASE UpdateSecret(r)
  <2>0. Cred(requests[r].name) \in SecretNames
    BY <1>0, <1>3, CredType DEF UpdateSecret, At, RequestOK
  <2>1. CASE r \notin secretRV
    BY <1>0, <1>3, <2>1, OtherStepSnapshot DEF UpdateSecret, SameSecrets
  <2>2. CASE r \in secretRV
    <3>1. PutSecret(Cred(requests[r].name),
                    [managed |-> TRUE, keys |-> requests[r].keys \cup requests[r].fields])
      BY <1>3, <2>2 DEF UpdateSecret
    <3>2. secretRV' \subseteq secretRV /\ r \notin secretRV'
      BY <3>1 DEF PutSecret
    <3> QED BY <1>0, <2>0, <3>1, <3>2, PutSecretSnapshot
  <2> QED BY <2>1, <2>2
<1>4. CASE DropSecret(r)
  <2>1. Doomed(requests[r]) \in SecretNames /\ r \notin secretRV
    BY <1>0, <1>4, DoomedType, OthersHoldNone DEF DropSecret
  <2>2. PutSecret(Doomed(requests[r]), Absent)
    BY <1>4 DEF DropSecret, DeleteSecret
  <2>3. secretRV' \subseteq secretRV
    BY <2>2 DEF PutSecret
  <2> QED BY <1>0, <2>1, <2>2, <2>3, PutSecretSnapshot
<1>5. CASE CallFails(r)
  BY <1>0, <1>5, OtherStepSnapshot DEF CallFails
<1>6. CASE \/ SubmitWrite(r) \/ SubmitDelete(r) \/ CheckExistingSecret(r) \/ GetConnection(r)
           \/ CreateConnection(r) \/ CreateConnectionFails(r) \/ GetResourceVersion(r)
           \/ UpdateConnection(r) \/ DeleteConnection(r) \/ DropSecretFails(r)
  <2>1. requests[r].pc # "secretUpdate"
    BY <1>6 DEF SubmitWrite, Submit, SubmitDelete, CheckExistingSecret, GetConnection,
                CreateConnection, CreateConnectionFails, GetResourceVersion, UpdateConnection,
                DeleteConnection, DropSecretFails, At
  <2>2. UNCHANGED <<secrets, secretRV>>
    BY <1>6 DEF SubmitWrite, Submit, SubmitDelete, CheckExistingSecret, GetConnection,
                CreateConnection, CreateConnectionFails, GetResourceVersion, UpdateConnection,
                DeleteConnection, DropSecretFails, SameSecrets
  <2> QED BY <1>0, <2>1, <2>2, OthersHoldNone, OtherStepSnapshot
<1> QED BY <1>1, <1>2, <1>3, <1>4, <1>5, <1>6 DEF ServerStep

(* So do the others. *)
LEMMA OthersSnapshot ==
  ASSUME Inv,
         \/ \E n \in Names : Publish(n) \/ Withdraw(n)
         \/ \E s \in SecretNames : Project(s)
  PROVE  SnapshotCurrent'
<1>1. UNCHANGED requests
  BY DEF Publish, Withdraw, Project
<1>2. ASSUME NEW n \in Names, Publish(n) \/ Withdraw(n) PROVE SnapshotCurrent'
  BY <1>1, <1>2, OtherStepSnapshot DEF Inv, Publish, Withdraw, SameSecrets
<1>3. ASSUME NEW s \in SecretNames, Project(s) PROVE SnapshotCurrent'
  <2>1. PICK x : PutSecret(s, x)
    BY <1>3 DEF Project
  <2> QED BY <1>1, <2>1, PutSecretSnapshot DEF Inv
<1> QED BY <1>2, <1>3

-----------------------------------------------------------------------------
(* The Secret reference of a connection *)

(* Every write of a Connection is one whose two references agree. *)
LEMMA NextRefAgrees ==
  ASSUME Inv, Next
  PROVE  RefAgrees'
<1> USE DEF Inv
<1>1. ASSUME NEW n \in Names, NEW c \in ConnectionOrAbsent, PutConnection(n, c),
             c # Absent => c.ref = c.secret
      PROVE  RefAgrees'
  BY <1>1 DEF PutConnection, TypeOK, RefAgrees
<1>2. ASSUME UNCHANGED connections PROVE RefAgrees'
  BY <1>2 DEF RefAgrees
<1>3. ASSUME NEW r \in Requests, ServerStep(r) PROVE RefAgrees'
  <2>0. requests[r] \in Request /\ RequestOK(requests[r])
    BY DEF TypeOK, RequestsOK
  <2>1. CASE UNCHANGED connections
    BY <1>2, <2>1
  <2>2. CASE CreateConnection(r) \/ CreateConnectionFails(r)
    <3>1. requests[r].pc = "create" /\ requests[r].name \in Names
      BY <2>0, <2>2 DEF CreateConnection, CreateConnectionFails, At, RequestOK
    <3>2. UNCHANGED connections \/ PutConnection(requests[r].name, NewConnection(requests[r]))
      BY <2>2 DEF CreateConnection, CreateConnectionFails, SameConnections
    <3> QED BY <1>1, <1>2, <2>0, <3>1, <3>2, NewConnectionType DEF ConnectionOrAbsent
  <2>3. CASE UpdateConnection(r)
    <3>1. requests[r].pc = "put" /\ requests[r].name \in Names
      BY <2>0, <2>3 DEF UpdateConnection, At, RequestOK
    <3>2. UNCHANGED connections \/ PutConnection(requests[r].name, EditedConnection(requests[r]))
      BY <2>3 DEF UpdateConnection, SameConnections
    <3> QED BY <1>1, <1>2, <2>0, <3>1, <3>2, EditedConnectionType DEF ConnectionOrAbsent
  <2>4. CASE DeleteConnection(r)
    <3>1. requests[r].name \in Names
      BY <2>0, <2>4 DEF DeleteConnection, At, RequestOK
    <3>2. UNCHANGED connections \/ PutConnection(requests[r].name, Absent)
      BY <2>4 DEF DeleteConnection, SameConnections
    <3> QED BY <1>1, <1>2, <3>1, <3>2 DEF ConnectionOrAbsent
  <2>5. UNCHANGED connections \/ CreateConnection(r) \/ CreateConnectionFails(r)
          \/ UpdateConnection(r) \/ DeleteConnection(r)
    BY <1>3 DEF ServerStep, SubmitWrite, Submit, SubmitDelete, CheckExistingSecret, GetConnection,
                GetSecret, CreateSecret, UpdateSecret, GetResourceVersion, DropSecret,
                DropSecretFails, CallFails, SameConnections
  <2> QED BY <2>1, <2>2, <2>3, <2>4, <2>5
<1>4. ASSUME NEW n \in Names, Publish(n) PROVE RefAgrees'
  <2>1. PICK c \in Contracts :
          PutConnection(n, [contract |-> c, ref |-> Absent, secret |-> Absent,
                            owned |-> FALSE, managed |-> TRUE])
    BY <1>4 DEF Publish
  <2>2. [contract |-> c, ref |-> Absent, secret |-> Absent,
         owned |-> FALSE, managed |-> TRUE] \in ConnectionOrAbsent
    BY DEF Connection, ConnectionOrAbsent
  <2> QED BY <1>1, <2>1, <2>2
<1>5. ASSUME NEW n \in Names, Withdraw(n) PROVE RefAgrees'
  BY <1>1, <1>5 DEF Withdraw, ConnectionOrAbsent
<1>6. ASSUME NEW s \in SecretNames, Project(s) PROVE RefAgrees'
  BY <1>2, <1>6 DEF Project, SameConnections
<1> QED BY <1>3, <1>4, <1>5, <1>6 DEF Next

-----------------------------------------------------------------------------
(* The Connection an update holds *)

(* A step that leaves the Connections alone and takes no request into an    *)
(* edit keeps what the edits hold.                                          *)
LEMMA StepHeld ==
  ASSUME TypeOK, ObjectHeld, NEW r \in Requests,
         \A d \in Requests \ {r} : requests'[d] = requests[d],
         UNCHANGED <<connections, connUID, connRV>>, requests[r].pc # "put",
         Editing(requests'[r]) => Editing(requests[r]) /\ requests'[r].name = requests[r].name
  PROVE  ObjectHeld'
<1>1. r \notin connRV
  BY DEF ObjectHeld
<1> QED BY <1>1 DEF ObjectHeld, TypeOK

(* A write of a Connection keeps what the edits hold, if it publishes a     *)
(* managed one under a free name only.                                      *)
LEMMA PutHeld ==
  ASSUME TypeOK, ObjectHeld, NEW n \in Names, NEW c, PutConnection(n, c),
         c # Absent => ~c.managed \/ connections[n] = Absent,
         \A d \in Requests : \/ requests'[d] = requests[d]
                             \/ ~Editing(requests'[d]) /\ d \notin connRV'
  PROVE  ObjectHeld'
<1>1. ASSUME NEW d \in connUID', Editing(requests'[d])
      PROVE  /\ connections'[requests'[d].name] # Absent
             /\ ~connections'[requests'[d].name].managed
  <2>1. d \in connUID /\ (c = Absent => requests[d].name # n)
    BY <1>1 DEF PutConnection
  <2>2. requests'[d] = requests[d]
    BY <1>1, <2>1 DEF TypeOK
  <2>3. connections[requests[d].name] # Absent /\ ~connections[requests[d].name].managed
    BY <1>1, <2>1, <2>2 DEF ObjectHeld
  <2> QED BY <2>1, <2>2, <2>3 DEF PutConnection, TypeOK
<1>2. ASSUME NEW d \in connRV' PROVE d \in connUID' /\ requests'[d].pc = "put"
  <2>1. d \in connRV /\ requests[d].name # n
    BY <1>2 DEF PutConnection
  <2>2. d \in connUID /\ requests[d].pc = "put" /\ requests'[d] = requests[d]
    BY <1>2, <2>1 DEF ObjectHeld, TypeOK
  <2> QED BY <2>1, <2>2 DEF PutConnection
<1> QED BY <1>1, <1>2 DEF ObjectHeld

(* A request that has ended is not editing. *)
LEMMA DoneEnds ==
  ASSUME TypeOK, NEW r \in Requests, Done(r)
  PROVE  requests'[r] = IdleRequest /\ ~Editing(requests'[r])
  BY DEF Done, TypeOK, Editing, IdleRequest, NewRequest

(* Every step of the server keeps what the edits hold. *)
LEMMA ServerStepHeld ==
  ASSUME Inv, NEW r \in Requests, ServerStep(r)
  PROVE  ObjectHeld'
<1> USE DEF Inv
<1> DEFINE q == requests[r]
<1>0. /\ q \in Request /\ RequestOK(q)
      /\ \A d \in Requests \ {r} : requests'[d] = requests[d]
  BY OneRequestMoves DEF TypeOK, RequestsOK
<1>1. CASE SubmitWrite(r) \/ SubmitDelete(r) \/ CheckExistingSecret(r)
  <2>1. UNCHANGED <<connections, connUID, connRV>> /\ q.pc # "put"
    BY <1>1 DEF SubmitWrite, Submit, SubmitDelete, CheckExistingSecret, SameConnections, At
  <2>2. requests'[r].pc \in {"get", "validate", "idle"}
    BY <1>0, <1>1 DEF SubmitWrite, Submit, SubmitDelete, CheckExistingSecret, NewRequest, Goto,
                      Done, IdleRequest, TypeOK, Request
  <2> QED BY <1>0, <2>1, <2>2, StepHeld DEF Editing
<1>2. CASE GetConnection(r)
  <2>1. /\ q.pc = "get" /\ q.name \in Names
        /\ UNCHANGED <<connections, connRV>>
        /\ r \notin connRV
    BY <1>0, <1>2 DEF GetConnection, At, RequestOK, ObjectHeld
  <2>2. connUID' = IF connections[q.name] = Absent THEN connUID \ {r} ELSE connUID \cup {r}
    BY <1>2 DEF GetConnection
  <2>3. ASSUME Editing(requests'[r])
        PROVE  /\ requests'[r].name = q.name /\ connections[q.name] # Absent
               /\ ~connections[q.name].managed
    <3>1. ~Done(r)
      BY <2>3, DoneEnds
    <3>2. \E l : requests' = [requests EXCEPT ![r].pc = l, ![r].seen = connections[q.name]]
      BY <1>2, <3>1 DEF GetConnection
    <3>3. requests'[r].name = q.name /\ requests'[r].op = q.op
      BY <1>0, <3>2 DEF TypeOK, Request
    <3>4. q.op = "update"
      BY <2>3, <3>3 DEF Editing
    <3> QED BY <1>2, <3>1, <3>3, <3>4 DEF GetConnection
  <2> QED BY <1>0, <2>1, <2>2, <2>3 DEF ObjectHeld, TypeOK
<1>3. CASE GetSecret(r) \/ CreateSecret(r) \/ UpdateSecret(r)
  <2>1. /\ UNCHANGED <<connections, connUID, connRV>>
        /\ q.pc \in {"secretGet", "secretCreate", "secretUpdate"}
    BY <1>3 DEF GetSecret, CreateSecret, UpdateSecret, SameConnections, At
  <2>2. requests'[r] = IdleRequest \/ (requests'[r].name = q.name /\ requests'[r].op = q.op)
    BY <1>0, <1>3, DoneEnds DEF GetSecret, CreateSecret, UpdateSecret, Goto, TypeOK, Request
  <2>3. Editing(requests'[r]) => Editing(q) /\ requests'[r].name = q.name
    BY <2>1, <2>2 DEF Editing, IdleRequest, NewRequest
  <2> QED BY <1>0, <2>1, <2>3, StepHeld
<1>4. CASE CreateConnection(r) \/ CreateConnectionFails(r)
  <2>1. q.pc = "create" /\ q.op = "create" /\ q.name \in Names /\ r \notin connRV
    BY <1>0, <1>4 DEF CreateConnection, CreateConnectionFails, At, RequestOK, ObjectHeld
  <2>2. ~Editing(requests'[r])
    BY <1>0, <1>4, <2>1, DoneEnds DEF CreateConnection, CreateConnectionFails, Goto, TypeOK,
                                     Request, Editing
  <2>3. SameConnections \/ PutConnection(q.name, NewConnection(q))
    BY <1>4 DEF CreateConnection, CreateConnectionFails
  <2>4. CASE SameConnections
    BY <1>0, <2>1, <2>2, <2>4, StepHeld DEF SameConnections
  <2>5. CASE PutConnection(q.name, NewConnection(q))
    <3>1. ~NewConnection(q).managed
      BY DEF NewConnection
    <3>2. r \notin connRV'
      BY <2>1, <2>5 DEF PutConnection
    <3> QED BY <1>0, <2>1, <2>2, <2>5, <3>1, <3>2, PutHeld
  <2> QED BY <2>3, <2>4, <2>5
<1>5. CASE GetResourceVersion(r)
  <2>1. q.pc = "rvGet" /\ q.op = "update" /\ r \notin connRV /\ UNCHANGED <<connections, connUID>>
    BY <1>0, <1>5 DEF GetResourceVersion, At, RequestOK, ObjectHeld
  <2>2. CASE UpdateFailed(r) /\ UNCHANGED connRV
    BY <1>0, <2>1, <2>2, DoneEnds, StepHeld DEF UpdateFailed
  <2>3. CASE Goto(r, "put") /\ connRV' = connRV \cup ({r} \cap connUID)
    <3>1. requests'[r].pc = "put" /\ requests'[r].name = q.name /\ requests'[r].op = q.op
      BY <1>0, <2>3 DEF Goto, TypeOK, Request
    <3>2. Editing(q)
      BY <2>1 DEF Editing
    <3> QED BY <1>0, <2>1, <2>3, <3>1, <3>2 DEF ObjectHeld, TypeOK
  <2> QED BY <1>5, <2>2, <2>3 DEF GetResourceVersion
<1>6. CASE UpdateConnection(r)
  <2>1. q.pc = "put" /\ q.op = "update" /\ q.name \in Names /\ ~q.seen.managed /\ q.seen \in Connection
    BY <1>0, <1>6 DEF UpdateConnection, At, RequestOK
  <2>2. CASE r \in connRV
    <3>1. PutConnection(q.name, EditedConnection(q))
      BY <1>6, <2>2 DEF UpdateConnection
    <3>2. ~EditedConnection(q).managed
      BY <2>1 DEF EditedConnection, Connection
    <3>3. ~Editing(requests'[r])
      BY <1>0, <1>6, <2>2, DoneEnds DEF UpdateConnection, Goto, TypeOK, Request, Editing
    <3>4. r \notin connRV'
      BY <3>1 DEF PutConnection
    <3> QED BY <1>0, <2>1, <3>1, <3>2, <3>3, <3>4, PutHeld
  <2>3. CASE r \notin connRV
    <3>1. SameConnections /\ Done(r)
      BY <1>6, <2>3 DEF UpdateConnection, UpdateFailed
    <3>2. ~Editing(requests'[r])
      BY <3>1, DoneEnds
    <3> QED BY <1>0, <2>3, <3>1, <3>2 DEF ObjectHeld, SameConnections, TypeOK
  <2> QED BY <2>2, <2>3
<1>7. CASE DeleteConnection(r)
  <2>1. q.pc = "delete" /\ q.op = "delete" /\ q.name \in Names /\ r \notin connRV
    BY <1>0, <1>7 DEF DeleteConnection, At, RequestOK, ObjectHeld
  <2>2. ~Editing(requests'[r])
    BY <1>0, <1>7, <2>1, DoneEnds DEF DeleteConnection, Goto, TypeOK, Request, Editing
  <2>3. CASE SameConnections
    BY <1>0, <2>1, <2>2, <2>3, StepHeld DEF SameConnections
  <2>4. CASE PutConnection(q.name, Absent)
    <3>1. r \notin connRV'
      BY <2>1, <2>4 DEF PutConnection
    <3> QED BY <1>0, <2>1, <2>2, <2>4, <3>1, PutHeld
  <2> QED BY <1>7, <2>3, <2>4 DEF DeleteConnection
<1>8. CASE DropSecret(r) \/ DropSecretFails(r)
  <2>1. UNCHANGED <<connections, connUID, connRV>> /\ q.pc # "put" /\ Done(r)
    BY <1>8 DEF DropSecret, DropSecretFails, SameConnections
  <2> QED BY <1>0, <2>1, DoneEnds, StepHeld
<1>9. CASE CallFails(r)
  <2>1. UNCHANGED <<connections, connUID>> /\ connRV' = connRV \ {r} /\ Done(r)
    BY <1>9 DEF CallFails, UpdateFailed
  <2> QED BY <1>0, <2>1, DoneEnds DEF ObjectHeld, TypeOK
<1> QED BY <1>1, <1>2, <1>3, <1>4, <1>5, <1>6, <1>7, <1>8, <1>9 DEF ServerStep

(* So do the others. *)
LEMMA OthersHeld ==
  ASSUME Inv,
         \/ \E n \in Names : Publish(n) \/ Withdraw(n)
         \/ \E s \in SecretNames : Project(s)
  PROVE  ObjectHeld'
<1>1. UNCHANGED requests
  BY DEF Publish, Withdraw, Project
<1>2. ASSUME NEW n \in Names, Publish(n) \/ Withdraw(n) PROVE ObjectHeld'
  <2>1. PICK c : PutConnection(n, c) /\ (c = Absent \/ connections[n] = Absent)
    BY <1>2 DEF Publish, Withdraw
  <2> QED BY <1>1, <2>1, PutHeld DEF Inv
<1>3. ASSUME NEW s \in SecretNames, Project(s) PROVE ObjectHeld'
  BY <1>1, <1>3 DEF Inv, ObjectHeld, Project, SameConnections
<1> QED BY <1>2, <1>3

-----------------------------------------------------------------------------
(* The inductive invariant *)

(* The namespace starts in the invariant. *)
LEMMA InitInv == Init => Inv
<1> SUFFICES ASSUME Init PROVE Inv
  OBVIOUS
<1>1. TypeOK
  BY IdleOK DEF Init, TypeOK, ConnectionOrAbsent, SecretOrAbsent, Secret
<1>2. RequestsOK
  BY IdleOK DEF Init, RequestsOK
<1> QED BY <1>1, <1>2 DEF Init, Inv, SnapshotCurrent, RefAgrees, ObjectHeld

(* Every step keeps it. *)
LEMMA NextInv == Inv /\ [Next]_vars => Inv'
<1> SUFFICES ASSUME Inv, [Next]_vars PROVE Inv'
  OBVIOUS
<1>1. CASE Next
  <2>1. (\E r \in Requests : ServerStep(r)) =>
          TypeOK' /\ RequestsOK' /\ SnapshotCurrent' /\ ObjectHeld'
    BY ServerStepTyped, ServerStepSnapshot, ServerStepHeld
  <2>2. (\/ \E n \in Names : Publish(n) \/ Withdraw(n)
         \/ \E s \in SecretNames : Project(s)) =>
          TypeOK' /\ RequestsOK' /\ SnapshotCurrent' /\ ObjectHeld'
    BY OthersTyped, OthersSnapshot, OthersHeld
  <2>3. RefAgrees'
    BY <1>1, NextRefAgrees
  <2> QED BY <1>1, <2>1, <2>2, <2>3 DEF Next, Inv
<1>2. CASE UNCHANGED vars
  BY <1>2 DEF vars, Inv, TypeOK, RequestsOK, SnapshotCurrent, RefAgrees, ObjectHeld
<1> QED BY <1>1, <1>2

(* So it always holds. *)
LEMMA AlwaysInv == Spec => []Inv
  BY InitInv, NextInv, PTL DEF Spec

-----------------------------------------------------------------------------
(* One request at a time *)

(* Requests do not overlap, and a create that fails was not applied. *)
OneAtATime == (\A a, b \in Requests : a = b) /\ ~LostAnswers

NotOwner(c) == c # Absent => ~c.owned

Ours(secret) == secret # Absent /\ secret.managed

(* A connection that owns credentials is one of ours, and has them in the   *)
(* Secret that is named after it.                                           *)
OwnersNamed ==
  \A n \in Names : ~NotOwner(connections[n]) =>
    connections[n].secret = Cred(n) /\ ~connections[n].managed

Storing == {"secretGet", "secretCreate", "secretUpdate"}
Dropping == {"rollback", "dropOrphan", "dropSecret"}

(* What a request has read is still so at its later calls, c being the      *)
(* Connection of its name and S the Secrets: an edit or a deletion finds    *)
(* the Connection it looked at, a create finds no owner, the credentials it *)
(* has stored are there, and the existing Secret it was told to use is not  *)
(* one of ours.  What it drops is the Secret named after its connection,    *)
(* which no longer owns it.                                                 *)
HeldBy(q, c, S) ==
  /\ q.op # "create" /\ q.pc \in Storing \cup {"rvGet", "put", "delete"} => c = q.seen
  /\ q.op = "create" /\ q.pc \in Storing \cup {"create"} => NotOwner(c)
  /\ q.pc \in Storing => StoresSecret(q)
  /\ q.pc \in Dropping => NotOwner(c) /\ Doomed(q) = Cred(q.name)
  /\ Stored(q) => Ours(S[Cred(q.name)]) /\ q.fields \subseteq S[Cred(q.name)].keys
  /\ q.existing # Absent /\ q.pc \in {"get", "create", "rvGet", "put"} => ~Ours(S[q.existing])

Held == \A r \in Requests : HeldBy(requests[r], connections[requests[r].name], secrets)

(* The request will bind, drop or write off this Secret. *)
AnswersFor(q, s) == Cred(q.name) = s /\ (Stored(q) \/ q.pc \in Dropping)

(* The Connection c of name n owns it. *)
Owner(c, n, s) ==
  c # Absent /\ ~c.managed /\ CredentialsSecretOf(c, n) = [name |-> s, owned |-> TRUE]

SecretsAccounted ==
  \A s \in SecretNames : Ours(secrets[s]) =>
    \/ s \in debris
    \/ \E n \in Names : Owner(connections[n], n, s)
    \/ \E r \in Requests : AnswersFor(requests[r], s)

(* The inductive invariant with one request at a time, on top of Inv. *)
OneInv == OwnersNamed /\ CredentialsBound /\ SecretsAccounted /\ Held

(* A connection that owns a Secret owns the one named after it. *)
LEMMA OwnerCred ==
  ASSUME TypeOK, OwnersNamed, NEW n \in Names, NEW s, Owner(connections[n], n, s)
  PROVE  s = Cred(n)
<1> DEFINE c == connections[n]
<1>1. c # Absent /\ CredentialsSecretOf(c, n).name = s /\ CredentialsSecretOf(c, n).owned
  BY DEF Owner
<1>2. CASE c.secret = Absent
  BY <1>1, <1>2 DEF CredentialsSecretOf
<1>3. CASE c.secret # Absent
  <2>1. s = c.secret /\ c.owned
    BY <1>1, <1>3 DEF CredentialsSecretOf, CredentialsOwned
  <2> QED BY <1>1, <2>1 DEF OwnersNamed, NotOwner
<1> QED BY <1>2, <1>3

(* Whose annotations say so owns it. *)
LEMMA AnnotatedOwner ==
  ASSUME NEW n \in Names, NEW c \in Connection, ~c.managed, c.owned, c.secret = Cred(n)
  PROVE  Owner(c, n, Cred(n))
<1>1. c # Absent /\ Cred(n) # Absent /\ c.owned = TRUE
  BY CredType, AbsentAssumption DEF Connection
<1>2. CredentialsSecretOf(c, n) = [name |-> Cred(n), owned |-> TRUE]
  BY <1>1 DEF CredentialsSecretOf, CredentialsOwned
<1> QED BY <1>1, <1>2 DEF Owner

(* Names of Secrets are told apart by the connections. *)
LEMMA CredDiffers == ASSUME NEW m, NEW n, Cred(m) = Cred(n) PROVE m = n
  BY DEF Cred

(* A finished request. *)
LEMMA IdleHeld ==
  /\ \A c, S : HeldBy(IdleRequest, c, S)
  /\ \A s : ~AnswersFor(IdleRequest, s)
<1>1. IdleRequest.pc = "idle" /\ IdleRequest.existing = Absent /\ ~Stored(IdleRequest)
  BY DEF IdleRequest, NewRequest, Stored
<1> QED BY <1>1 DEF HeldBy, AnswersFor, Storing, Dropping

(* A step that leaves the objects alone: the request answers as before, or  *)
(* writes off.                                                              *)
LEMMA QuietOne ==
  ASSUME Inv, OneInv, OneAtATime, NEW r \in Requests, NEW p, requests' = [requests EXCEPT ![r] = p],
         UNCHANGED <<connections, secrets>>, debris \subseteq debris',
         HeldBy(p, connections[p.name], secrets),
         \A s \in SecretNames : AnswersFor(requests[r], s) => s \in debris' \/ AnswersFor(p, s)
  PROVE  OneInv'
<1>1. \A d \in Requests : d = r /\ requests'[d] = p
  BY DEF OneAtATime, Inv, TypeOK
<1>2. OwnersNamed' /\ CredentialsBound'
  BY DEF OneInv, OwnersNamed, CredentialsBound
<1>3. Held'
  BY <1>1 DEF Held
<1>4. ASSUME NEW s \in SecretNames, Ours(secrets[s])
      PROVE  \/ s \in debris' \/ \E n \in Names : Owner(connections[n], n, s)
             \/ \E d \in Requests : AnswersFor(requests'[d], s)
  BY <1>1, <1>4 DEF OneInv, SecretsAccounted
<1>5. SecretsAccounted'
  BY <1>4 DEF SecretsAccounted
<1> QED BY <1>2, <1>3, <1>5 DEF OneInv

(* A request that ends and leaves the objects alone. *)
LEMMA QuietDone ==
  ASSUME Inv, OneInv, OneAtATime, NEW r \in Requests, Done(r),
         UNCHANGED <<connections, secrets>>, debris \subseteq debris',
         \A s \in SecretNames : AnswersFor(requests[r], s) => s \in debris'
  PROVE  OneInv'
  BY IdleHeld, QuietOne DEF Done

(* A write of the Connection of a request. *)
LEMMA ConnectionOne ==
  ASSUME Inv, OneInv, OneAtATime, NEW r \in Requests, NEW p, requests' = [requests EXCEPT ![r] = p],
         NEW n \in Names, NEW c, connections' = [connections EXCEPT ![n] = c], UNCHANGED secrets,
         ~NotOwner(c) => c.secret = Cred(n) /\ ~c.managed /\ Ours(secrets[Cred(n)]),
         \A s \in SecretNames : Ours(secrets[s]) /\ s \in debris =>
           s \in debris' \/ Owner(c, n, s) \/ AnswersFor(p, s),
         \A s \in SecretNames : Ours(secrets[s]) /\ AnswersFor(requests[r], s) =>
           s \in debris' \/ Owner(c, n, s) \/ AnswersFor(p, s),
         Ours(secrets[Cred(n)]) /\ Owner(connections[n], n, Cred(n)) =>
           Cred(n) \in debris' \/ Owner(c, n, Cred(n)) \/ AnswersFor(p, Cred(n)),
         HeldBy(p, connections'[p.name], secrets)
  PROVE  OneInv'
<1>1. \A d \in Requests : d = r /\ requests'[d] = p
  BY DEF OneAtATime, Inv, TypeOK
<1>2. connections'[n] = c /\ \A m \in Names : m # n => connections'[m] = connections[m]
  BY DEF Inv, TypeOK
<1>3. OwnersNamed'
  <2>1. ASSUME NEW m \in Names, ~NotOwner(connections'[m])
        PROVE  connections'[m].secret = Cred(m) /\ ~connections'[m].managed
    <3>1. CASE m = n
      BY <1>2, <2>1, <3>1
    <3>2. CASE m # n
      BY <1>2, <2>1, <3>2 DEF OneInv, OwnersNamed
    <3> QED BY <3>1, <3>2
  <2> QED BY <2>1 DEF OwnersNamed, NotOwner
<1>4. CredentialsBound'
  <2>1. ASSUME NEW m \in Names, connections'[m] # Absent, connections'[m].secret # Absent,
               connections'[m].owned
        PROVE  Ours(secrets[connections'[m].secret])
    <3>1. CASE m = n
      BY <1>2, <2>1, <3>1 DEF NotOwner
    <3>2. CASE m # n
      BY <1>2, <2>1, <3>2 DEF OneInv, CredentialsBound, Ours
    <3> QED BY <3>1, <3>2
  <2> QED BY <2>1 DEF CredentialsBound, Ours
<1>5. Held'
  BY <1>1 DEF Held
<1>6. ASSUME NEW s \in SecretNames, Ours(secrets[s])
      PROVE  \/ s \in debris' \/ \E m \in Names : Owner(connections'[m], m, s)
             \/ \E d \in Requests : AnswersFor(requests'[d], s)
  <2>1. CASE s \in debris' \/ Owner(c, n, s) \/ AnswersFor(p, s)
    BY <1>1, <1>2, <2>1
  <2>2. CASE s \in debris
    BY <1>6, <2>1, <2>2
  <2>3. CASE \E d \in Requests : AnswersFor(requests[d], s)
    BY <1>1, <1>6, <2>1, <2>3
  <2>4. ASSUME NEW m \in Names, Owner(connections[m], m, s)
        PROVE  \/ s \in debris' \/ \E l \in Names : Owner(connections'[l], l, s)
               \/ \E d \in Requests : AnswersFor(requests'[d], s)
    <3>1. CASE m = n
      <4>1. s = Cred(n)
        BY <2>4, <3>1, OwnerCred DEF Inv, OneInv
      <4> QED BY <1>6, <2>1, <2>4, <3>1, <4>1
    <3>2. CASE m # n
      BY <1>2, <2>4, <3>2
    <3> QED BY <3>1, <3>2
  <2> QED BY <1>6, <2>2, <2>3, <2>4 DEF OneInv, SecretsAccounted
<1>7. SecretsAccounted'
  BY <1>6 DEF SecretsAccounted
<1> QED BY <1>3, <1>4, <1>5, <1>7 DEF OneInv

(* A write of the Secret t. *)
LEMMA SecretOne ==
  ASSUME Inv, OneInv, OneAtATime, NEW r \in Requests, NEW p, requests' = [requests EXCEPT ![r] = p],
         NEW n \in Names, NEW x, secrets' = [secrets EXCEPT ![Cred(n)] = x], UNCHANGED connections,
         ~NotOwner(connections[n]) => Ours(x),
         Ours(x) => AnswersFor(p, Cred(n)),
         debris \ {Cred(n)} \subseteq debris',
         \A s \in SecretNames : s # Cred(n) => ~AnswersFor(requests[r], s),
         HeldBy(p, connections[p.name], secrets')
  PROVE  OneInv'
<1>1. \A d \in Requests : d = r /\ requests'[d] = p
  BY DEF OneAtATime, Inv, TypeOK
<1>2. /\ secrets'[Cred(n)] = x /\ Cred(n) \in SecretNames
      /\ \A s \in SecretNames : s # Cred(n) => secrets'[s] = secrets[s]
  BY CredType DEF Inv, TypeOK
<1>3. OwnersNamed'
  BY DEF OneInv, OwnersNamed
<1>4. CredentialsBound'
  <2>1. ASSUME NEW m \in Names, connections[m] # Absent, connections[m].secret # Absent,
               connections[m].owned
        PROVE  Ours(secrets'[connections[m].secret])
    <3>1. connections[m].secret = Cred(m) /\ ~NotOwner(connections[m])
      BY <2>1 DEF OneInv, OwnersNamed, NotOwner
    <3>2. CASE m = n
      BY <1>2, <3>1, <3>2
    <3>3. CASE m # n
      <4>1. Cred(m) # Cred(n) /\ Cred(m) \in SecretNames
        BY <3>3, CredDiffers, CredType
      <4>2. Ours(secrets[Cred(m)])
        BY <2>1, <3>1 DEF OneInv, CredentialsBound, Ours
      <4> QED BY <1>2, <3>1, <4>1, <4>2
    <3> QED BY <3>2, <3>3
  <2> QED BY <2>1 DEF CredentialsBound, Ours
<1>5. Held'
  BY <1>1 DEF Held
<1>6. ASSUME NEW s \in SecretNames, Ours(secrets'[s])
      PROVE  \/ s \in debris' \/ \E m \in Names : Owner(connections[m], m, s)
             \/ \E d \in Requests : AnswersFor(requests'[d], s)
  <2>1. CASE s = Cred(n)
    BY <1>1, <1>2, <1>6, <2>1
  <2>2. CASE s # Cred(n)
    <3>1. \A d \in Requests : ~AnswersFor(requests[d], s)
      BY <1>1, <2>2
    <3>2. Ours(secrets[s])
      BY <1>2, <1>6, <2>2
    <3> QED BY <2>2, <3>1, <3>2 DEF OneInv, SecretsAccounted
  <2> QED BY <2>1, <2>2
<1>7. SecretsAccounted'
  BY <1>6 DEF SecretsAccounted
<1> QED BY <1>3, <1>4, <1>5, <1>7 DEF OneInv

(* The place and the locals of a request change, not what it asks for. *)
SameAsk(q, p) ==
  /\ p.op = q.op /\ p.name = q.name /\ p.contract = q.contract
  /\ p.existing = q.existing /\ p.fields = q.fields

LEMMA GotoAsk ==
  ASSUME NEW q \in Request, NEW pc
  PROVE  /\ SameAsk(q, [q EXCEPT !.pc = pc]) /\ [q EXCEPT !.pc = pc].pc = pc
         /\ [q EXCEPT !.pc = pc].seen = q.seen
  BY DEF Request, SameAsk

LEMMA SameAskStores ==
  ASSUME NEW q, NEW p, SameAsk(q, p)
  PROVE  /\ StoresSecret(p) <=> StoresSecret(q)
         /\ Stored(p) <=> StoresSecret(q) /\ p.pc \in {"create", "rvGet", "put"}
         /\ \A s : AnswersFor(p, s) <=> Cred(q.name) = s /\ (Stored(p) \/ p.pc \in Dropping)
  BY DEF SameAsk, StoresSecret, Stored, AnswersFor

(* The request in hand. *)
LEMMA InHand ==
  ASSUME Inv, OneInv, NEW r \in Requests
  PROVE  /\ requests[r] \in Request /\ RequestOK(requests[r])
         /\ HeldBy(requests[r], connections[requests[r].name], secrets)
  BY DEF Inv, TypeOK, RequestsOK, OneInv, Held

(* A request arrives. *)
LEMMA SubmitOne ==
  ASSUME Inv, OneInv, OneAtATime, NEW r \in Requests, SubmitWrite(r) \/ SubmitDelete(r)
  PROVE  OneInv'
<1>1. PICK op, n, contract, existing, fields :
        requests' = [requests EXCEPT ![r] =
          NewRequest(IF existing = Absent THEN "get" ELSE "validate", op, n, contract, existing, fields)]
  <2>1. CASE SubmitWrite(r)
    BY <2>1 DEF SubmitWrite, Submit
  <2>2. CASE SubmitDelete(r)
    <3>1. PICK n \in Names :
            requests' = [requests EXCEPT ![r] = NewRequest("get", "delete", n, Absent, Absent, {})]
      BY <2>2 DEF SubmitDelete
    <3>2. (IF Absent = Absent THEN "get" ELSE "validate") = "get"
      OBVIOUS
    <3> QED BY <3>1, <3>2, Zenon
  <2> QED BY <2>1, <2>2
<1> DEFINE p == NewRequest(IF existing = Absent THEN "get" ELSE "validate",
                           op, n, contract, existing, fields)
<1>2. /\ p.existing = existing /\ p.pc \in {"get", "validate"}
      /\ existing # Absent => p.pc = "validate"
  BY DEF NewRequest
<1>3. requests[r].pc = "idle" /\ UNCHANGED <<connections, secrets, debris>>
  BY DEF SubmitWrite, Submit, SubmitDelete, At
<1>4. requests' = [requests EXCEPT ![r] = p]
  BY <1>1
<1> HIDE DEF p
<1>5. HeldBy(p, connections[p.name], secrets)
  BY <1>2 DEF HeldBy, Stored, Storing, Dropping
<1>6. \A s : ~AnswersFor(requests[r], s)
  BY <1>3 DEF AnswersFor, Stored, Dropping
<1> QED BY <1>3, <1>4, <1>5, <1>6, QuietOne

(* checkExistingSecret: the Secret is not one of ours. *)
LEMMA CheckExistingOne ==
  ASSUME Inv, OneInv, OneAtATime, NEW r \in Requests, CheckExistingSecret(r)
  PROVE  OneInv'
<1> DEFINE q == requests[r]
           p == [q EXCEPT !.pc = "get"]
<1>0. q \in Request /\ q.pc = "validate" /\ UNCHANGED <<connections, secrets, debris>>
  BY InHand DEF CheckExistingSecret, At, SameConnections, SameSecrets
<1>1. \A s : ~AnswersFor(q, s)
  BY <1>0 DEF AnswersFor, Stored, Dropping
<1>2. CASE Done(r)
  BY <1>0, <1>1, <1>2, QuietDone
<1>3. CASE Goto(r, "get") /\ ~Ours(secrets[q.existing])
  <2>1. SameAsk(q, p) /\ p.pc = "get"
    BY <1>0, GotoAsk
  <2>2. requests' = [requests EXCEPT ![r] = p]
    BY <1>3 DEF Goto
  <2> HIDE DEF p
  <2>3. HeldBy(p, connections[p.name], secrets)
    BY <1>3, <2>1 DEF HeldBy, Stored, Storing, Dropping, SameAsk
  <2> QED BY <1>0, <1>1, <2>2, <2>3, QuietOne
<1> QED BY <1>2, <1>3 DEF CheckExistingSecret, Ours

(* The service looks at the Connection. *)
LEMMA GetOne ==
  ASSUME Inv, OneInv, OneAtATime, NEW r \in Requests, GetConnection(r)
  PROVE  OneInv'
<1> DEFINE q == requests[r]
           c == connections[q.name]
           next == IF q.op = "delete" THEN "delete"
                   ELSE IF StoresSecret(q) THEN "secretGet" ELSE WriteOf(q)
           p == [q EXCEPT !.pc = next, !.seen = c]
<1>0. /\ q \in Request /\ RequestOK(q) /\ HeldBy(q, c, secrets) /\ q.pc = "get"
      /\ UNCHANGED <<connections, secrets, debris>>
  BY InHand DEF GetConnection, At, SameSecrets
<1>1. \A s : ~AnswersFor(q, s)
  BY <1>0 DEF AnswersFor, Stored, Dropping
<1>2. CASE Done(r)
  BY <1>0, <1>1, <1>2, QuietDone
<1>3. CASE requests' = [requests EXCEPT ![r] = p] /\ (q.op = "create" => c = Absent)
  <2>1. SameAsk(q, p) /\ p.pc = next /\ p.seen = c
    BY <1>0 DEF Request, SameAsk
  <2>2. /\ next \in {"delete", "secretGet", "create", "rvGet"}
        /\ next = "secretGet" => StoresSecret(q)
        /\ next \in {"create", "rvGet"} => ~StoresSecret(q)
    BY DEF WriteOf
  <2>3. q.existing # Absent => ~Ours(secrets[q.existing])
    BY <1>0 DEF HeldBy
  <2> HIDE DEF next, p
  <2>4. ~Stored(p) /\ (StoresSecret(p) <=> StoresSecret(q))
    BY <2>1, <2>2, SameAskStores
  <2>5. p.op = q.op /\ p.name = q.name /\ p.existing = q.existing
    BY <2>1 DEF SameAsk
  <2>6. HeldBy(p, c, secrets)
    BY <1>3, <2>1, <2>2, <2>3, <2>4, <2>5 DEF HeldBy, Storing, Dropping, NotOwner
  <2> QED BY <1>0, <1>1, <1>3, <2>5, <2>6, QuietOne
<1>4. Done(r) \/ (requests' = [requests EXCEPT ![r] = p] /\ (q.op = "create" => c = Absent))
  BY DEF GetConnection
<1> QED BY <1>2, <1>3, <1>4

(* CreateOrUpdateSecret reads the Secret ... *)
LEMMA GetSecretOne ==
  ASSUME Inv, OneInv, OneAtATime, NEW r \in Requests, GetSecret(r)
  PROVE  OneInv'
<1> DEFINE q == requests[r]
<1>0. /\ q \in Request /\ HeldBy(q, connections[q.name], secrets) /\ q.pc = "secretGet"
      /\ UNCHANGED <<connections, secrets, debris>>
  BY InHand DEF GetSecret, At, SameConnections
<1>1. \A s : ~AnswersFor(q, s)
  BY <1>0 DEF AnswersFor, Stored, Dropping
<1>2. CASE Done(r)
  BY <1>0, <1>1, <1>2, QuietDone
<1>3. ASSUME NEW p, requests' = [requests EXCEPT ![r] = p], SameAsk(q, p), p.seen = q.seen,
             p.pc \in {"secretCreate", "secretUpdate"}
      PROVE  OneInv'
  <2>1. (StoresSecret(p) <=> StoresSecret(q)) /\ ~Stored(p)
    BY <1>3, SameAskStores
  <2>2. p.op = q.op /\ p.name = q.name /\ p.existing = q.existing
    BY <1>3 DEF SameAsk
  <2>3. HeldBy(p, connections[p.name], secrets)
    BY <1>0, <1>3, <2>1, <2>2 DEF HeldBy, Storing, Dropping
  <2> QED BY <1>0, <1>1, <1>3, <2>3, QuietOne
<1>4. CASE Goto(r, "secretCreate")
  <2> DEFINE p == [q EXCEPT !.pc = "secretCreate"]
  <2>1. SameAsk(q, p) /\ p.seen = q.seen /\ p.pc = "secretCreate"
    BY <1>0, GotoAsk
  <2>2. requests' = [requests EXCEPT ![r] = p]
    BY <1>4 DEF Goto
  <2> HIDE DEF p
  <2> QED BY <1>3, <2>1, <2>2
<1>5. CASE ~Done(r) /\ ~Goto(r, "secretCreate")
  <2> DEFINE keys == secrets[Cred(q.name)].keys
             p == [q EXCEPT !.pc = "secretUpdate", !.keys = keys]
  <2>1. SameAsk(q, p) /\ p.seen = q.seen /\ p.pc = "secretUpdate"
    BY <1>0 DEF Request, SameAsk
  <2>2. requests' = [requests EXCEPT ![r] = p]
    BY <1>5 DEF GetSecret
  <2> HIDE DEF p
  <2> QED BY <1>3, <2>1, <2>2
<1> QED BY <1>2, <1>4, <1>5

(* ... and stores the credentials. *)
LEMMA StoreSecretOne ==
  ASSUME Inv, OneInv, OneAtATime, NEW r \in Requests, CreateSecret(r) \/ UpdateSecret(r)
  PROVE  OneInv'
<1> DEFINE q == requests[r]
           t == Cred(q.name)
           p == [q EXCEPT !.pc = WriteOf(q)]
<1>0. /\ q \in Request /\ RequestOK(q) /\ HeldBy(q, connections[q.name], secrets)
      /\ q.pc \in {"secretCreate", "secretUpdate"} /\ UNCHANGED connections
  BY InHand DEF CreateSecret, UpdateSecret, At, SameConnections
<1>1. \A s : ~AnswersFor(q, s)
  BY <1>0 DEF AnswersFor, Stored, Dropping
<1>2. CASE Done(r) /\ UNCHANGED <<secrets, debris>>
  BY <1>0, <1>1, <1>2, QuietDone
<1>3. ASSUME NEW keys \in SUBSET Fields, q.fields \subseteq keys, Goto(r, WriteOf(q)),
             secrets' = [secrets EXCEPT ![t] = [managed |-> TRUE, keys |-> keys]],
             debris \ {t} \subseteq debris'
      PROVE  OneInv'
  <2> DEFINE x == [managed |-> TRUE, keys |-> keys]
  <2>1. q.name \in Names /\ StoresSecret(q) /\ q.existing = Absent
    BY <1>0 DEF RequestOK, HeldBy, Storing, StoresSecret
  <2>2. Ours(x) /\ x.keys = keys
    <3>1. x \in Secret
      BY DEF Secret
    <3> QED BY <3>1, AbsentAssumption DEF Ours
  <2>3. requests' = [requests EXCEPT ![r] = p] /\ SameAsk(q, p) /\ p.pc = WriteOf(q) /\ p.seen = q.seen
    BY <1>0, <1>3, GotoAsk DEF Goto
  <2>4. WriteOf(q) \in {"create", "rvGet"} /\ (WriteOf(q) = "create" <=> q.op = "create")
    BY DEF WriteOf
  <2>5. secrets'[t] = x
    BY <1>3, <2>1, CredType DEF Inv, TypeOK
  <2> HIDE DEF x, p
  <2>6. Stored(p) /\ AnswersFor(p, t)
    BY <2>1, <2>3, <2>4, SameAskStores
  <2>7. p.op = q.op /\ p.name = q.name /\ p.existing = q.existing /\ p.fields = q.fields
    BY <2>3 DEF SameAsk
  <2>8. HeldBy(p, connections[p.name], secrets')
    <3>1. p.op # "create" /\ p.pc \in Storing \cup {"rvGet", "put", "delete"} => connections[q.name] = p.seen
      BY <1>0, <2>3, <2>7 DEF HeldBy, Storing
    <3>2. p.op = "create" /\ p.pc \in Storing \cup {"create"} => NotOwner(connections[q.name])
      BY <1>0, <2>7 DEF HeldBy, Storing
    <3>3. p.pc \notin Storing /\ p.pc \notin Dropping
      BY <2>3, <2>4 DEF Storing, Dropping
    <3>4. Ours(secrets'[Cred(p.name)]) /\ p.fields \subseteq secrets'[Cred(p.name)].keys
      BY <1>3, <2>2, <2>5, <2>7
    <3>5. p.existing = Absent
      BY <2>1, <2>7
    <3> QED BY <2>7, <3>1, <3>2, <3>3, <3>4, <3>5 DEF HeldBy
  <2>9. secrets' = [secrets EXCEPT ![Cred(q.name)] = x]
    BY <1>3 DEF x
  <2> QED BY <1>0, <1>1, <1>3, <2>1, <2>2, <2>3, <2>6, <2>8, <2>9, SecretOne
<1>4. q.fields \subseteq Fields /\ q.keys \subseteq Fields
  BY <1>0 DEF Request
<1>5. CASE CreateSecret(r)
  <2>1. CASE secrets[t] # Absent
    BY <1>2, <1>5, <2>1 DEF CreateSecret, SameSecrets
  <2>2. CASE secrets[t] = Absent
    <3>1. /\ secrets' = [secrets EXCEPT ![t] = [managed |-> TRUE, keys |-> q.fields]]
          /\ Goto(r, WriteOf(q)) /\ debris' = debris \ {t}
      BY <1>5, <2>2 DEF CreateSecret, PutSecret
    <3> QED BY <1>3, <1>4, <3>1
  <2> QED BY <2>1, <2>2
<1>6. CASE UpdateSecret(r)
  <2>1. CASE r \notin secretRV
    BY <1>2, <1>6, <2>1 DEF UpdateSecret, SameSecrets
  <2>2. CASE r \in secretRV
    <3>1. /\ secrets' = [secrets EXCEPT ![t] = [managed |-> TRUE, keys |-> q.keys \cup q.fields]]
          /\ Goto(r, WriteOf(q)) /\ debris' = debris
      BY <1>6, <2>2 DEF UpdateSecret, PutSecret
    <3>2. q.keys \cup q.fields \in SUBSET Fields
      BY <1>4
    <3> QED BY <1>3, <3>1, <3>2
  <2> QED BY <2>1, <2>2
<1> QED BY <1>5, <1>6

(* Create: what it stores owns the credentials that it has stored. *)
LEMMA NewConnectionOwns ==
  ASSUME NEW q \in Request, RequestOK(q), q.pc = "create"
  PROVE  LET c == NewConnection(q) IN
         /\ ~NotOwner(c) => StoresSecret(q) /\ c.secret = Cred(q.name) /\ ~c.managed
         /\ StoresSecret(q) => Owner(c, q.name, Cred(q.name))
<1> DEFINE c == NewConnection(q)
<1>1. c \in Connection /\ q.name \in Names
  BY NewConnectionType DEF RequestOK
<1>2. ~c.managed /\ (c.owned <=> StoresSecret(q))
  BY DEF NewConnection
<1>3. StoresSecret(q) => c.secret = Cred(q.name)
  BY DEF NewConnection, StoresSecret
<1> HIDE DEF c
<1>4. StoresSecret(q) => Owner(c, q.name, Cred(q.name))
  BY <1>1, <1>2, <1>3, AnnotatedOwner
<1> QED BY <1>2, <1>3, <1>4 DEF c, NotOwner

LEMMA CreateOne ==
  ASSUME Inv, OneInv, OneAtATime, NEW r \in Requests, CreateConnection(r) \/ CreateConnectionFails(r)
  PROVE  OneInv'
<1> DEFINE q == requests[r]
           n == q.name
           c == NewConnection(q)
<1>0. /\ q \in Request /\ RequestOK(q) /\ HeldBy(q, connections[n], secrets) /\ n \in Names
      /\ q.pc = "create" /\ q.op = "create" /\ UNCHANGED secrets
  BY InHand DEF CreateConnection, CreateConnectionFails, At, SameSecrets, RequestOK
<1>1. /\ Stored(q) <=> StoresSecret(q)
      /\ \A s : AnswersFor(q, s) <=> Cred(n) = s /\ StoresSecret(q)
  BY <1>0 DEF Stored, AnswersFor, Dropping
<1>2. CASE CreateConnection(r) /\ connections[n] = Absent
  <2>1. /\ connections' = [connections EXCEPT ![n] = c] /\ UNCHANGED debris
        /\ requests' = [requests EXCEPT ![r] = IdleRequest]
    BY <1>2 DEF CreateConnection, PutConnection, Done
  <2>2. /\ ~NotOwner(c) => StoresSecret(q) /\ c.secret = Cred(n) /\ ~c.managed
        /\ StoresSecret(q) => Owner(c, n, Cred(n))
    BY <1>0, NewConnectionOwns
  <2>3. StoresSecret(q) => Ours(secrets[Cred(n)])
    BY <1>0, <1>1 DEF HeldBy
  <2>4. ~Owner(connections[n], n, Cred(n))
    BY <1>2 DEF Owner
  <2>5. \A d, S : HeldBy(IdleRequest, d, S)
    BY IdleHeld
  <2> HIDE DEF c
  <2>6. ~NotOwner(c) => c.secret = Cred(n) /\ ~c.managed /\ Ours(secrets[Cred(n)])
    BY <2>2, <2>3
  <2>7. \A s \in SecretNames : AnswersFor(q, s) => Owner(c, n, s)
    BY <1>1, <2>2
  <2>8. HeldBy(IdleRequest, connections'[IdleRequest.name], secrets)
    BY <2>5
  <2> QED BY <1>0, <2>1, <2>4, <2>6, <2>7, <2>8, ConnectionOne
<1>3. CASE CreateConnection(r) /\ connections[n] # Absent
  <2>1. /\ Done(r) /\ UNCHANGED connections
        /\ debris' = IF Stored(q) THEN debris \cup {Cred(n)} ELSE debris
    BY <1>3 DEF CreateConnection, SameConnections
  <2>2. \A s \in SecretNames : AnswersFor(q, s) => s \in debris'
    BY <1>1, <2>1
  <2> QED BY <1>0, <2>1, <2>2, QuietDone
<1>4. CASE CreateConnectionFails(r)
  <2>1. UNCHANGED <<connections, debris>>
    BY <1>4 DEF CreateConnectionFails, SameConnections, OneAtATime
  <2>2. CASE ~Stored(q)
    <3>1. Done(r)
      BY <1>4, <2>2 DEF CreateConnectionFails
    <3> QED BY <1>0, <1>1, <2>1, <2>2, <3>1, QuietDone
  <2>3. CASE Stored(q)
    <3> DEFINE p == [q EXCEPT !.pc = "rollback"]
    <3>1. requests' = [requests EXCEPT ![r] = p] /\ SameAsk(q, p) /\ p.pc = "rollback"
      BY <1>0, <1>4, <2>3, GotoAsk DEF CreateConnectionFails, Goto
    <3> HIDE DEF p
    <3>2. p.op = q.op /\ p.name = n /\ ~Stored(p)
      BY <3>1 DEF SameAsk, Stored
    <3>3. Doomed(p) = Cred(n)
      BY <3>1, <3>2 DEF Doomed
    <3>4. NotOwner(connections[n])
      BY <1>0 DEF HeldBy
    <3>5. HeldBy(p, connections[p.name], secrets)
      BY <1>0, <3>1, <3>2, <3>3, <3>4 DEF HeldBy, Storing, Dropping
    <3>6. \A s : AnswersFor(q, s) => AnswersFor(p, s)
      BY <1>1, <3>1, <3>2 DEF AnswersFor, Dropping
    <3> QED BY <1>0, <2>1, <3>1, <3>5, <3>6, QuietOne
  <2> QED BY <2>2, <2>3
<1> QED BY <1>2, <1>3, <1>4

(* A request whose call fails writes off what it has stored. *)
LEMMA FailedOne ==
  ASSUME Inv, OneInv, OneAtATime, NEW r \in Requests, UpdateFailed(r),
         requests[r].pc \notin Dropping, UNCHANGED <<connections, secrets>>
  PROVE  OneInv'
<1>1. Done(r) /\ debris' = IF Stored(requests[r]) THEN debris \cup {Cred(requests[r].name)} ELSE debris
  BY DEF UpdateFailed
<1>2. \A s \in SecretNames : AnswersFor(requests[r], s) => s \in debris'
  BY <1>1 DEF AnswersFor
<1> QED BY <1>1, <1>2, QuietDone

(* Update, up to its write. *)
LEMMA ResourceVersionOne ==
  ASSUME Inv, OneInv, OneAtATime, NEW r \in Requests, GetResourceVersion(r)
  PROVE  OneInv'
<1> DEFINE q == requests[r]
           p == [q EXCEPT !.pc = "put"]
<1>0. /\ q \in Request /\ RequestOK(q) /\ HeldBy(q, connections[q.name], secrets) /\ q.pc = "rvGet"
      /\ UNCHANGED <<connections, secrets>>
  BY InHand DEF GetResourceVersion, At, SameSecrets
<1>1. CASE UpdateFailed(r)
  BY <1>0, <1>1, FailedOne DEF Dropping
<1>2. CASE Goto(r, "put") /\ UNCHANGED debris
  <2>1. requests' = [requests EXCEPT ![r] = p] /\ SameAsk(q, p) /\ p.pc = "put" /\ p.seen = q.seen
    BY <1>0, <1>2, GotoAsk DEF Goto
  <2> HIDE DEF p
  <2>2. p.op = q.op /\ p.name = q.name /\ p.existing = q.existing /\ p.fields = q.fields
    BY <2>1 DEF SameAsk
  <2>3. Stored(p) <=> Stored(q)
    BY <1>0, <2>1, SameAskStores DEF Stored
  <2>4. HeldBy(p, connections[p.name], secrets)
    BY <1>0, <2>1, <2>2, <2>3 DEF HeldBy, Storing, Dropping
  <2>5. \A s : AnswersFor(q, s) => AnswersFor(p, s)
    BY <1>0, <2>2, <2>3 DEF AnswersFor, Dropping
  <2> QED BY <1>0, <1>2, <2>1, <2>4, <2>5, QuietOne
<1> QED BY <1>1, <1>2 DEF GetResourceVersion

(* The Secret of a connection that owns one is the one named after it. *)
LEMMA OwnedSecret ==
  ASSUME OneInv, NEW n \in Names, connections[n] # Absent, CredentialsSecretOf(connections[n], n).owned
  PROVE  CredentialsSecretOf(connections[n], n).name = Cred(n)
<1> DEFINE c == connections[n]
<1>1. CASE c.secret = Absent
  BY <1>1 DEF CredentialsSecretOf
<1>2. CASE c.secret # Absent
  <2>1. c.owned
    BY <1>2 DEF CredentialsSecretOf, CredentialsOwned
  <2>2. c.secret = Cred(n)
    BY <2>1 DEF OneInv, OwnersNamed, NotOwner
  <2> QED BY <1>2, <2>2 DEF CredentialsSecretOf
<1> QED BY <1>1, <1>2

(* What an update stores. *)
LEMMA EditedConnectionFields ==
  ASSUME NEW q \in Request, RequestOK(q), q.pc = "put"
  PROVE  LET c == EditedConnection(q) IN
         /\ ~c.managed
         /\ StoresSecret(q) => c.secret = Cred(q.name) /\ c.owned
         /\ q.existing # Absent => ~c.owned
         /\ ~StoresSecret(q) /\ q.existing = Absent =>
              c.secret = q.seen.secret /\ c.owned = q.seen.owned /\ c.ref = q.seen.ref
<1>1. q.seen \in Connection /\ ~q.seen.managed
  BY DEF RequestOK
<1>2. CASE StoresSecret(q)
  <2>1. EditedConnection(q) = [q.seen EXCEPT !.contract = q.contract, !.ref = Cred(q.name),
                                 !.secret = Cred(q.name), !.owned = StoresSecret(q)]
    BY <1>2 DEF EditedConnection
  <2> QED BY <1>1, <1>2, <2>1 DEF Connection, StoresSecret
<1>3. CASE q.existing # Absent
  <2>1. ~StoresSecret(q)
    BY <1>3 DEF StoresSecret
  <2>2. EditedConnection(q) = [q.seen EXCEPT !.contract = q.contract, !.ref = q.existing,
                                 !.secret = q.existing, !.owned = StoresSecret(q)]
    BY <1>3, <2>1 DEF EditedConnection
  <2> QED BY <1>1, <1>3, <2>1, <2>2 DEF Connection
<1>4. CASE ~StoresSecret(q) /\ q.existing = Absent
  <2>1. EditedConnection(q) = [q.seen EXCEPT !.contract = q.contract]
    BY <1>4 DEF EditedConnection
  <2> QED BY <1>1, <1>4, <2>1 DEF Connection
<1> QED BY <1>2, <1>3, <1>4

(* Update: it binds the credentials it has stored, keeps the ones there     *)
(* are, or moves off them and turns to dropping them.                       *)
LEMMA UpdateOne ==
  ASSUME Inv, OneInv, OneAtATime, NEW r \in Requests, UpdateConnection(r)
  PROVE  OneInv'
<1> DEFINE q == requests[r]
           n == q.name
           c == EditedConnection(q)
           t == Cred(n)
<1>0. /\ q \in Request /\ RequestOK(q) /\ HeldBy(q, connections[n], secrets) /\ n \in Names
      /\ q.pc = "put" /\ q.op = "update" /\ UNCHANGED secrets
  BY InHand DEF UpdateConnection, At, SameSecrets, RequestOK
<1>1. CASE r \notin connRV
  BY <1>0, <1>1, FailedOne DEF UpdateConnection, SameConnections, Dropping
<1>2. CASE r \in connRV
  <2>1. /\ connections' = [connections EXCEPT ![n] = c]
        /\ debris' = IF Stored(q) THEN debris \ {t} ELSE debris
    BY <1>2 DEF UpdateConnection, PutConnection
  <2>2. connections[n] = q.seen /\ q.seen \in Connection /\ q.seen # Absent /\ ~q.seen.managed
    BY <1>0, AbsentAssumption DEF HeldBy, RequestOK
  <2>3. /\ c \in Connection /\ c # Absent /\ ~c.managed
        /\ StoresSecret(q) => c.secret = t /\ c.owned
        /\ q.existing # Absent => ~c.owned
        /\ ~StoresSecret(q) /\ q.existing = Absent => c.secret = q.seen.secret /\ c.owned = q.seen.owned
    BY <1>0, EditedConnectionFields, EditedConnectionType, AbsentAssumption
  <2>4. Stored(q) <=> StoresSecret(q)
    BY <1>0 DEF Stored
  <2>5. t \in SecretNames /\ t # Absent
    BY <1>0, CredType, AbsentAssumption
  <2>6. \A s : AnswersFor(q, s) <=> t = s /\ StoresSecret(q)
    BY <1>0, <2>4 DEF AnswersFor, Dropping
  <2> HIDE DEF c
  <2>7. StoresSecret(q) => Owner(c, n, t)
    BY <1>0, <2>3, AnnotatedOwner
  <2>8. ~NotOwner(c) => c.secret = t /\ ~c.managed /\ Ours(secrets[t])
    <3>1. CASE StoresSecret(q)
      BY <1>0, <2>3, <2>4, <3>1 DEF HeldBy
    <3>2. CASE ~StoresSecret(q) /\ ~NotOwner(c)
      <4>1. q.existing = Absent /\ c.owned /\ c.secret = q.seen.secret /\ q.seen.owned
        BY <2>3, <3>2 DEF NotOwner
      <4>2. q.seen.secret = t
        BY <1>0, <2>2, <4>1 DEF OneInv, OwnersNamed, NotOwner
      <4>3. Ours(secrets[t])
        BY <1>0, <2>2, <2>5, <4>1, <4>2 DEF OneInv, CredentialsBound, Ours
      <4> QED BY <2>3, <4>1, <4>2, <4>3
    <3> QED BY <3>1, <3>2
  <2>9. \A s \in SecretNames : s \in debris => s \in debris' \/ Owner(c, n, s)
    BY <2>1, <2>4, <2>7
  <2>10. \A s \in SecretNames : AnswersFor(q, s) => Owner(c, n, s)
    BY <2>6, <2>7
  <2>11. ASSUME Ours(secrets[t]), Owner(connections[n], n, t), ~Owner(c, n, t)
         PROVE  OrphanedSecret(q) = t
    <3>1. CredentialsSecretOf(q.seen, n).name = t /\ CredentialsSecretOf(q.seen, n).owned
      BY <2>2, <2>11 DEF Owner
    <3>2. ~StoresSecret(q)
      BY <2>7, <2>11
    <3>3. q.existing # Absent
      <4>1. ASSUME q.existing = Absent PROVE FALSE
        <5>1. c.secret = q.seen.secret /\ c.owned = q.seen.owned
          BY <2>3, <3>2, <4>1
        <5>2. CredentialsSecretOf(c, n) = CredentialsSecretOf(q.seen, n)
          BY <5>1 DEF CredentialsSecretOf, CredentialsOwned
        <5> QED BY <2>2, <2>3, <2>11, <5>2 DEF Owner
      <4> QED BY <4>1
    <3>4. q.existing # t
      BY <1>0, <2>11, <3>3 DEF HeldBy
    <3> QED BY <3>1, <3>3, <3>4 DEF OrphanedSecret
  <2>12. ASSUME OrphanedSecret(q) # Absent
         PROVE  OrphanedSecret(q) = t /\ NotOwner(c)
    <3>1. /\ q.existing # Absent /\ CredentialsSecretOf(q.seen, n).owned
          /\ OrphanedSecret(q) = CredentialsSecretOf(q.seen, n).name
      BY <2>12 DEF OrphanedSecret
    <3>2. CredentialsSecretOf(q.seen, n).name = t
      BY <1>0, <2>2, <3>1, OwnedSecret
    <3> QED BY <2>3, <3>1, <3>2 DEF NotOwner
  <2>13. connections'[n] = c
    BY <1>0, <2>1 DEF Inv, TypeOK
  <2>14. CASE OrphanedSecret(q) = Absent
    <3>1. requests' = [requests EXCEPT ![r] = IdleRequest]
      BY <1>2, <2>14 DEF UpdateConnection, Done
    <3>2. ~(Ours(secrets[t]) /\ Owner(connections[n], n, t) /\ ~Owner(c, n, t))
      BY <2>5, <2>11, <2>14
    <3>3. HeldBy(IdleRequest, connections'[IdleRequest.name], secrets)
      BY IdleHeld
    <3>4. Ours(secrets[Cred(n)]) /\ Owner(connections[n], n, Cred(n)) => Owner(c, n, Cred(n))
      BY <3>2
    <3>5. n \in Names /\ UNCHANGED secrets /\ connections' = [connections EXCEPT ![n] = c]
      BY <1>0, <2>1
    <3>6. ~NotOwner(c) => c.secret = Cred(n) /\ ~c.managed /\ Ours(secrets[Cred(n)])
      BY <2>8
    <3>7. \A s \in SecretNames : s \in debris \/ AnswersFor(requests[r], s)
                                => s \in debris' \/ Owner(c, n, s)
      BY <2>9, <2>10
    <3> HIDE DEF n, q
    <3> QED BY <3>1, <3>3, <3>4, <3>5, <3>6, <3>7, ConnectionOne, Zenon
  <2>15. CASE OrphanedSecret(q) # Absent
    <3> DEFINE p == [q EXCEPT !.pc = "dropOrphan"]
    <3>1. /\ requests' = [requests EXCEPT ![r] = p] /\ SameAsk(q, p) /\ p.pc = "dropOrphan"
          /\ p.seen = q.seen
      BY <1>0, <1>2, <2>15, GotoAsk DEF UpdateConnection, Goto
    <3> HIDE DEF p
    <3>2. p.op = q.op /\ p.name = n /\ p.existing = q.existing /\ ~Stored(p)
      BY <3>1 DEF SameAsk, Stored
    <3>3. Doomed(p) = t
      <4>1. OrphanedSecret(p) = OrphanedSecret(q)
        BY <3>1, <3>2 DEF OrphanedSecret
      <4> QED BY <2>12, <2>15, <3>1, <4>1 DEF Doomed
    <3>4. HeldBy(p, connections'[p.name], secrets)
      BY <2>12, <2>13, <2>15, <3>1, <3>2, <3>3 DEF HeldBy, Storing, Dropping
    <3>5. AnswersFor(p, t)
      BY <3>1, <3>2 DEF AnswersFor, Dropping
    <3>6. AnswersFor(p, Cred(n))
      BY <3>5
    <3> HIDE DEF n
    <3> QED BY <1>0, <2>1, <2>8, <2>9, <2>10, <3>1, <3>4, <3>6, ConnectionOne
  <2> QED BY <2>14, <2>15
<1> QED BY <1>1, <1>2

(* Delete: the Connection is gone, and its Secret is next. *)
LEMMA DeleteOne ==
  ASSUME Inv, OneInv, OneAtATime, NEW r \in Requests, DeleteConnection(r)
  PROVE  OneInv'
<1> DEFINE q == requests[r]
           n == q.name
           t == Cred(n)
<1>0. /\ q \in Request /\ RequestOK(q) /\ HeldBy(q, connections[n], secrets) /\ n \in Names
      /\ q.pc = "delete" /\ q.op = "delete" /\ UNCHANGED <<secrets, debris>>
  BY InHand DEF DeleteConnection, At, SameSecrets, RequestOK
<1>1. connections[n] = q.seen /\ connections[n] # Absent
  BY <1>0, AbsentAssumption DEF HeldBy, RequestOK
<1>2. connections' = [connections EXCEPT ![n] = Absent] /\ connections'[n] = Absent
  BY <1>0, <1>1 DEF DeleteConnection, PutConnection, Inv, TypeOK
<1>3. \A s : ~AnswersFor(q, s)
  BY <1>0 DEF AnswersFor, Stored, Dropping
<1>4. NotOwner(Absent)
  BY DEF NotOwner
<1>5. CASE ~CredentialsSecretOf(q.seen, n).owned
  <2>1. requests' = [requests EXCEPT ![r] = IdleRequest]
    BY <1>1, <1>5 DEF DeleteConnection, Done
  <2>2. ~Owner(connections[n], n, t)
    BY <1>1, <1>5 DEF Owner
  <2>3. HeldBy(IdleRequest, connections'[IdleRequest.name], secrets)
    BY IdleHeld
  <2> QED BY <1>0, <1>2, <1>3, <1>4, <2>1, <2>2, <2>3, ConnectionOne
<1>6. CASE CredentialsSecretOf(q.seen, n).owned
  <2> DEFINE p == [q EXCEPT !.pc = "dropSecret"]
  <2>1. /\ requests' = [requests EXCEPT ![r] = p] /\ SameAsk(q, p) /\ p.pc = "dropSecret"
        /\ p.seen = q.seen
    BY <1>0, <1>1, <1>6, GotoAsk DEF DeleteConnection, Goto
  <2> HIDE DEF p
  <2>2. p.op = q.op /\ p.name = n /\ ~Stored(p)
    BY <2>1 DEF SameAsk, Stored
  <2>3. Doomed(p) = t
    <3>1. CredentialsSecretOf(q.seen, n).name = t
      BY <1>0, <1>1, <1>6, OwnedSecret
    <3> QED BY <2>1, <2>2, <3>1 DEF Doomed
  <2>4. HeldBy(p, connections'[p.name], secrets)
    BY <1>2, <1>4, <2>1, <2>2, <2>3 DEF HeldBy, Storing, Dropping
  <2>5. AnswersFor(p, t)
    BY <2>1, <2>2 DEF AnswersFor, Dropping
  <2> QED BY <1>0, <1>2, <1>3, <1>4, <2>1, <2>4, <2>5, ConnectionOne
<1> QED BY <1>5, <1>6

(* The best-effort deletions. *)
LEMMA DropOne ==
  ASSUME Inv, OneInv, OneAtATime, NEW r \in Requests, DropSecret(r) \/ DropSecretFails(r)
  PROVE  OneInv'
<1> DEFINE q == requests[r]
           n == q.name
<1>0. /\ q \in Request /\ RequestOK(q) /\ HeldBy(q, connections[n], secrets)
      /\ q.pc \in Dropping /\ UNCHANGED connections /\ Done(r)
  BY InHand DEF DropSecret, DropSecretFails, SameConnections, Dropping
<1>1. Doomed(q) = Cred(n) /\ NotOwner(connections[n])
  BY <1>0 DEF HeldBy
<1>2. n \in Names /\ \A s : AnswersFor(q, s) => s = Cred(n)
  BY <1>0 DEF RequestOK, Dropping, AnswersFor
<1>3. CASE DropSecret(r)
  <2>1. secrets' = [secrets EXCEPT ![Cred(n)] = Absent] /\ debris' = debris \ {Cred(n)}
    BY <1>1, <1>3 DEF DropSecret, DeleteSecret, PutSecret
  <2>2. ~Ours(Absent)
    BY DEF Ours
  <2>3. HeldBy(IdleRequest, connections[IdleRequest.name], secrets')
    BY IdleHeld
  <2> QED BY <1>0, <1>1, <1>2, <2>1, <2>2, <2>3, SecretOne DEF Done
<1>4. CASE DropSecretFails(r)
  <2>1. UNCHANGED secrets /\ debris' = debris \cup {Cred(n)}
    BY <1>1, <1>4 DEF DropSecretFails, SameSecrets
  <2> QED BY <1>0, <1>2, <2>1, QuietDone
<1> QED BY <1>3, <1>4

(* Every step of the server. *)
LEMMA ServerOne ==
  ASSUME Inv, OneInv, OneAtATime, NEW r \in Requests, ServerStep(r)
  PROVE  OneInv'
<1>1. CASE CallFails(r)
  BY <1>1, FailedOne DEF CallFails, Dropping
<1> QED BY <1>1, SubmitOne, CheckExistingOne, GetOne, GetSecretOne, StoreSecretOne, CreateOne,
           ResourceVersionOne, UpdateOne, DeleteOne, DropOne DEF ServerStep

(* The release controller publishes no owner, and takes none away. *)
LEMMA ControllerOne ==
  ASSUME Inv, OneInv, NEW n \in Names, Publish(n) \/ Withdraw(n)
  PROVE  OneInv'
<1>1. PICK c : connections' = [connections EXCEPT ![n] = c] /\ NotOwner(c)
  BY DEF Publish, Withdraw, PutConnection, NotOwner
<1>2. UNCHANGED <<secrets, requests, debris>> /\ (connections[n] = Absent \/ connections[n].managed)
  BY DEF Publish, Withdraw, SameSecrets
<1>3. connections'[n] = c /\ \A m \in Names : m # n => connections'[m] = connections[m]
  BY <1>1 DEF Inv, TypeOK
<1>4. OwnersNamed'
  <2>1. ASSUME NEW m \in Names, ~NotOwner(connections'[m])
        PROVE  connections'[m] = connections[m]
    BY <1>1, <1>3, <2>1
  <2> QED BY <2>1 DEF OneInv, OwnersNamed, NotOwner
<1>5. CredentialsBound'
  <2>1. ASSUME NEW m \in Names, connections'[m] # Absent, connections'[m].owned
        PROVE  connections'[m] = connections[m]
    BY <1>1, <1>3, <2>1 DEF NotOwner
  <2> QED BY <1>2, <2>1 DEF OneInv, CredentialsBound
<1>6. SecretsAccounted'
  <2>1. \A s : ~Owner(connections[n], n, s)
    BY <1>2 DEF Owner
  <2>2. \A s : \A m \in Names : Owner(connections[m], m, s) => Owner(connections'[m], m, s)
    BY <1>3, <2>1
  <2> QED BY <1>2, <2>2 DEF OneInv, SecretsAccounted
<1>7. Held'
  <2>1. ASSUME NEW r \in Requests
        PROVE  HeldBy(requests[r], connections'[requests[r].name], secrets)
    <3> DEFINE q == requests[r]
    <3>1. q \in Request /\ RequestOK(q) /\ HeldBy(q, connections[q.name], secrets)
      BY InHand
    <3>2. CASE q.name # n
      <4>1. CASE q.pc = "idle"
        BY <3>1, <4>1 DEF HeldBy, Storing, Dropping, Stored
      <4>2. CASE q.pc # "idle"
        BY <1>3, <3>1, <3>2, <4>2 DEF RequestOK
      <4> QED BY <4>1, <4>2
    <3>3. CASE q.name = n
      <4>1. ~(q.op # "create" /\ q.pc \in Storing \cup {"rvGet", "put", "delete"})
        <5>1. ASSUME q.op # "create", q.pc \in Storing \cup {"rvGet", "put", "delete"} PROVE FALSE
          <6>1. connections[n] = q.seen
            BY <3>1, <3>3, <5>1 DEF HeldBy
          <6>2. q.seen \in Connection /\ ~q.seen.managed
            BY <3>1, <5>1 DEF RequestOK, Storing
          <6> QED BY <1>2, <6>1, <6>2, AbsentAssumption
        <5> QED BY <5>1
      <4> QED BY <1>1, <1>3, <3>1, <3>3, <4>1 DEF HeldBy
    <3> QED BY <3>2, <3>3
  <2> QED BY <1>2, <2>1 DEF Held
<1> QED BY <1>4, <1>5, <1>6, <1>7 DEF OneInv

(* Whoever projects Secrets leaves ours alone. *)
LEMMA ProjectOne ==
  ASSUME Inv, OneInv, NEW t \in SecretNames, Project(t)
  PROVE  OneInv'
<1>1. PICK x : secrets' = [secrets EXCEPT ![t] = x] /\ ~Ours(x)
  BY DEF Project, PutSecret, Ours
<1>2. UNCHANGED <<connections, requests, debris>> /\ ~Ours(secrets[t])
  BY DEF Project, SameConnections, Ours
<1>3. /\ \A s \in SecretNames : Ours(secrets'[s]) => secrets'[s] = secrets[s]
      /\ \A s \in SecretNames : Ours(secrets[s]) => secrets'[s] = secrets[s]
  BY <1>1, <1>2 DEF Inv, TypeOK
<1>4. OwnersNamed'
  BY <1>2 DEF OneInv, OwnersNamed
<1>5. CredentialsBound'
  <2>1. ASSUME NEW m \in Names, connections[m] # Absent, connections[m].secret # Absent,
               connections[m].owned
        PROVE  Ours(secrets'[connections[m].secret])
    <3>1. Ours(secrets[connections[m].secret])
      BY <2>1 DEF OneInv, CredentialsBound, Ours
    <3>2. connections[m].secret \in SecretNames
      BY <2>1, CredType DEF OneInv, OwnersNamed, NotOwner
    <3> QED BY <1>3, <3>1, <3>2
  <2> QED BY <1>2, <2>1 DEF CredentialsBound, Ours
<1>6. SecretsAccounted'
  <2>1. \A s \in SecretNames : Ours(secrets'[s]) => Ours(secrets[s])
    BY <1>3
  <2> QED BY <1>2, <2>1 DEF OneInv, SecretsAccounted
<1>7. Held'
  <2>1. ASSUME NEW r \in Requests
        PROVE  HeldBy(requests[r], connections[requests[r].name], secrets')
    <3> DEFINE q == requests[r]
    <3>1. q \in Request /\ RequestOK(q) /\ HeldBy(q, connections[q.name], secrets)
      BY InHand
    <3>2. Stored(q) => Ours(secrets'[Cred(q.name)]) /\ q.fields \subseteq secrets'[Cred(q.name)].keys
      <4>1. Stored(q) => q.name \in Names
        BY <3>1 DEF Stored, RequestOK
      <4> QED BY <1>3, <3>1, <4>1, CredType DEF HeldBy
    <3>3. q.existing # Absent /\ q.pc \in {"get", "create", "rvGet", "put"} => ~Ours(secrets'[q.existing])
      <4>1. q.existing # Absent => q.existing \in SecretNames
        BY <3>1 DEF Request
      <4> QED BY <1>3, <3>1, <4>1 DEF HeldBy
    <3> QED BY <3>1, <3>2, <3>3 DEF HeldBy
  <2> QED BY <1>2, <2>1 DEF Held
<1> QED BY <1>4, <1>5, <1>6, <1>7 DEF OneInv

LEMMA InitOne == ASSUME Init PROVE OneInv
<1>1. \A n \in Names : connections[n] = Absent
  BY DEF Init
<1>2. \A s \in SecretNames : ~Ours(secrets[s])
  BY DEF Init, Ours
<1>3. Held
  BY IdleHeld DEF Init, Held
<1> QED BY <1>1, <1>2, <1>3 DEF OneInv, OwnersNamed, NotOwner, CredentialsBound, SecretsAccounted

LEMMA AlwaysOne == ASSUME OneAtATime PROVE Spec => [](Inv /\ OneInv)
<1>1. Init => Inv /\ OneInv
  BY InitInv, InitOne
<1>2. ASSUME Inv, OneInv, [Next]_vars PROVE OneInv'
  <2>1. CASE Next
    BY <1>2, <2>1, ServerOne, ControllerOne, ProjectOne DEF Next
  <2>2. CASE UNCHANGED vars
    BY <1>2, <2>2 DEF vars, OneInv, OwnersNamed, NotOwner, CredentialsBound, SecretsAccounted, Held
  <2> QED BY <1>2, <2>1, <2>2
<1>3. Inv /\ OneInv /\ [Next]_vars => Inv' /\ OneInv'
  BY <1>2, NextInv
<1> QED BY <1>1, <1>3, PTL DEF Spec

-----------------------------------------------------------------------------
(* Theorems *)

(* Objects and requests of the connection service stay well formed. *)
THEOREM TypeCorrect == Spec => []TypeOK
  BY AlwaysInv, PTL DEF Inv

(* A request of CreateOrUpdateSecret whose resource version is current has  *)
(* read the current keys of a Secret of ours.                               *)
THEOREM SnapshotCurrentHolds == Spec => []SnapshotCurrent
  BY AlwaysInv, PTL DEF Inv

(* Create and Update keep secretRef and the annotation equal.               *)
THEOREM RefAgreesHolds == Spec => []RefAgrees
  BY AlwaysInv, PTL DEF Inv

(* The one step that changes a Secret, seen from a given Secret. *)
LEMMA SecretStep ==
  ASSUME Inv, Next, NEW s \in SecretNames, secrets[s] # Absent
  PROVE  \/ secrets'[s] \in {secrets[s], Absent}
         \/ /\ secrets[s].managed /\ secrets'[s].managed
            /\ secrets[s].keys \subseteq secrets'[s].keys
<1> USE DEF Inv
<1>1. ASSUME NEW t \in SecretNames, PutSecret(t, Absent) PROVE secrets'[s] \in {secrets[s], Absent}
  BY <1>1 DEF PutSecret, TypeOK
<1>2. ASSUME NEW t \in SecretNames, NEW x, PutSecret(t, x), secrets[t] = Absent
      PROVE  secrets'[s] \in {secrets[s], Absent}
  BY <1>2 DEF PutSecret, TypeOK
<1>3. ASSUME NEW r \in Requests, ServerStep(r)
      PROVE  \/ secrets'[s] \in {secrets[s], Absent}
             \/ /\ secrets[s].managed /\ secrets'[s].managed
                /\ secrets[s].keys \subseteq secrets'[s].keys
  <2> DEFINE q == requests[r]
             t == Cred(q.name)
  <2>0. q \in Request /\ RequestOK(q)
    BY DEF TypeOK, RequestsOK
  <2>1. CASE UNCHANGED secrets
    BY <2>1
  <2>2. CASE CreateSecret(r)
    <3>1. t \in SecretNames
      BY <2>0, <2>2, CredType DEF CreateSecret, At, RequestOK
    <3> QED BY <1>2, <2>2, <3>1 DEF CreateSecret, SameSecrets
  <2>3. CASE UpdateSecret(r)
    <3>1. t \in SecretNames
      BY <2>0, <2>3, CredType DEF UpdateSecret, At, RequestOK
    <3>2. CASE r \notin secretRV
      BY <2>3, <3>2 DEF UpdateSecret, SameSecrets
    <3>3. CASE r \in secretRV
      <4>1. PutSecret(t, [managed |-> TRUE, keys |-> q.keys \cup q.fields])
        BY <2>3, <3>3 DEF UpdateSecret
      <4>2. secrets[t].managed /\ secrets[t].keys = q.keys
        BY <3>3 DEF SnapshotCurrent
      <4> HIDE DEF q, t
      <4>3. CASE s = t
        <5>1. secrets'[s] = [managed |-> TRUE, keys |-> q.keys \cup q.fields]
          BY <3>1, <4>1, <4>3 DEF PutSecret, TypeOK
        <5> QED BY <4>2, <4>3, <5>1
      <4>4. CASE s # t
        BY <3>1, <4>1, <4>4 DEF PutSecret, TypeOK
      <4> QED BY <4>3, <4>4
    <3> QED BY <3>2, <3>3
  <2>4. CASE DropSecret(r)
    <3>1. Doomed(q) \in SecretNames /\ PutSecret(Doomed(q), Absent)
      BY <2>0, <2>4, DoomedType DEF DropSecret, DeleteSecret
    <3> QED BY <1>1, <3>1
  <2>5. UNCHANGED secrets \/ CreateSecret(r) \/ UpdateSecret(r) \/ DropSecret(r)
    BY <1>3 DEF ServerStep, SubmitWrite, Submit, SubmitDelete, CheckExistingSecret, GetConnection,
                GetSecret, CreateConnection, CreateConnectionFails, GetResourceVersion,
                UpdateConnection, DeleteConnection, DropSecretFails, CallFails, SameSecrets
  <2> QED BY <2>1, <2>2, <2>3, <2>4, <2>5
<1>4. ASSUME NEW n \in Names, Publish(n) \/ Withdraw(n) PROVE UNCHANGED secrets
  BY <1>4 DEF Publish, Withdraw, SameSecrets
<1>5. ASSUME NEW t \in SecretNames, Project(t) PROVE secrets'[s] \in {secrets[s], Absent}
  BY <1>1, <1>2, <1>5 DEF Project
<1> QED BY <1>3, <1>4, <1>5 DEF Next

(* No interleaving of creates, edits and deletions makes the server write   *)
(* into a Secret that does not carry its label (ErrForeignSecret).          *)
THEOREM ForeignNeverWrittenHolds == Spec => ForeignNeverWritten
<1>1. Inv /\ [Next]_vars =>
        [\A s \in SecretNames :
           secrets[s] # Absent /\ ~secrets[s].managed => secrets'[s] \in {secrets[s], Absent}]_vars
  BY SecretStep
<1> QED BY <1>1, AlwaysInv, PTL DEF Spec, ForeignNeverWritten

(* No interleaving of edits loses a credential key from a Secret of ours    *)
(* that stays in place (CreateOrUpdateSecret merges under the version).     *)
THEOREM MergeKeepsKeysHolds == Spec => MergeKeepsKeys
<1>1. Inv /\ [Next]_vars =>
        [\A s \in SecretNames :
           secrets[s] # Absent /\ secrets[s].managed /\ secrets'[s] # Absent
             => secrets'[s].managed /\ secrets[s].keys \subseteq secrets'[s].keys]_vars
  BY SecretStep
<1> QED BY <1>1, AlwaysInv, PTL DEF Spec, MergeKeepsKeys

(* No interleaving lets an edit rewrite a managed connection (repo.Update   *)
(* keeps the UID of the unmanaged object that the service looked at).       *)
THEOREM ManagedNeverRewrittenHolds == Spec => ManagedNeverRewritten
<1>1. ASSUME Inv, Next, NEW n \in Names, connections[n] # Absent, connections[n].managed
      PROVE  connections'[n] \in {connections[n], Absent}
  <2> USE DEF Inv
  <2>1. ASSUME NEW m \in Names, NEW c, PutConnection(m, c), c = Absent \/ m # n
        PROVE  connections'[n] \in {connections[n], Absent}
    BY <1>1, <2>1 DEF PutConnection, TypeOK
  <2>2. ASSUME NEW r \in Requests, ServerStep(r)
        PROVE  connections'[n] \in {connections[n], Absent}
    <3>0. requests[r] \in Request /\ RequestOK(requests[r])
      BY <1>1 DEF TypeOK, RequestsOK
    <3>1. CASE CreateConnection(r) \/ CreateConnectionFails(r)
      <4>1. requests[r].name \in Names
        BY <3>0, <3>1 DEF CreateConnection, CreateConnectionFails, At, RequestOK
      <4>2. \/ UNCHANGED connections
            \/ /\ connections[requests[r].name] = Absent
               /\ PutConnection(requests[r].name, NewConnection(requests[r]))
        BY <3>1 DEF CreateConnection, CreateConnectionFails, SameConnections
      <4> QED BY <1>1, <2>1, <4>1, <4>2
    <3>2. CASE UpdateConnection(r)
      <4>1. requests[r].name \in Names /\ Editing(requests[r])
        BY <3>0, <3>2 DEF UpdateConnection, At, RequestOK, Editing
      <4>2. CASE r \notin connRV
        BY <3>2, <4>2 DEF UpdateConnection, SameConnections
      <4>3. CASE r \in connRV
        <5>1. ~connections[requests[r].name].managed
          BY <1>1, <4>1, <4>3 DEF ObjectHeld
        <5>2. PutConnection(requests[r].name, EditedConnection(requests[r]))
          BY <3>2, <4>3 DEF UpdateConnection
        <5> QED BY <1>1, <2>1, <4>1, <5>1, <5>2
      <4> QED BY <4>2, <4>3
    <3>3. CASE DeleteConnection(r)
      <4>1. requests[r].name \in Names
        BY <3>0, <3>3 DEF DeleteConnection, At, RequestOK
      <4> QED BY <2>1, <3>3, <4>1 DEF DeleteConnection, SameConnections
    <3>4. UNCHANGED connections \/ CreateConnection(r) \/ CreateConnectionFails(r)
            \/ UpdateConnection(r) \/ DeleteConnection(r)
      BY <2>2 DEF ServerStep, SubmitWrite, Submit, SubmitDelete, CheckExistingSecret, GetConnection,
                  GetSecret, CreateSecret, UpdateSecret, GetResourceVersion, DropSecret,
                  DropSecretFails, CallFails, SameConnections
    <3> QED BY <3>1, <3>2, <3>3, <3>4
  <2>3. ASSUME NEW m \in Names, Publish(m) \/ Withdraw(m)
        PROVE  connections'[n] \in {connections[n], Absent}
    <3>1. PICK c : PutConnection(m, c) /\ (c = Absent \/ connections[m] = Absent)
      BY <2>3 DEF Publish, Withdraw
    <3> QED BY <1>1, <2>1, <3>1
  <2>4. ASSUME NEW s \in SecretNames, Project(s) PROVE UNCHANGED connections
    BY <2>4 DEF Project, SameConnections
  <2> QED BY <1>1, <2>2, <2>3, <2>4 DEF Next
<1>2. Inv /\ [Next]_vars =>
        [\A n \in Names :
           connections[n] # Absent /\ connections[n].managed
             => connections'[n] \in {connections[n], Absent}]_vars
  BY <1>1
<1> QED BY <1>2, AlwaysInv, PTL DEF Spec, ManagedNeverRewritten
-----------------------------------------------------------------------------
(* What holds with one request at a time *)

(* With one request at a time, and creates that fail unapplied, credentials *)
(* are where the connections say, and a Secret of ours that no connection   *)
(* owns is known debris or still in the hands of the request, whichever of  *)
(* the calls of Create, Update and Delete fail.                             *)
THEOREM CredentialsAccountedHolds == ASSUME OneAtATime PROVE Spec => []CredentialsAccounted
<1>1. ASSUME OneInv PROVE NoUnknownOrphan
  <2>1. \A n \in Names, s \in SecretNames : Owner(connections[n], n, s) => Owns(n, s)
    BY DEF Owner, Owns
  <2>2. \A r \in Requests, s \in SecretNames :
          AnswersFor(requests[r], s) => requests[r].pc # "idle" /\ Cred(requests[r].name) = s
    BY DEF AnswersFor, Stored, Dropping
  <2> QED BY <1>1, <2>1, <2>2 DEF OneInv, SecretsAccounted, Ours, NoUnknownOrphan
<1>2. OneInv => CredentialsAccounted
  BY <1>1 DEF OneInv, CredentialsAccounted
<1> QED BY <1>2, AlwaysOne, PTL

(* The consumers of a connection that stays read at least what they read if *)
(* no Secret goes and none loses a key.                                     *)
LEMMA ReadableGrows ==
  ASSUME TypeOK, NEW n \in Names, UNCHANGED connections,
         \A s \in SecretNames : secrets[s] # Absent =>
           secrets'[s] # Absent /\ secrets[s].keys \subseteq secrets'[s].keys
  PROVE  Readable(n) \subseteq Readable(n)'
<1> DEFINE s == connections[n].ref
<1>1. CASE connections[n] = Absent \/ s = Absent
  BY <1>1 DEF Readable
<1>2. CASE connections[n] # Absent /\ s # Absent
  <2>1. s \in SecretNames
    BY <1>2 DEF TypeOK, ConnectionOrAbsent, Connection
  <2>2. CASE secrets[s] = Absent
    BY <1>2, <2>2 DEF Readable
  <2>3. CASE secrets[s] # Absent
    <3>1. Readable(n) = secrets[s].keys /\ Readable(n)' = secrets'[s].keys
      BY <1>2, <2>1, <2>3 DEF Readable
    <3> QED BY <2>1, <2>3, <3>1
  <2> QED BY <2>2, <2>3
<1> QED BY <1>1, <1>2

(* A call of CreateOrUpdateSecret takes no key from any Secret. *)
LEMMA StoreKeeps ==
  ASSUME Inv, NEW r \in Requests, CreateSecret(r) \/ UpdateSecret(r),
         NEW s \in SecretNames, secrets[s] # Absent
  PROVE  secrets'[s] # Absent /\ secrets[s].keys \subseteq secrets'[s].keys
<1> DEFINE q == requests[r]
           t == Cred(q.name)
<1>0. q \in Request /\ q.fields \subseteq Fields /\ q.keys \subseteq Fields /\ t \in SecretNames
  <2>1. q \in Request /\ RequestOK(q)
    BY DEF Inv, TypeOK, RequestsOK
  <2>2. q.name \in Names
    BY <2>1 DEF RequestOK, CreateSecret, UpdateSecret, At
  <2> QED BY <2>1, <2>2, CredType DEF Request
<1>1. CASE UNCHANGED secrets
  BY <1>1
<1>2. CASE \E x \in Secret : secrets' = [secrets EXCEPT ![t] = x] /\ secrets[t] = Absent
  BY <1>0, <1>2 DEF Inv, TypeOK
<1>3. CASE \E x \in Secret : secrets' = [secrets EXCEPT ![t] = x] /\ secrets[t].keys \subseteq x.keys
  BY <1>0, <1>3, AbsentAssumption DEF Inv, TypeOK
<1>4. CASE CreateSecret(r)
  <2> DEFINE x == [managed |-> TRUE, keys |-> q.fields]
  <2>1. x \in Secret
    BY <1>0 DEF Secret
  <2>2. UNCHANGED secrets \/ (secrets' = [secrets EXCEPT ![t] = x] /\ secrets[t] = Absent)
    BY <1>4 DEF CreateSecret, PutSecret, SameSecrets
  <2> HIDE DEF x
  <2> QED BY <1>1, <1>2, <2>1, <2>2
<1>5. CASE UpdateSecret(r)
  <2> DEFINE x == [managed |-> TRUE, keys |-> q.keys \cup q.fields]
  <2>1. x \in Secret /\ q.keys \subseteq x.keys
    BY <1>0 DEF Secret
  <2>2. UNCHANGED secrets \/ (secrets' = [secrets EXCEPT ![t] = x] /\ r \in secretRV)
    BY <1>5 DEF UpdateSecret, PutSecret, SameSecrets
  <2>3. r \in secretRV => secrets[t].keys = q.keys
    BY DEF Inv, SnapshotCurrent
  <2> HIDE DEF x
  <2> QED BY <1>1, <1>3, <2>1, <2>2, <2>3
<1> QED BY <1>4, <1>5

(* The object an update writes over, or a deletion deletes, is the          *)
(* unmanaged one that it has read.                                          *)
LEMMA StillUnmanaged ==
  ASSUME Inv, OneInv, NEW r \in Requests, At(r, "put") \/ At(r, "delete")
  PROVE  LET q == requests[r] IN
         q.name \in Names /\ connections[q.name] = q.seen /\ q.seen \in Connection /\ ~q.seen.managed
  BY InHand DEF At, RequestOK, HeldBy

(* Only the controller changes a managed connection. *)
LEMMA ManagedStep ==
  ASSUME Inv, OneInv, OneAtATime, Next, NEW n \in Names, connections[n] # Absent,
         connections[n].managed, connections'[n] # connections[n]
  PROVE  requests' = requests
<1>1. ASSUME NEW m \in Names, NEW c, connections' = [connections EXCEPT ![m] = c]
      PROVE  m = n
  BY <1>1 DEF Inv, TypeOK
<1>2. ASSUME NEW r \in Requests, ServerStep(r) PROVE FALSE
  <2> DEFINE q == requests[r]
  <2>0. q \in Request /\ RequestOK(q)
    BY InHand
  <2>1. CASE CreateConnection(r) \/ CreateConnectionFails(r)
    <3>1. q.name \in Names
      BY <2>0, <2>1 DEF CreateConnection, CreateConnectionFails, At, RequestOK
    <3>2. UNCHANGED connections
            \/ (connections[q.name] = Absent
                  /\ connections' = [connections EXCEPT ![q.name] = NewConnection(q)])
      BY <2>1 DEF CreateConnection, CreateConnectionFails, PutConnection, SameConnections
    <3> QED BY <1>1, <3>1, <3>2
  <2>2. CASE UpdateConnection(r) \/ DeleteConnection(r)
    <3>1. q.name \in Names /\ ~connections[q.name].managed
      BY <2>2, StillUnmanaged DEF UpdateConnection, DeleteConnection
    <3>2. UNCHANGED connections \/ \E c : connections' = [connections EXCEPT ![q.name] = c]
      BY <2>2 DEF UpdateConnection, DeleteConnection, PutConnection, SameConnections
    <3> QED BY <1>1, <3>1, <3>2
  <2>3. UNCHANGED connections \/ CreateConnection(r) \/ CreateConnectionFails(r)
          \/ UpdateConnection(r) \/ DeleteConnection(r)
    BY <1>2 DEF ServerStep, SubmitWrite, Submit, SubmitDelete, CheckExistingSecret, GetConnection,
                GetSecret, CreateSecret, UpdateSecret, GetResourceVersion, DropSecret,
                DropSecretFails, CallFails, SameConnections
  <2> QED BY <2>1, <2>2, <2>3
<1> QED BY <1>2 DEF Next, Publish, Withdraw, Project

(* An edit of a connection that keeps its contract and names no existing    *)
(* Secret: of a connection that owns its Secret, or with all fields or none. *)
Keeping(q, n) ==
  /\ q.op = "update" /\ q.name = n
  /\ connections[n] # Absent /\ connections[n].contract = q.contract
  /\ q.existing = Absent
  /\ connections[n].owned \/ q.fields \in {{}, SecretFields(q.contract)}

(* The write of the Connection: the Secret stays the same, or the new one   *)
(* has every field.                                                         *)
LEMMA RebindKeeps ==
  ASSUME Inv, OneInv, NEW r \in Requests, NEW n \in Names, Keeping(requests[r], n),
         UpdateConnection(r)
  PROVE  Readable(n) \cap SecretFields(requests[r].contract) \subseteq Readable(n)'
<1> DEFINE q == requests[r]
           c == EditedConnection(q)
<1>0. /\ q \in Request /\ RequestOK(q) /\ HeldBy(q, connections[n], secrets)
      /\ q.pc = "put" /\ q.name = n /\ q.existing = Absent /\ UNCHANGED secrets
  BY InHand DEF Keeping, UpdateConnection, At, SameSecrets
<1>1. connections[n] = q.seen /\ q.seen \in Connection /\ q.seen # Absent
  BY <1>0, StillUnmanaged, AbsentAssumption DEF At
<1>2. CASE UNCHANGED connections
  BY <1>0, <1>2 DEF Readable
<1>3. CASE connections' = [connections EXCEPT ![n] = c]
  <2>1. connections'[n] = c
    BY <1>3 DEF Inv, TypeOK
  <2>2. c \in Connection /\ c # Absent /\ c.ref = c.secret
    BY <1>0, EditedConnectionType, AbsentAssumption
  <2>3. /\ StoresSecret(q) => c.secret = Cred(n)
        /\ ~StoresSecret(q) => c.ref = q.seen.ref
    BY <1>0, EditedConnectionFields
  <2> HIDE DEF c
  <2>4. CASE c.ref = connections[n].ref
    BY <1>0, <1>1, <2>1, <2>2, <2>4 DEF Readable
  <2>5. CASE StoresSecret(q) /\ ~q.seen.owned
    <3>1. q.fields = SecretFields(q.contract)
      BY <1>1, <2>5 DEF Keeping, StoresSecret
    <3>2. secrets[Cred(n)] # Absent /\ q.fields \subseteq secrets[Cred(n)].keys
      BY <1>0, <2>5 DEF HeldBy, Stored, Ours
    <3>3. c.ref = Cred(n) /\ Cred(n) # Absent
      BY <2>2, <2>3, <2>5, CredType, AbsentAssumption
    <3>4. Readable(n)' = secrets[Cred(n)].keys
      BY <1>0, <2>1, <2>2, <3>2, <3>3 DEF Readable
    <3> QED BY <3>1, <3>2, <3>4
  <2>6. CASE StoresSecret(q) /\ q.seen.owned
    <3>1. q.seen.secret = Cred(n)
      BY <1>1, <2>6 DEF OneInv, OwnersNamed, NotOwner
    <3>2. q.seen.ref = q.seen.secret
      BY <1>0, <1>1 DEF Inv, RefAgrees
    <3> QED BY <1>1, <2>2, <2>3, <2>4, <2>6, <3>1, <3>2
  <2> QED BY <1>1, <2>3, <2>4, <2>5, <2>6
<1> QED BY <1>0, <1>2, <1>3 DEF UpdateConnection, PutConnection, SameConnections

(* Every step of such an edit. *)
LEMMA KeepingStep ==
  ASSUME Inv, OneInv, OneAtATime, Next, NEW r \in Requests, NEW n \in Names,
         Keeping(requests[r], n), requests'[r] # requests[r]
  PROVE  Readable(n) \cap SecretFields(requests[r].contract) \subseteq Readable(n)'
<1> DEFINE q == requests[r]
<1>0. q \in Request /\ RequestOK(q) /\ q.op = "update" /\ q.existing = Absent
  BY InHand DEF Keeping
<1>1. ServerStep(r)
  BY DEF Next, Publish, Withdraw, Project, OneAtATime
<1>2. CASE UNCHANGED <<connections, secrets>>
  BY <1>2 DEF Readable
<1>3. CASE CreateSecret(r) \/ UpdateSecret(r)
  <2>1. UNCHANGED connections
    BY <1>3 DEF CreateSecret, UpdateSecret, SameConnections
  <2>2. \A s \in SecretNames : secrets[s] # Absent =>
          secrets'[s] # Absent /\ secrets[s].keys \subseteq secrets'[s].keys
    BY <1>3, StoreKeeps
  <2>3. Readable(n) \subseteq Readable(n)'
    BY <2>1, <2>2, ReadableGrows DEF Inv
  <2> QED BY <2>3
<1>4. CASE UpdateConnection(r)
  BY <1>4, RebindKeeps
<1>5. ~(CreateConnection(r) \/ CreateConnectionFails(r) \/ DeleteConnection(r))
  BY <1>0 DEF CreateConnection, CreateConnectionFails, DeleteConnection, At, RequestOK
<1>6. ~DropSecret(r)
  BY <1>0 DEF DropSecret, RequestOK, OrphanedSecret
<1>7. UNCHANGED <<connections, secrets>> \/ CreateSecret(r) \/ UpdateSecret(r) \/ UpdateConnection(r)
  BY <1>1, <1>5, <1>6 DEF ServerStep, SubmitWrite, Submit, SubmitDelete, CheckExistingSecret,
       GetConnection, GetSecret, GetResourceVersion, DropSecretFails, CallFails,
       SameConnections, SameSecrets
<1> QED BY <1>2, <1>3, <1>4, <1>7

(* With one request at a time, no create, edit or deletion changes a        *)
(* connection that a release manages, and no edit takes from the consumers  *)
(* of a connection a credential it did not send.                            *)
THEOREM EditsTakeNothingHolds == ASSUME OneAtATime PROVE Spec => EditsTakeNothing
<1>1. Inv /\ OneInv /\ [Next]_vars =>
        [\A n \in Names :
           connections[n] # Absent /\ connections[n].managed /\ connections'[n] # connections[n]
             => requests' = requests]_vars
  BY ManagedStep
<1>2. Inv /\ OneInv /\ [Next]_vars =>
        [\A r \in Requests, n \in Names :
           LET q == requests[r] IN
           /\ q.op = "update" /\ q.name = n /\ requests'[r] # q
           /\ connections[n] # Absent /\ connections[n].contract = q.contract
           /\ q.existing = Absent
           /\ connections[n].owned \/ q.fields \in {{}, SecretFields(q.contract)}
           => Readable(n) \cap SecretFields(q.contract) \subseteq Readable(n)']_vars
  BY KeepingStep DEF Keeping
<1> QED BY <1>1, <1>2, AlwaysOne, PTL DEF Spec, EditsTakeNothing, ManagedNeverEdited, EditKeepsCredentials
=============================================================================
