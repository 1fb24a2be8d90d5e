---------------------------- MODULE SecretStores ----------------------------
(***************************************************************************)
(* The secret stores of one project: DefaultSecretStoreService over        *)
(* k8sSecretStoreRepository.  A SecretStore authenticates to Vault with a  *)
(* token, kept in the Secret <name>-credentials, or as a ServiceAccount.   *)
(* The connection service keeps its credentials under the same Secret      *)
(* names and marks them with a label; the secret stores look at no label,  *)
(* and neither does the connection service when it deletes.                *)
(* External secrets operator's controller writes the status of the stores  *)
(* at any time.                                                            *)
(*                                                                         *)
(* Every request runs once and keeps its answer.  fresh holds the pairs    *)
(* <<r, n>> such that r has read store n and n has not been written since: *)
(* a write by r under the version it read succeeds iff the pair is there.  *)
(***************************************************************************)
EXTENDS Naturals, FiniteSets

CONSTANTS
  Requests,        \* requests to the secret store handlers
  Stores,          \* names of secret stores
  Shared,          \* names that a connection may have as well
  Accounts,        \* names of ServiceAccounts
  DefaultAccount,  \* the account "default" of the namespace
  Asks,            \* the requests that may come
  Absent           \* no object, a field that was left out

VARIABLES
  stores,     \* the SecretStore objects
  secrets,    \* the Secrets <name>-credentials
  bound,      \* names of which the connection service counts the Secret as its own
  requests,   \* what each request asks for, and how far it is
  fresh,      \* who has read the current version of which store
  contended,  \* history: stores that two requests worked on at once
  raced,      \* history: two requests made a default at once
  taken       \* history: stores whose token the connection service deleted

storeVars == <<stores, secrets, bound, requests, fresh, contended, raced, taken>>

-----------------------------------------------------------------------------
(* Objects *)

Store == [auth : {"token"}, account : {Absent}, isDefault : BOOLEAN]
         \cup [auth : {"kubernetes"}, account : Accounts, isDefault : BOOLEAN]

(* Who wrote the Secret; only the connection service labels it. *)
SecretOrAbsent == {"store", "connection", Absent}

(* What a request asks for.  valid is the verdict of validateRequest, token  *)
(* says whether one was sent, account is Absent when the field is missing,   *)
(* and DefaultAccount when it is empty.                                      *)
Ask ==
  [op : {"create", "update"}, name : Stores, valid : BOOLEAN, auth : {"token"},
   token : BOOLEAN, account : {Absent}, isDefault : BOOLEAN]
  \cup [op : {"create", "update"}, name : Stores, valid : BOOLEAN, auth : {"kubernetes"},
        token : {FALSE}, account : Accounts \cup {Absent}, isDefault : BOOLEAN]
  \cup [op : {"delete"}, name : Stores, valid : {TRUE}, auth : {"token"},
        token : {FALSE}, account : {Absent}, isDefault : {FALSE}]

ASSUME SecretStoresAssumption ==
  /\ DefaultAccount \in Accounts
  /\ Asks \subseteq Ask
  /\ Shared \subseteq Stores
  /\ Absent \notin Accounts \cup Store \cup Ask \cup {"store", "connection"}

Locations == {"new", "get", "check", "secretGet", "secretPut", "listDefaults", "unlabel",
              "create", "rvGet", "put", "dropSecret", "readBack", "delete", "done"}
Codes == {"2xx", "400", "404", "409", "500"}

(* used: the store authenticated with a token when the request read it;      *)
(* account: the one it had then; found: the Secret was there; doomed: the    *)
(* defaults still to be unlabelled; code: the answer.  History: wrote, the   *)
(* request has changed something; labelLeft and secretLeft, a label was not  *)
(* removed, a Secret not deleted, and the failure was only logged.           *)
Request ==
  [pc : Locations, ask : Ask \cup {Absent}, used : BOOLEAN, account : Accounts \cup {Absent},
   found : BOOLEAN, doomed : SUBSET Stores, code : Codes \cup {Absent},
   wrote : BOOLEAN, labelLeft : BOOLEAN, secretLeft : BOOLEAN]

NewRequest ==
  [pc |-> "new", ask |-> Absent, used |-> FALSE, account |-> Absent, found |-> FALSE,
   doomed |-> {}, code |-> Absent, wrote |-> FALSE, labelLeft |-> FALSE, secretLeft |-> FALSE]

StoresTypeOK ==
  /\ stores \in [Stores -> Store \cup {Absent}]
  /\ secrets \in [Stores -> SecretOrAbsent]
  /\ bound \subseteq Shared
  /\ requests \in [Requests -> Request]
  /\ fresh \subseteq Requests \X Stores
  /\ contended \subseteq Stores
  /\ raced \in BOOLEAN
  /\ taken \subseteq Stores

Defaults == {n \in Stores : stores[n] # Absent /\ stores[n].isDefault}
UsesToken(n) == stores[n] # Absent /\ stores[n].auth = "token"

(* Any project that requests served one by one may have left; a token store *)
(* that came after the connection of its name has overwritten the Secret.   *)
StoresInit ==
  /\ stores \in [Stores -> Store \cup {Absent}]
  /\ bound \in SUBSET Shared
  /\ secrets = [n \in Stores |->
       IF UsesToken(n) THEN "store" ELSE IF n \in bound THEN "connection" ELSE Absent]
  /\ \A m, n \in Defaults : m = n
  /\ requests = [r \in Requests |-> NewRequest]
  /\ fresh = {}
  /\ contended = {}
  /\ raced = FALSE
  /\ taken = {}

-----------------------------------------------------------------------------
(* Steps of a request *)

At(r, pc) == requests[r].pc = pc
Name(r) == requests[r].ask.name
Op(r) == requests[r].ask.op
Active == {r \in Requests : ~At(r, "new") /\ ~At(r, "done")}

Goto(r, pc) == requests' = [requests EXCEPT ![r].pc = pc]

(* The answers of the handlers to the errors of the service.  A conflicting *)
(* update, and an AlreadyExists on the way of an update, are 500.           *)
StatusOf(op, err) ==
  CASE err = "none" -> "2xx"
    [] err = "Invalid" -> "400"
    [] err = "NotFound" /\ op # "create" -> "404"
    [] err = "AlreadyExists" /\ op = "create" -> "409"
    [] OTHER -> "500"

Answered(q, err) ==
  [q EXCEPT !.pc = "done", !.used = FALSE, !.account = Absent, !.found = FALSE,
            !.doomed = {}, !.code = StatusOf(q.ask.op, err)]

Answer(r, err) == requests' = [requests EXCEPT ![r] = Answered(@, err)]

(* The API server stores a SecretStore, or removes it. *)
PutStore(n, store) ==
  /\ stores' = [stores EXCEPT ![n] = store]
  /\ fresh' = {p \in fresh : p[2] # n}

SameStores == UNCHANGED <<stores, fresh>>
SameContext == UNCHANGED <<bound, contended, raced, taken>>

(* The first call after the credentials are settled. *)
(* Mutant: an update forgets the other defaults. *)
AfterSecret_NoUnlabel(ask) ==
  IF ask.op = "update" THEN "rvGet" ELSE IF ask.isDefault THEN "listDefaults" ELSE "create"

AfterSecret(ask) ==
  IF ask.isDefault THEN "listDefaults" ELSE IF ask.op = "create" THEN "create" ELSE "rvGet"

(* Submit a request.  A create with a bad body, or for token authentication *)
(* without a token, is refused before anything is read.                     *)
RefusedCreate(ask) == ask.op = "create" /\ (~ask.valid \/ (ask.auth = "token" /\ ~ask.token))

(* Mutant: an update stores the token before it looks for the store. *)
FirstStep_SecretFirst(ask) ==
  IF ask.op = "delete" THEN "get" ELSE IF ask.auth = "token" THEN "secretGet"
  ELSE IF ask.op = "update" THEN "get" ELSE AfterSecret(ask)

FirstStep(ask) ==
  IF ask.op # "create" THEN "get" ELSE IF ask.auth = "token" THEN "secretGet" ELSE AfterSecret(ask)

Submit(r) ==
  /\ At(r, "new")
  /\ \E ask \in Asks :
       /\ LET q == [requests[r] EXCEPT !.ask = ask]
          IN  requests' = [requests EXCEPT ![r] =
                IF RefusedCreate(ask) THEN Answered(q, "Invalid") ELSE [q EXCEPT !.pc = FirstStep(ask)]]
       /\ contended' = contended \cup
            {n \in {ask.name} : \E q \in Active : Name(q) = n}
       /\ raced' = (raced \/ (ask.isDefault /\ \E q \in Active : requests[q].ask.isDefault))
  /\ UNCHANGED <<stores, secrets, bound, fresh, taken>>

(* Get, at the start of an update or a delete. *)
GetStore(r) ==
  /\ At(r, "get")
  /\ \/ stores[Name(r)] = Absent /\ Answer(r, "NotFound")
     \/ /\ stores[Name(r)] # Absent
        /\ requests' = [requests EXCEPT ![r].pc = IF Op(r) = "delete" THEN "dropSecret" ELSE "check",
                                        ![r].used = UsesToken(Name(r)),
                                        ![r].account = stores[Name(r)].account]
  /\ UNCHANGED secrets /\ SameContext /\ SameStores

(* The checks of an update: a missing token means the stored one, which has *)
(* to exist.                                                                *)
(* Mutant: a switch to token authentication needs no token. *)
CheckUpdate_NoToken(r) ==
  /\ At(r, "check")
  /\ LET ask == requests[r].ask
     IN  \/ ~ask.valid /\ Answer(r, "Invalid")
         \/ /\ ask.valid
            /\ Goto(r, IF ask.auth = "token" /\ ask.token THEN "secretGet" ELSE AfterSecret(ask))
  /\ UNCHANGED secrets /\ SameContext /\ SameStores

CheckUpdate(r) ==
  /\ At(r, "check")
  /\ LET ask == requests[r].ask
         missing == ask.auth = "token" /\ ~ask.token /\ ~requests[r].used
     IN  \/ (~ask.valid \/ missing) /\ Answer(r, "Invalid")
         \/ /\ ask.valid /\ ~missing
            /\ Goto(r, IF ask.auth = "token" /\ ask.token THEN "secretGet" ELSE AfterSecret(ask))
  /\ UNCHANGED secrets /\ SameContext /\ SameStores

(* CreateOrUpdateSecret: what is there decides between Create and Update,   *)
(* and whose it is does not matter.  A Secret that came or went in between  *)
(* fails the call.                                                          *)
GetSecret(r) ==
  /\ At(r, "secretGet")
  /\ requests' = [requests EXCEPT ![r].pc = "secretPut", ![r].found = (secrets[Name(r)] # Absent)]
  /\ UNCHANGED secrets /\ SameContext /\ SameStores

PutSecret(r) ==
  /\ At(r, "secretPut")
  /\ LET there == secrets[Name(r)] # Absent
     IN  \/ /\ there = requests[r].found
            /\ secrets' = [secrets EXCEPT ![Name(r)] = "store"]
            /\ requests' = [requests EXCEPT ![r].pc = AfterSecret(requests[r].ask), ![r].wrote = TRUE]
         \/ /\ there # requests[r].found
            /\ Answer(r, IF there THEN "AlreadyExists" ELSE "NotFound")
            /\ UNCHANGED secrets
  /\ SameContext /\ SameStores

(* RemoveDefaultLabel: list the defaults, then write each back without the  *)
(* label, under the version that was listed.                                *)
AfterDefaults(r) == IF Op(r) = "create" THEN "create" ELSE "rvGet"

ListDefaults(r) ==
  /\ At(r, "listDefaults")
  /\ requests' = [requests EXCEPT ![r].doomed = Defaults,
                                  ![r].pc = IF Defaults = {} THEN AfterDefaults(r) ELSE "unlabel"]
  /\ fresh' = fresh \cup ({r} \X Defaults)
  /\ UNCHANGED <<stores, secrets>> /\ SameContext

Unlabelled(r, n, failed) ==
  requests' = [requests EXCEPT ![r].doomed = @ \ {n},
                               ![r].pc = IF requests[r].doomed = {n} THEN AfterDefaults(r) ELSE @,
                               ![r].wrote = @ \/ ~failed,
                               ![r].labelLeft = @ \/ failed]

Unlabel(r) ==
  /\ At(r, "unlabel")
  /\ \E n \in requests[r].doomed :
       \/ /\ <<r, n>> \in fresh
          /\ PutStore(n, [stores[n] EXCEPT !.isDefault = FALSE])
          /\ Unlabelled(r, n, FALSE)
       \/ /\ <<r, n>> \notin fresh      \* Conflict or NotFound, which is logged
          /\ Unlabelled(r, n, n \in Defaults)
          /\ SameStores
  /\ UNCHANGED secrets /\ SameContext

(* buildSecretStoreCRD; an update that leaves the account out keeps the one *)
(* the store had when the request read it.                                  *)
(* Mutant: a missing account is the default one. *)
AccountFor_Default(r) ==
  IF requests[r].ask.account # Absent THEN requests[r].ask.account ELSE DefaultAccount

AccountFor(r) ==
  LET ask == requests[r].ask
  IN  IF ask.account # Absent THEN ask.account
      ELSE IF requests[r].account # Absent THEN requests[r].account ELSE DefaultAccount

(* Mutant: the account stays beside the token. *)
NewStore_TwoAuths(r) ==
  [auth |-> requests[r].ask.auth, account |-> AccountFor(r), isDefault |-> requests[r].ask.isDefault]

NewStore(r) ==
  LET ask == requests[r].ask
  IN  [auth |-> ask.auth, account |-> IF ask.auth = "token" THEN Absent ELSE AccountFor(r),
       isDefault |-> ask.isDefault]

CreateStore(r) ==
  /\ At(r, "create")
  /\ \/ /\ stores[Name(r)] = Absent
        /\ PutStore(Name(r), NewStore(r))
        /\ requests' = [requests EXCEPT ![r].pc = "readBack", ![r].wrote = TRUE]
     \/ /\ stores[Name(r)] # Absent
        /\ Answer(r, "AlreadyExists") /\ SameStores
  /\ UNCHANGED secrets /\ SameContext

(* Update of the repository: the version the service read is replaced by    *)
(* the one of a new Get.                                                    *)
GetResourceVersion(r) ==
  /\ At(r, "rvGet")
  /\ \/ stores[Name(r)] = Absent /\ Answer(r, "NotFound") /\ UNCHANGED fresh
     \/ /\ stores[Name(r)] # Absent
        /\ Goto(r, "put")
        /\ fresh' = fresh \cup {<<r, Name(r)>>}
  /\ UNCHANGED <<stores, secrets>> /\ SameContext

(* Mutants: the token stays, and whatever the name holds goes. *)
DropsToken_Never(q) == FALSE
DropsToken_Always(q) == q.ask.auth # "token"

(* The stored object no longer points at the token it had. *)
DropsToken(q) == q.used /\ q.ask.auth # "token"

UpdateStore(r) ==
  /\ At(r, "put")
  /\ \/ /\ <<r, Name(r)>> \in fresh
        /\ PutStore(Name(r), NewStore(r))
        /\ requests' = [requests EXCEPT ![r].wrote = TRUE,
             ![r].pc = IF DropsToken(requests[r]) THEN "dropSecret" ELSE "readBack"]
     \/ /\ <<r, Name(r)>> \notin fresh
        /\ Answer(r, IF stores[Name(r)] = Absent THEN "NotFound" ELSE "Other")
        /\ SameStores
  /\ UNCHANGED secrets /\ SameContext

(* DeleteSecret by name, in a delete and at the end of an update that leaves *)
(* token authentication; a failure is logged.                                *)
AfterDrop(r) == IF Op(r) = "delete" THEN "delete" ELSE "readBack"

DropSecret(r) ==
  /\ At(r, "dropSecret")
  /\ secrets' = [secrets EXCEPT ![Name(r)] = Absent]
  /\ requests' = [requests EXCEPT ![r].pc = AfterDrop(r), ![r].wrote = @ \/ secrets[Name(r)] # Absent]
  /\ SameContext /\ SameStores

DropSecretFails(r) ==
  /\ At(r, "dropSecret")
  /\ requests' = [requests EXCEPT ![r].pc = AfterDrop(r), ![r].secretLeft = TRUE]
  /\ UNCHANGED secrets /\ SameContext /\ SameStores

(* The answer to a create or an update is what a last Get finds. *)
ReadBack(r) ==
  /\ At(r, "readBack")
  /\ Answer(r, IF stores[Name(r)] = Absent THEN "NotFound" ELSE "none")
  /\ UNCHANGED secrets /\ SameContext /\ SameStores

DeleteStore(r) ==
  /\ At(r, "delete")
  /\ \/ /\ stores[Name(r)] # Absent
        /\ PutStore(Name(r), Absent)
        /\ requests' = [requests EXCEPT ![r] = Answered([@ EXCEPT !.wrote = TRUE], "none")]
     \/ /\ stores[Name(r)] = Absent
        /\ Answer(r, "NotFound") /\ SameStores
  /\ UNCHANGED secrets /\ SameContext

(* The API server is not reached, or refuses; the labels of the defaults    *)
(* are best effort.                                                         *)
CallFails(r) ==
  /\ \/ /\ requests[r].pc \in {"get", "secretGet", "secretPut", "create", "rvGet", "put", "readBack", "delete"}
        /\ Answer(r, "Other")
     \/ /\ At(r, "listDefaults")
        /\ requests' = [requests EXCEPT ![r].pc = AfterDefaults(r), ![r].labelLeft = @ \/ Defaults # {}]
     \/ /\ At(r, "unlabel")
        /\ \E n \in requests[r].doomed : Unlabelled(r, n, TRUE)
  /\ UNCHANGED secrets /\ SameContext /\ SameStores

(* The other writers of the objects: the controller, and the connection     *)
(* service, which has two ways to touch the Secret of a name.               *)
ControllerWrites(n) ==
  /\ stores[n] # Absent
  /\ PutStore(n, stores[n])
  /\ UNCHANGED <<secrets, requests>> /\ SameContext

(* CreateOrUpdateSecret of a connection that is created or edited: it makes  *)
(* the Secret, or merges into one with its label, and refuses any other.     *)
ConnectionWrites(n) ==
  /\ secrets[n] # "store"
  /\ secrets' = [secrets EXCEPT ![n] = "connection"]
  /\ bound' = bound \cup {n}
  /\ UNCHANGED <<requests, contended, raced, taken>> /\ SameStores

(* DeleteSecret of a connection that is deleted or moves to another Secret,  *)
(* and of a create that failed: by name, for having written it once.  After  *)
(* the last, a concurrent create may still count on the Secret.              *)
ConnectionDrops(n) ==
  /\ n \in bound
  /\ secrets' = [secrets EXCEPT ![n] = Absent]
  /\ bound' \in {bound, bound \ {n}}
  /\ taken' = IF secrets[n] = "store" THEN taken \cup {n} ELSE taken
  /\ UNCHANGED <<requests, contended, raced>> /\ SameStores

StoreStep(r) ==
  \/ GetStore(r) \/ CheckUpdate(r) \/ GetSecret(r) \/ PutSecret(r) \/ ListDefaults(r) \/ Unlabel(r)
  \/ CreateStore(r) \/ GetResourceVersion(r) \/ UpdateStore(r) \/ ReadBack(r)
  \/ DropSecret(r) \/ DropSecretFails(r) \/ DeleteStore(r) \/ CallFails(r)

OtherStep ==
  \/ \E n \in Stores : ControllerWrites(n)
  \/ \E n \in Shared : ConnectionWrites(n) \/ ConnectionDrops(n)

StoresNext == (\E r \in Requests : Submit(r) \/ StoreStep(r)) \/ OtherStep

StoresSpec == StoresInit /\ [][StoresNext]_storeVars

-----------------------------------------------------------------------------
(* Properties *)

(* The request has finished without saying that all went well. *)
Troubled(r) == At(r, "done") /\ (requests[r].code # "2xx" \/ requests[r].secretLeft)
On(r, n) == requests[r].ask # Absent /\ Name(r) = n

(* The Secret of n is on its way out with the store, or the store stayed    *)
(* when its Secret was gone.                                                *)
HalfDeleted(n) ==
  \E r \in Requests : /\ On(r, n) /\ Op(r) = "delete" /\ requests[r].wrote
                      /\ At(r, "delete") \/ (At(r, "done") /\ requests[r].code # "2xx")

(* A store that authenticates with a token has the Secret with its token,   *)
(* not none and not a connection's, unless a delete stopped half-way, two   *)
(* requests worked on the store at once, or the connection service deleted  *)
(* the Secret as one of its own.  The comment in UpdateSecretStore: a       *)
(* failed update never destroys a credential the store still uses.          *)
TokenStoreHasToken ==
  \A n \in Stores \ (contended \cup taken) : UsesToken(n) /\ ~HalfDeleted(n) => secrets[n] = "store"

(* No Vault token outlives the use of it: a Secret of a store that is not    *)
(* used comes from a request that failed, or that logged the failed delete.  *)
NoLeftoverToken ==
  \A n \in Stores \ contended :
    secrets[n] = "store" /\ ~UsesToken(n)
      => \E r \in Requests : On(r, n) /\ (r \in Active \/ Troubled(r))

(* At most one store is the default, unless the removal of a label failed    *)
(* and was only logged, or two requests made a default at the same time.     *)
OneDefault ==
  \/ raced
  \/ \E r \in Requests : requests[r].labelLeft
  \/ \A m, n \in Defaults : m = n

(* A request answered with 400, or with 404 when nobody else worked on the   *)
(* store, has changed nothing.  (With 409 it may: a create replaces the      *)
(* token and the default before it finds the name taken.)                    *)
RejectedHarmless ==
  \A r \in Requests :
    At(r, "done") /\ requests[r].wrote
      => /\ requests[r].code # "400"
         /\ requests[r].code = "404" => Name(r) \in contended

(* An update that leaves the ServiceAccount out leaves it as it is.          *)
AccountKept ==
  [][\A n \in Stores \ contended :
       /\ stores[n] # Absent /\ stores[n].auth = "kubernetes"
       /\ \E r \in Requests : At(r, "put") /\ Name(r) = n /\ requests[r].ask.account = Absent
       => stores'[n] # Absent /\ (stores'[n].auth = "kubernetes" => stores'[n].account = stores[n].account)
    ]_storeVars

(* The credentials of a connection of the same name fall only to a request   *)
(* that stores a token under the name, or deletes the store: an update that  *)
(* drops a token never takes them (unless half a delete, or the connection   *)
(* service itself, had taken the token and so given the name away).          *)
ConnectionSecretSpared ==
  [][\A n \in Stores \ (contended \cup taken) :
       secrets[n] = "connection" /\ secrets'[n] # "connection" /\ ~HalfDeleted(n)
         => \/ requests' = requests
            \/ \E r \in Requests : /\ On(r, n) /\ requests'[r] # requests[r]
                                   /\ Op(r) = "delete" \/ requests[r].ask.token
    ]_storeVars

(* The stores of a project can be used: each has the token it names, and at  *)
(* most one is the default.                                                  *)
StoresUsable == TokenStoreHasToken /\ OneDefault

(* What a request that did not go well has changed is bounded: no token      *)
(* outlives its use unknown, and a refusal has changed nothing.              *)
FailuresContained == NoLeftoverToken /\ RejectedHarmless

(* UpdateSecretStore takes away what it was asked to replace: not the        *)
(* ServiceAccount it was not sent, nor the credentials of a connection.      *)
UpdatesTakeNothing == AccountKept /\ ConnectionSecretSpared
=============================================================================
