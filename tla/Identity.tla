------------------------------ MODULE Identity ------------------------------
(***************************************************************************)
(* Users and their groups: IdentityHandler and defaultIdentityService over *)
(* k8sIdentityRepository.  A membership is a GroupBinding object named     *)
(* <user>-<group> with the two names in its spec.  Writing a user and then *)
(* its bindings takes one call per object; the calls of an update's group  *)
(* sync and of a delete's clean-up may fail unnoticed.                     *)
(*                                                                         *)
(* The name of a user, a group or a binding is the sequence of its dash-   *)
(* separated segments, so that <user>-<group> is concatenation, and two    *)
(* pairs may share a name.  Names are lower case.  Every request runs once *)
(* and keeps its answer.  fresh holds the requests that have read their    *)
(* user and that nobody has overtaken since.                               *)
(***************************************************************************)
EXTENDS Naturals, Sequences

CONSTANTS
  Requests,  \* requests to the user handlers
  Users,     \* logins
  Groups,    \* names of groups
  Hashes,    \* password hashes
  Names,     \* display names
  Asks,      \* the requests that may come
  Absent     \* no object, no password

VARIABLES
  users,      \* the User objects
  bindings,   \* the GroupBinding objects
  requests,   \* what each request asks for, and how far it is
  fresh,      \* requests that hold the current version of their user
  contended   \* history: users that two requests worked on at once

vars == <<users, bindings, requests, fresh, contended>>

-----------------------------------------------------------------------------
(* Objects *)

(* spec.passwordHash (Absent: none) and spec.name, the display name; an     *)
(* update may have stored the login there.                                  *)
User == [hash : Hashes \cup {Absent}, name : Names \cup Users]
Binding == [user : Users, group : Groups]

BindingName(u, g) == u \o g
BindingNames == {BindingName(u, g) : u \in Users, g \in Groups}

GroupsOf(u) ==
  {g \in Groups : \E b \in BindingNames : bindings[b] # Absent /\ bindings[b] = [user |-> u, group |-> g]}

(* An edit is the console's way to change something else: it reads the user *)
(* and sends back the groups it was shown.                                  *)
Ask == [op : {"create", "update", "edit", "delete"}, user : Users,
        hash : Hashes \cup {Absent}, name : Names, groups : SUBSET Groups]

ASSUME IdentityAssumption ==
  /\ Users \cup Groups \subseteq Seq(STRING)
  /\ Asks \subseteq Ask
  /\ Absent \notin Hashes \cup User \cup Binding \cup Ask \cup BindingNames

Locations == {"new", "read", "show", "get", "rvGet", "put", "create", "list", "bind", "find", "unbind",
              "delete", "done"}

(* hash: the one to store; groups: those the user shall have; add, remove:  *)
(* the bindings still to be made and dropped; target: the binding found.    *)
(* History: ignored, an error was passed over.                              *)
Request ==
  [pc : Locations, ask : Ask \cup {Absent}, hash : Hashes \cup {Absent}, groups : SUBSET Groups,
   add : SUBSET Groups, remove : SUBSET Groups, target : BindingNames \cup {Absent},
   code : {"2xx", "404", "500", Absent}, ignored : BOOLEAN]

NewRequest ==
  [pc |-> "new", ask |-> Absent, hash |-> Absent, groups |-> {}, add |-> {}, remove |-> {},
   target |-> Absent, code |-> Absent, ignored |-> FALSE]

TypeOK ==
  /\ users \in [Users -> User \cup {Absent}]
  /\ bindings \in [BindingNames -> Binding \cup {Absent}]
  /\ requests \in [Requests -> Request]
  /\ fresh \subseteq Requests
  /\ contended \subseteq Users

(* Users with any memberships; a binding has its own name and its user. *)
Init ==
  /\ users \in [Users -> [hash : Hashes, name : Names] \cup {Absent}]
  /\ bindings \in [BindingNames -> Binding \cup {Absent}]
  /\ \A b \in BindingNames : bindings[b] # Absent =>
       BindingName(bindings[b].user, bindings[b].group) = b /\ users[bindings[b].user] # Absent
  /\ requests = [r \in Requests |-> NewRequest]
  /\ fresh = {}
  /\ contended = {}

-----------------------------------------------------------------------------
(* Steps of a request *)

At(r, pc) == requests[r].pc = pc
Login(r) == requests[r].ask.user
Op(r) == requests[r].ask.op
Active == {r \in Requests : ~At(r, "new") /\ ~At(r, "done")}
Goto(r, pc) == requests' = [requests EXCEPT ![r].pc = pc]

(* Only GetUser tells NotFound from other errors; the handlers that write    *)
(* answer 500 to every error, NotFound and AlreadyExists too.                *)
Answered(q, code) ==
  [q EXCEPT !.pc = "done", !.hash = Absent, !.groups = {}, !.add = {}, !.remove = {}, !.code = code]
Answer(r, code) == requests' = [requests EXCEPT ![r] = Answered(@, code)]

PutUser(u, user) ==
  /\ users' = [users EXCEPT ![u] = user]
  /\ fresh' = {r \in fresh : Login(r) # u}

SameUsers == UNCHANGED <<users, fresh>>
SameBindings == UNCHANGED bindings

Submit(r) ==
  /\ At(r, "new")
  /\ \E ask \in Asks :
       /\ requests' = [requests EXCEPT ![r] =
            [@ EXCEPT !.ask = ask, !.groups = ask.groups,
                      !.pc = CASE ask.op = "create" -> "create" [] ask.op = "update" -> "get"
                               [] ask.op = "edit" -> "read" [] ask.op = "delete" -> "list"]]
       /\ contended' = contended \cup {u \in {ask.user} : \E q \in Active : Login(q) = u}
  /\ SameUsers /\ SameBindings

(* GetUser of the service: the user, *)
ReadUser(r) ==
  /\ At(r, "read")
  /\ \/ users[Login(r)] = Absent /\ Answer(r, "404")
     \/ users[Login(r)] # Absent /\ Goto(r, "show")
  /\ UNCHANGED contended /\ SameUsers /\ SameBindings

(* Mutant: it answers without the bindings. *)
ReadGroups_None(r) ==
  /\ At(r, "show") /\ Goto(r, "get")
  /\ UNCHANGED contended /\ SameUsers /\ SameBindings

(* and its bindings; when they cannot be listed the answer has no groups. *)
ReadGroups(r) ==
  /\ At(r, "show")
  /\ \/ requests' = [requests EXCEPT ![r].pc = "get", ![r].groups = GroupsOf(Login(r))]
     \/ requests' = [requests EXCEPT ![r].pc = "get", ![r].groups = {}, ![r].ignored = TRUE]
  /\ UNCHANGED contended /\ SameUsers /\ SameBindings

(* CreateUser *)
CreateUser(r) ==
  /\ At(r, "create")
  /\ \/ users[Login(r)] # Absent /\ Answer(r, "500") /\ SameUsers
     \/ /\ users[Login(r)] = Absent
        /\ PutUser(Login(r), [hash |-> requests[r].ask.hash, name |-> requests[r].ask.name])
        /\ requests' = [requests EXCEPT ![r] =
             IF @.groups = {} THEN Answered(@, "2xx") ELSE [@ EXCEPT !.pc = "bind", !.add = requests[r].groups]]
  /\ UNCHANGED contended /\ SameBindings

(* Mutant: the hash of the password that was sent, or of none. *)
HashFor_Sent(r) == requests[r].ask.hash

(* UpdateUser: the service reads the user for its hash, the repository      *)
(* reads it again for its version.                                          *)
HashFor(r) ==
  IF requests[r].ask.hash # Absent THEN requests[r].ask.hash ELSE users[Login(r)].hash

GetUser(r) ==
  /\ At(r, "get")
  /\ \/ users[Login(r)] = Absent /\ Answer(r, "500")
     \/ /\ users[Login(r)] # Absent
        /\ requests' = [requests EXCEPT ![r].pc = "rvGet", ![r].hash = HashFor(r)]
  /\ UNCHANGED contended /\ SameUsers /\ SameBindings

GetResourceVersion(r) ==
  /\ At(r, "rvGet")
  /\ \/ users[Login(r)] = Absent /\ Answer(r, "500") /\ UNCHANGED fresh
     \/ users[Login(r)] # Absent /\ Goto(r, "put") /\ fresh' = fresh \cup {r}
  /\ UNCHANGED <<users, contended>> /\ SameBindings

(* Mutant: the display name gets lost. *)
UpdateUser_NoName(r) ==
  /\ At(r, "put")
  /\ \/ /\ r \in fresh
        /\ PutUser(Login(r), [hash |-> requests[r].hash, name |-> Absent])
        /\ Goto(r, "list")
     \/ r \notin fresh /\ Answer(r, "500") /\ SameUsers
  /\ UNCHANGED contended /\ SameBindings

(* The handler has replaced the display name by the login. *)
UpdateUser(r) ==
  /\ At(r, "put")
  /\ \/ /\ r \in fresh
        /\ PutUser(Login(r), [hash |-> requests[r].hash, name |-> Login(r)])
        /\ Goto(r, "list")
     \/ r \notin fresh /\ Answer(r, "500") /\ SameUsers
  /\ UNCHANGED contended /\ SameBindings

(* ListGroupBindings: what to add and to remove, or, in a delete, all. *)
Wanted(q) == IF q.ask.op = "delete" THEN {} ELSE q.groups

(* Mutants: the old groups stay, and a delete forgets the bindings. *)
Settled_AddOnly(q) ==
  IF q.add # {} THEN [q EXCEPT !.pc = "bind"]
  ELSE IF q.remove # {} /\ q.ask.op = "delete" THEN [q EXCEPT !.pc = "find"]
  ELSE IF q.ask.op = "delete" THEN [q EXCEPT !.pc = "delete"]
  ELSE Answered(q, "2xx")

Settled_UserOnly(q) ==
  IF q.add # {} THEN [q EXCEPT !.pc = "bind"]
  ELSE IF q.ask.op = "delete" THEN [q EXCEPT !.pc = "delete", !.remove = {}]
  ELSE IF q.remove # {} THEN [q EXCEPT !.pc = "find"]
  ELSE Answered(q, "2xx")

(* What comes when the bindings are settled. *)
Settled(q) ==
  IF q.add # {} THEN [q EXCEPT !.pc = "bind"]
  ELSE IF q.remove # {} THEN [q EXCEPT !.pc = "find"]
  ELSE IF q.ask.op = "delete" THEN [q EXCEPT !.pc = "delete"]
  ELSE Answered(q, "2xx")

ListBindings(r) ==
  /\ At(r, "list")
  /\ LET now == GroupsOf(Login(r))
     IN  requests' = [requests EXCEPT ![r] =
           Settled([@ EXCEPT !.add = Wanted(requests[r]) \ now, !.remove = now \ Wanted(requests[r])])]
  /\ UNCHANGED contended /\ SameUsers /\ SameBindings

(* CreateGroupBinding; that the name is taken, or the call fails, ends a    *)
(* create and is passed over by an update.                                  *)
BindFails(r, g) ==
  requests' = [requests EXCEPT ![r] =
    IF Op(r) = "create" THEN Answered(@, "500")
    ELSE Settled([@ EXCEPT !.add = requests[r].add \ {g}, !.ignored = TRUE])]

Bind(r) ==
  /\ At(r, "bind")
  /\ \E g \in requests[r].add :
       LET b == BindingName(Login(r), g)
       IN  \/ /\ bindings[b] = Absent
              /\ bindings' = [bindings EXCEPT ![b] = [user |-> Login(r), group |-> g]]
              /\ requests' = [requests EXCEPT ![r] = Settled([@ EXCEPT !.add = requests[r].add \ {g}])]
           \/ bindings[b] # Absent /\ BindFails(r, g) /\ SameBindings
  /\ UNCHANGED contended /\ SameUsers

(* Mutant: the first binding of the group is taken. *)
FindBinding_AnyUser(r) ==
  /\ At(r, "find")
  /\ \E g \in requests[r].remove :
       LET found == {b \in BindingNames : bindings[b] # Absent /\ bindings[b].group = g}
       IN  \/ \E b \in found :
                requests' = [requests EXCEPT ![r].pc = "unbind", ![r].target = b, ![r].remove = @ \ {g}]
           \/ /\ found = {}
              /\ requests' = [requests EXCEPT ![r] =
                   Settled([@ EXCEPT !.remove = requests[r].remove \ {g}, !.ignored = TRUE])]
  /\ UNCHANGED contended /\ SameUsers /\ SameBindings

(* DeleteGroupBindingByRef: list, look for the pair, delete by name. *)
FindBinding(r) ==
  /\ At(r, "find")
  /\ \E g \in requests[r].remove :
       LET found == {b \in BindingNames : bindings[b] = [user |-> Login(r), group |-> g]}
       IN  \/ \E b \in found :
                requests' = [requests EXCEPT ![r].pc = "unbind", ![r].target = b, ![r].remove = @ \ {g}]
           \/ /\ found = {}
              /\ requests' = [requests EXCEPT ![r] =
                   Settled([@ EXCEPT !.remove = requests[r].remove \ {g}, !.ignored = TRUE])]
  /\ UNCHANGED contended /\ SameUsers /\ SameBindings

DeleteBinding(r) ==
  /\ At(r, "unbind")
  /\ bindings' = [bindings EXCEPT ![requests[r].target] = Absent]
  /\ requests' = [requests EXCEPT ![r] = Settled([@ EXCEPT !.target = Absent])]
  /\ UNCHANGED contended /\ SameUsers

DeleteUser(r) ==
  /\ At(r, "delete")
  /\ \/ users[Login(r)] # Absent /\ PutUser(Login(r), Absent) /\ Answer(r, "2xx")
     \/ users[Login(r)] = Absent /\ Answer(r, "500") /\ SameUsers
  /\ UNCHANGED contended /\ SameBindings

(* A call fails.  Those on bindings are passed over, except the List of an  *)
(* update and the bindings of a create.                                     *)
CallFails(r) ==
  /\ \/ requests[r].pc \in {"read", "create", "get", "rvGet", "put", "delete"} /\ Answer(r, "500")
     \/ At(r, "list") /\ Op(r) # "delete" /\ Answer(r, "500")
     \/ At(r, "list") /\ Op(r) = "delete" /\ requests' = [requests EXCEPT ![r].pc = "delete", ![r].ignored = TRUE]
     \/ At(r, "bind") /\ \E g \in requests[r].add : BindFails(r, g)
     \/ /\ At(r, "find")
        /\ \E g \in requests[r].remove :
             requests' = [requests EXCEPT ![r] =
               Settled([@ EXCEPT !.remove = requests[r].remove \ {g}, !.ignored = TRUE])]
     \/ /\ At(r, "unbind")
        /\ requests' = [requests EXCEPT ![r] = Settled([@ EXCEPT !.target = Absent, !.ignored = TRUE])]
  /\ UNCHANGED contended /\ SameUsers /\ SameBindings

Step(r) ==
  \/ Submit(r) \/ ReadUser(r) \/ ReadGroups(r)
  \/ CreateUser(r) \/ GetUser(r) \/ GetResourceVersion(r) \/ UpdateUser(r)
  \/ ListBindings(r) \/ Bind(r) \/ FindBinding(r) \/ DeleteBinding(r) \/ DeleteUser(r) \/ CallFails(r)

Next == \E r \in Requests : Step(r)

Spec == Init /\ [][Next]_vars

-----------------------------------------------------------------------------
(* Properties *)

Finishes(r) == ~At(r, "done") /\ requests'[r].pc = "done" /\ requests'[r].code = "2xx"

(* A binding is deleted under a name that may have changed hands.  That      *)
(* takes two requests on one user; under a name of such a user the binding   *)
(* of somebody else may be the victim, if the two pairs share the name.      *)
ContendedNames == {BindingName(u, g) : u \in contended, g \in Groups}
Undisturbed(u) == u \notin contended /\ \A g \in Groups : BindingName(u, g) \notin ContendedNames

(* When an update succeeds the user is in the groups that were sent, and in  *)
(* no other, unless an error was passed over (UpdateUser drops the errors of *)
(* its group sync) or two requests worked on one user at once, this one or   *)
(* one whose bindings share a name with its own.  After a create it is at    *)
(* least in those.                                                           *)
MembershipAsAsked ==
  [][\A r \in Requests : Finishes(r) /\ Undisturbed(Login(r)) /\ ~requests'[r].ignored
       => /\ Op(r) = "update" => GroupsOf(Login(r))' = requests[r].ask.groups
          /\ Op(r) = "create" => requests[r].ask.groups \subseteq GroupsOf(Login(r))']_vars

(* No memberships without their user, which a user created later under the   *)
(* same login would inherit: DeleteUser removes them first, and only an      *)
(* error it passes over or a second request at the same time leaves one.     *)
NoGhostMembership ==
  \A u \in Users \ contended :
    users[u] = Absent /\ GroupsOf(u) # {}
      => \E r \in Requests : requests[r].ask # Absent /\ Login(r) = u /\ requests[r].ignored

(* An update without a password keeps the stored hash, whatever else it      *)
(* changes, as long as no other request works on the user.                   *)
PasswordKept ==
  [][\A r \in Requests :
       /\ At(r, "put") /\ requests'[r].pc = "list" /\ requests[r].ask.hash = Absent
       /\ Login(r) \notin contended
       => users'[Login(r)].hash = users[Login(r)].hash]_vars

(* A request takes memberships from its own user only, even when bindings of *)
(* two users share a name, unless the name is one of a user that two         *)
(* requests worked on at once.                                               *)
NoStolenMembership ==
  [][\A r \in Requests, b \in BindingNames :
       /\ At(r, "unbind") /\ requests'[r] # requests[r]
       /\ bindings[b] # Absent /\ bindings'[b] = Absent
       => bindings[b].user = Login(r) \/ b \in ContendedNames]_vars

(* An edit leaves the memberships of its user as they were shown, unless the *)
(* read behind GetUser failed and showed none, or somebody else worked on    *)
(* the user or under the names of its bindings.                              *)
EditKeepsGroups ==
  [][\A r \in Requests :
       /\ requests[r].ask # Absent /\ Op(r) = "edit" /\ ~requests[r].ignored
       /\ Undisturbed(Login(r)) /\ requests'[r] # requests[r]
       => GroupsOf(Login(r))' = GroupsOf(Login(r))]_vars

(* A request changes of its user what it was sent and nothing else: the      *)
(* groups become those asked for, an edit keeps the ones it was shown, and   *)
(* no password is lost on the way.                                           *)
ChangesAsAsked == MembershipAsAsked /\ EditKeepsGroups /\ PasswordKept
=============================================================================
