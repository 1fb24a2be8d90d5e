--------------------------- MODULE Identity_proofs ---------------------------
(***************************************************************************)
(* Proofs about Identity for any number of requests, users and groups,     *)
(* whichever pairs share the name of their binding.                        *)
(***************************************************************************)
EXTENDS Identity, TLAPS

(* The state of Identity as parameters, so that a fact about the next state  *)
(* is one about other values: us for users, bs for bindings, cs for          *)
(* contended, q for a request.                                               *)
Members(bs, u) ==
  {g \in Groups : \E b \in BindingNames : bs[b] # Absent /\ bs[b] = [user |-> u, group |-> g]}
NamesOf(cs) == {BindingName(u, g) : u \in cs, g \in Groups}
Quiet(cs, u) == u \notin cs /\ \A g \in Groups : BindingName(u, g) \notin NamesOf(cs)

(* A binding made, and one deleted. *)
Bound(bs, u, g) == [bs EXCEPT ![BindingName(u, g)] = [user |-> u, group |-> g]]
Unbound(bs, b) == [bs EXCEPT ![b] = Absent]

(* What the place of a request in its handler says of its locals. *)
Place(q) ==
  /\ q.pc = "new" => q = NewRequest
  /\ q.pc # "new" => q.ask \in Ask
  /\ q.pc \in {"read", "show"} => q.ask.op = "edit"
  /\ q.pc \in {"get", "rvGet", "put"} => q.ask.op \in {"update", "edit"}
  /\ q.pc = "create" => q.ask.op = "create"
  /\ q.pc = "list" => q.ask.op # "create"
  /\ q.pc = "bind" => q.ask.op # "delete"
  /\ q.pc \in {"find", "unbind"} => q.ask.op # "create"
  /\ q.pc = "delete" => q.ask.op = "delete"

(* The bindings still to be made are wanted, those to be dropped are not.    *)
Sorted(q) ==
  /\ q.pc # "new" =>
       /\ q.add \subseteq Wanted(q)
       /\ q.remove \cap Wanted(q) = {}
       /\ q.ask.op = "create" => q.remove = {}
       /\ q.pc # "done" /\ q.ask.op \in {"create", "update"} => q.groups = q.ask.groups
  /\ q.pc \in {"read", "show", "get", "rvGet", "put", "create", "list"} => q.add = {} /\ q.remove = {}
  /\ q.pc = "delete" => q.remove = {}
  /\ q.pc = "unbind" <=> q.target # Absent
  /\ q.pc = "unbind" => \E g \in Groups : q.target = BindingName(q.ask.user, g)

(* The binding that is about to be deleted by its name is still the user's,  *)
(* and not one it shall have.                                                *)
TargetHeld(bs, cs, q) ==
  q.pc = "unbind" /\ q.target \notin NamesOf(cs)
    => bs[q.target] # Absent /\ bs[q.target].user = q.ask.user /\ bs[q.target].group \notin Wanted(q)

(* Nobody else writes the user, so it is there and has the hash that was read. *)
UserHeld(us, cs, q) ==
  q.ask.user \notin cs =>
    /\ q.pc \in {"rvGet", "put"} =>
         us[q.ask.user] # Absent /\ (q.ask.hash = Absent => q.hash = us[q.ask.user].hash)
    /\ q.pc \in {"list", "bind", "find", "unbind"} /\ q.ask.op # "delete" => us[q.ask.user] # Absent

(* What the user is in is wanted or will be dropped. *)
Upper(bs, q) ==
  Members(bs, q.ask.user) \subseteq
    Wanted(q) \cup q.remove \cup {g \in Groups : BindingName(q.ask.user, g) = q.target}

(* What is wanted is there or will be made. *)
Lower(bs, q) == q.groups \ q.add \subseteq Members(bs, q.ask.user)

Bounded(bs, cs, q) ==
  q.pc \in {"bind", "find", "unbind", "delete"} /\ q.ask.op # "create" /\ ~q.ignored /\ q.ask.user \notin cs
    => Upper(bs, q)

Covered(bs, cs, q) ==
  q.pc \in {"bind", "find", "unbind"} /\ q.ask.op # "delete" /\ ~q.ignored /\ Quiet(cs, q.ask.user)
    => Lower(bs, q)

(* An edit wants the groups the user is in, so it has nothing to sync. *)
Shown(bs, cs, q) ==
  q.ask.op = "edit" /\ ~q.ignored /\ Quiet(cs, q.ask.user) =>
    /\ q.pc \notin {"bind", "find", "unbind"}
    /\ q.pc \in {"get", "rvGet", "put", "list"} => Members(bs, q.ask.user) = q.groups

Held(us, bs, cs, q) ==
  q.pc # "new" => /\ TargetHeld(bs, cs, q) /\ UserHeld(us, cs, q)
                  /\ Bounded(bs, cs, q) /\ Covered(bs, cs, q) /\ Shown(bs, cs, q)

(* A binding is stored under its own name. *)
Named(bs) == \A b \in BindingNames : bs[b] # Absent => BindingName(bs[b].user, bs[b].group) = b

(* Two requests at once on one user are noticed. *)
NoOverlap == \A r, q \in Active : r # q /\ Login(r) = Login(q) => Login(r) \in contended

(* The inductive invariant. *)
IInv ==
  /\ TypeOK
  /\ Named(bindings)
  /\ NoOverlap
  /\ NoGhostMembership
  /\ \A r \in Requests : /\ Place(requests[r]) /\ Sorted(requests[r])
                         /\ Held(users, bindings, contended, requests[r])

-----------------------------------------------------------------------------
(* A step of a request as what it makes of the request and of the objects. *)

(* The user and the bindings of the others: a step writes its own user, and  *)
(* makes or deletes one binding.                                             *)
OthersSpared(r) ==
  /\ \A v \in Users \ {Login(r)} : users'[v] = users[v]
  /\ \/ bindings' = bindings
     \/ \E g \in Groups :
          /\ At(r, "bind") /\ bindings[BindingName(Login(r), g)] = Absent
          /\ bindings' = Bound(bindings, Login(r), g)
     \/ At(r, "unbind") /\ bindings' = Unbound(bindings, requests[r].target)

(* What a request that ends well leaves. *)
Fulfilled(bs, cs, q) ==
  q.pc = "done" /\ q.code = "2xx" /\ ~q.ignored /\ Quiet(cs, q.ask.user) =>
    /\ q.ask.op = "update" => Members(bs, q.ask.user) = q.ask.groups
    /\ q.ask.op = "create" => q.ask.groups \subseteq Members(bs, q.ask.user)

Ghost(us, bs, u) == us[u] = Absent /\ Members(bs, u) # {}

Good(r, q) ==
  /\ q \in Request /\ requests' = [requests EXCEPT ![r] = q]
  /\ requests[r].pc \notin {"new", "done"} /\ q.pc # "new"
  /\ q.ask = requests[r].ask /\ (requests[r].ignored => q.ignored)
  /\ contended' = contended
  /\ users' \in [Users -> User \cup {Absent}] /\ fresh' \subseteq Requests
  /\ OthersSpared(r)
  /\ At(r, "put") /\ q.pc = "list" => users'[Login(r)].hash = requests[r].hash
  /\ Place(q) /\ Sorted(q) /\ Held(users', bindings', contended, q)
  /\ Fulfilled(bindings', contended, q)
  /\ Ghost(users', bindings', q.ask.user) /\ q.ask.user \notin contended
       => q.ignored \/ Ghost(users, bindings, q.ask.user)

-----------------------------------------------------------------------------
(* Facts about the operators. *)

LEMMA AbsentApart ==
  /\ Absent \notin Binding /\ Absent \notin Ask /\ Absent \notin User
  /\ Absent \notin BindingNames
  BY IdentityAssumption

LEMMA NameIs ==
  ASSUME NEW u \in Users, NEW g \in Groups
  PROVE  BindingName(u, g) \in BindingNames /\ BindingName(u, g) # Absent
  BY AbsentApart DEF BindingNames

LEMMA MemberIs ==
  ASSUME NEW bs \in [BindingNames -> Binding \cup {Absent}], Named(bs),
         NEW u \in Users, NEW g \in Groups
  PROVE  g \in Members(bs, u) <=> bs[BindingName(u, g)] = [user |-> u, group |-> g]
<1>1. [user |-> u, group |-> g] \in Binding
  BY DEF Binding
<1>2. ASSUME NEW b \in BindingNames, bs[b] = [user |-> u, group |-> g], bs[b] # Absent
      PROVE  b = BindingName(u, g)
  BY <1>2 DEF Named
<1> QED BY <1>1, <1>2, NameIs, AbsentApart DEF Members

(* A binding more, under a free name. *)
LEMMA MemberBoundAt ==
  ASSUME NEW bs \in [BindingNames -> Binding \cup {Absent}], Named(bs),
         NEW nbs \in [BindingNames -> Binding \cup {Absent}], Named(nbs),
         NEW u \in Users, NEW g \in Groups, NEW w \in Users, NEW h \in Groups,
         bs[BindingName(u, g)] = Absent, nbs[BindingName(u, g)] = [user |-> u, group |-> g],
         \A b \in BindingNames : b # BindingName(u, g) => nbs[b] = bs[b]
  PROVE  h \in Members(nbs, w) <=> h \in Members(bs, w) \/ (w = u /\ h = g)
<1>1. BindingName(w, h) \in BindingNames /\ [user |-> w, group |-> h] \in Binding
  BY NameIs DEF Binding
<1>2. [user |-> w, group |-> h] = [user |-> u, group |-> g] <=> w = u /\ h = g
  OBVIOUS
<1>3. h \in Members(bs, w) <=> bs[BindingName(w, h)] = [user |-> w, group |-> h]
  BY MemberIs
<1>4. h \in Members(nbs, w) <=> nbs[BindingName(w, h)] = [user |-> w, group |-> h]
  BY MemberIs
<1>5. CASE BindingName(w, h) = BindingName(u, g)
  BY <1>1, <1>2, <1>3, <1>4, <1>5, AbsentApart
<1>6. CASE BindingName(w, h) # BindingName(u, g)
  <2>1. nbs[BindingName(w, h)] = bs[BindingName(w, h)] /\ ~(w = u /\ h = g)
    BY <1>1, <1>6
  <2> QED BY <1>3, <1>4, <2>1
<1> QED BY <1>5, <1>6

LEMMA MemberBound ==
  ASSUME NEW bs \in [BindingNames -> Binding \cup {Absent}], Named(bs),
         NEW u \in Users, NEW g \in Groups, NEW v \in Users,
         bs[BindingName(u, g)] = Absent
  PROVE  LET nbs == Bound(bs, u, g)
         IN  /\ nbs \in [BindingNames -> Binding \cup {Absent}] /\ Named(nbs)
             /\ v # u => Members(nbs, v) = Members(bs, v)
             /\ Members(nbs, u) = Members(bs, u) \cup {g}
<1> DEFINE nbs == Bound(bs, u, g)
<1>1. [user |-> u, group |-> g] \in Binding /\ BindingName(u, g) \in BindingNames
  BY NameIs DEF Binding
<1>2. /\ nbs \in [BindingNames -> Binding \cup {Absent}]
      /\ nbs[BindingName(u, g)] = [user |-> u, group |-> g]
      /\ \A b \in BindingNames : b # BindingName(u, g) => nbs[b] = bs[b]
  BY <1>1 DEF Bound
<1> HIDE DEF nbs
<1>3. Named(nbs)
  BY <1>1, <1>2 DEF Named
<1>4. ASSUME NEW w \in Users, NEW h \in Groups
      PROVE  h \in Members(nbs, w) <=> h \in Members(bs, w) \/ (w = u /\ h = g)
  BY <1>2, <1>3, MemberBoundAt
<1>5. ASSUME NEW w \in Users PROVE Members(nbs, w) \subseteq Groups /\ Members(bs, w) \subseteq Groups
  BY DEF Members
<1>6. /\ v # u => Members(nbs, v) = Members(bs, v)
      /\ Members(nbs, u) = Members(bs, u) \cup {g}
  BY <1>4, <1>5
<1> QED BY <1>2, <1>3, <1>6 DEF nbs

(* A binding less. *)
LEMMA MemberUnbound ==
  ASSUME NEW bs \in [BindingNames -> Binding \cup {Absent}], Named(bs),
         NEW b \in BindingNames, NEW v \in Users
  PROVE  LET nbs == Unbound(bs, b)
         IN  /\ nbs \in [BindingNames -> Binding \cup {Absent}] /\ Named(nbs)
             /\ Members(nbs, v) = {h \in Members(bs, v) : BindingName(v, h) # b}
<1> DEFINE nbs == Unbound(bs, b)
<1>1. nbs \in [BindingNames -> Binding \cup {Absent}] /\ Named(nbs)
  BY DEF Named, Unbound
<1>2. ASSUME NEW h \in Groups
      PROVE  h \in Members(nbs, v) <=> h \in Members(bs, v) /\ BindingName(v, h) # b
  <2>1. BindingName(v, h) \in BindingNames
    BY NameIs
  <2>2. [user |-> v, group |-> h] \in Binding
    BY DEF Binding
  <2>3. nbs[BindingName(v, h)] = IF BindingName(v, h) = b THEN Absent ELSE bs[BindingName(v, h)]
    BY <2>1 DEF Unbound
  <2>4. h \in Members(bs, v) <=> bs[BindingName(v, h)] = [user |-> v, group |-> h]
    BY MemberIs
  <2>5. h \in Members(nbs, v) <=> nbs[BindingName(v, h)] = [user |-> v, group |-> h]
    BY <1>1, MemberIs
  <2> QED BY <2>2, <2>3, <2>4, <2>5, AbsentApart
<1>3. Members(nbs, v) \subseteq Groups /\ Members(bs, v) \subseteq Groups
  BY DEF Members
<1> QED BY <1>1, <1>2, <1>3

(* The answer to a request. *)
LEMMA AnsweredIs ==
  ASSUME NEW q \in Request, NEW code \in {"2xx", "404", "500"}
  PROVE  LET p == Answered(q, code)
         IN  /\ p \in Request /\ p.pc = "done" /\ p.code = code /\ p.ask = q.ask
             /\ p.add = {} /\ p.remove = {} /\ p.target = q.target /\ p.ignored = q.ignored
  BY DEF Answered, Request, Locations

(* A request whose bindings are sorted out, before it is told where to go. *)
Pending(q) ==
  /\ q \in Request /\ q.ask \in Ask /\ q.target = Absent
  /\ q.add \subseteq Wanted(q) /\ q.remove \cap Wanted(q) = {}
  /\ q.ask.op = "create" => q.remove = {}
  /\ q.ask.op \in {"create", "update"} => q.groups = q.ask.groups

LEMMA SettledIs ==
  ASSUME NEW q, Pending(q)
  PROVE  LET p == Settled(q)
         IN  /\ p \in Request /\ p.ask = q.ask /\ p.ignored = q.ignored /\ p.target = Absent
             /\ Place(p) /\ Sorted(p)
             /\ \/ /\ p.pc = "done" /\ p.code = "2xx" /\ q.add = {} /\ q.remove = {}
                   /\ q.ask.op # "delete"
                \/ /\ p.pc \in {"bind", "find", "delete"}
                   /\ p.groups = q.groups /\ p.add = q.add /\ p.remove = q.remove
                   /\ p.pc = "delete" => q.ask.op = "delete"
<1> USE DEF Pending
<1>1. CASE q.add # {}
  <2> DEFINE p == [q EXCEPT !.pc = "bind"]
  <2>1. Settled(q) = p
    BY <1>1 DEF Settled
  <2>2. /\ p \in Request /\ p.pc = "bind" /\ p.ask = q.ask /\ p.ignored = q.ignored
        /\ p.target = Absent /\ p.groups = q.groups /\ p.add = q.add /\ p.remove = q.remove
    BY DEF Request, Locations
  <2>3. Wanted(p) = Wanted(q) /\ q.ask.op # "delete"
    BY <1>1, <2>2 DEF Wanted
  <2> HIDE DEF p
  <2>4. Place(p) /\ Sorted(p)
    BY <2>2, <2>3 DEF Place, Sorted
  <2> QED BY <2>1, <2>2, <2>4
<1>2. CASE q.add = {} /\ q.remove # {}
  <2> DEFINE p == [q EXCEPT !.pc = "find"]
  <2>1. Settled(q) = p
    BY <1>2 DEF Settled
  <2>2. /\ p \in Request /\ p.pc = "find" /\ p.ask = q.ask /\ p.ignored = q.ignored
        /\ p.target = Absent /\ p.groups = q.groups /\ p.add = q.add /\ p.remove = q.remove
    BY DEF Request, Locations
  <2>3. Wanted(p) = Wanted(q) /\ q.ask.op # "create"
    BY <1>2, <2>2 DEF Wanted
  <2> HIDE DEF p
  <2>4. Place(p) /\ Sorted(p)
    BY <2>2, <2>3 DEF Place, Sorted
  <2> QED BY <2>1, <2>2, <2>4
<1>3. CASE q.add = {} /\ q.remove = {} /\ q.ask.op = "delete"
  <2> DEFINE p == [q EXCEPT !.pc = "delete"]
  <2>1. Settled(q) = p
    BY <1>3 DEF Settled
  <2>2. /\ p \in Request /\ p.pc = "delete" /\ p.ask = q.ask /\ p.ignored = q.ignored
        /\ p.target = Absent /\ p.groups = q.groups /\ p.add = q.add /\ p.remove = q.remove
    BY DEF Request, Locations
  <2>3. Wanted(p) = Wanted(q)
    BY <2>2 DEF Wanted
  <2> HIDE DEF p
  <2>4. Place(p) /\ Sorted(p)
    BY <1>3, <2>2, <2>3 DEF Place, Sorted
  <2> QED BY <1>3, <2>1, <2>2, <2>4
<1>4. CASE q.add = {} /\ q.remove = {} /\ q.ask.op # "delete"
  <2> DEFINE p == Answered(q, "2xx")
  <2>1. Settled(q) = p
    BY <1>4 DEF Settled
  <2>2. /\ p \in Request /\ p.pc = "done" /\ p.code = "2xx" /\ p.ask = q.ask /\ p.add = {}
        /\ p.remove = {} /\ p.target = Absent /\ p.ignored = q.ignored
    BY AnsweredIs
  <2> HIDE DEF p
  <2>3. Place(p) /\ Sorted(p)
    BY <2>2 DEF Place, Sorted
  <2> QED BY <1>4, <2>1, <2>2, <2>3
<1> QED BY <1>1, <1>2, <1>3, <1>4

(* What it holds, it holds wherever it goes, and when it ends it is fulfilled. *)
LEMMA SettledHeld ==
  ASSUME NEW q, Pending(q), NEW us, NEW bs, NEW cs,
         q.ask.user \notin cs /\ q.ask.op # "delete" => us[q.ask.user] # Absent,
         q.ask.op # "create" /\ ~q.ignored /\ q.ask.user \notin cs => Upper(bs, q),
         q.ask.op # "delete" /\ ~q.ignored /\ Quiet(cs, q.ask.user) => Lower(bs, q),
         q.ask.op = "edit" /\ ~q.ignored /\ Quiet(cs, q.ask.user) => q.add = {} /\ q.remove = {}
  PROVE  Held(us, bs, cs, Settled(q)) /\ Fulfilled(bs, cs, Settled(q))
<1> DEFINE p == Settled(q)
<1>1. /\ p.ask = q.ask /\ p.ignored = q.ignored /\ p.target = Absent /\ q.target = Absent
      /\ q.ask \in Ask
  BY SettledIs DEF Pending
<1>2. CASE p.pc = "done"
  <2>1. /\ q.add = {} /\ q.remove = {} /\ q.ask.op # "delete"
        /\ q.ask.op \in {"create", "update"} => q.groups = q.ask.groups
    BY <1>2, SettledIs DEF Pending
  <2>2. q.ask.user \in Users /\ {g \in Groups : BindingName(q.ask.user, g) = q.target} = {}
    BY <1>1, NameIs DEF Ask
  <2>3. Wanted(q) = q.groups
    BY <2>1 DEF Wanted
  <2> HIDE DEF p
  <2>4. Held(us, bs, cs, p)
    BY <1>2 DEF Held, TargetHeld, UserHeld, Bounded, Covered, Shown
  <2>5. ASSUME ~q.ignored, Quiet(cs, q.ask.user), q.ask.op = "update"
        PROVE  Members(bs, q.ask.user) = q.ask.groups
    BY <2>1, <2>2, <2>3, <2>5 DEF Upper, Lower, Quiet
  <2>6. ASSUME ~q.ignored, Quiet(cs, q.ask.user), q.ask.op = "create"
        PROVE  q.ask.groups \subseteq Members(bs, q.ask.user)
    BY <2>1, <2>6 DEF Lower
  <2>7. Fulfilled(bs, cs, p)
    BY <1>1, <2>5, <2>6 DEF Fulfilled
  <2> QED BY <2>4, <2>7 DEF p
<1>3. CASE p.pc # "done"
  <2>1. /\ p.pc \in {"bind", "find", "delete"} /\ p.groups = q.groups /\ p.add = q.add
        /\ p.remove = q.remove /\ (p.pc = "delete" => q.ask.op = "delete")
    BY <1>3, SettledIs
  <2> HIDE DEF p
  <2>2. Wanted(p) = Wanted(q)
    BY <1>1, <2>1 DEF Wanted
  <2>3. (Upper(bs, q) => Upper(bs, p)) /\ (Lower(bs, q) => Lower(bs, p))
    BY <1>1, <2>1, <2>2 DEF Upper, Lower
  <2>4. TargetHeld(bs, cs, p) /\ UserHeld(us, cs, p)
    BY <1>1, <2>1 DEF TargetHeld, UserHeld
  <2>5. Bounded(bs, cs, p) /\ Covered(bs, cs, p)
    BY <1>1, <2>1, <2>3 DEF Bounded, Covered
  <2>6. p.pc \in {"bind", "find"} => q.add # {} \/ q.remove # {}
    BY <1>1, <2>1 DEF p, Settled, Answered, Pending, Request
  <2>7. Shown(bs, cs, p)
    BY <1>1, <2>1, <2>6 DEF Shown
  <2>8. Fulfilled(bs, cs, p)
    BY <2>1 DEF Fulfilled
  <2> QED BY <2>4, <2>5, <2>7, <2>8 DEF Held, p
<1> QED BY <1>2, <1>3

-----------------------------------------------------------------------------
(* A good step keeps the invariant: what the others hold is not its to take. *)

LEMMA HeldElsewhere ==
  ASSUME NEW us, NEW nus, NEW bs, NEW nbs, NEW cs, NEW p, Held(us, bs, cs, p),
         nus[p.ask.user] = us[p.ask.user],
         Members(nbs, p.ask.user) \subseteq Members(bs, p.ask.user),
         Quiet(cs, p.ask.user) => Members(nbs, p.ask.user) = Members(bs, p.ask.user),
         p.pc = "unbind" /\ p.target \notin NamesOf(cs) => nbs[p.target] = bs[p.target]
  PROVE  Held(nus, nbs, cs, p)
<1> SUFFICES ASSUME p.pc # "new"
             PROVE  /\ TargetHeld(nbs, cs, p) /\ UserHeld(nus, cs, p)
                    /\ Bounded(nbs, cs, p) /\ Covered(nbs, cs, p) /\ Shown(nbs, cs, p)
  BY DEF Held
<1>1. /\ TargetHeld(bs, cs, p) /\ UserHeld(us, cs, p)
      /\ Bounded(bs, cs, p) /\ Covered(bs, cs, p) /\ Shown(bs, cs, p)
  BY DEF Held
<1>2. TargetHeld(nbs, cs, p)
  BY <1>1 DEF TargetHeld
<1>3. UserHeld(nus, cs, p)
  BY <1>1 DEF UserHeld
<1>4. Bounded(nbs, cs, p)
  BY <1>1 DEF Bounded, Upper
<1>5. Covered(nbs, cs, p)
  BY <1>1 DEF Covered, Lower
<1>6. Shown(nbs, cs, p)
  BY <1>1 DEF Shown
<1> QED BY <1>2, <1>3, <1>4, <1>5, <1>6

(* What a request at work knows of itself. *)
LEMMA AtWork ==
  ASSUME IInv, NEW r \in Requests, ~At(r, "new")
  PROVE  /\ requests[r] \in Request /\ requests[r].ask \in Ask /\ Login(r) \in Users
         /\ Place(requests[r]) /\ Sorted(requests[r])
         /\ Held(users, bindings, contended, requests[r])
         /\ bindings \in [BindingNames -> Binding \cup {Absent}] /\ Named(bindings)
         /\ users \in [Users -> User \cup {Absent}] /\ contended \subseteq Users /\ fresh \subseteq Requests
         /\ requests \in [Requests -> Request]
         /\ TargetHeld(bindings, contended, requests[r]) /\ UserHeld(users, contended, requests[r])
         /\ Bounded(bindings, contended, requests[r]) /\ Covered(bindings, contended, requests[r])
         /\ Shown(bindings, contended, requests[r])
<1>1. /\ requests[r] \in Request /\ Place(requests[r]) /\ Sorted(requests[r])
      /\ Held(users, bindings, contended, requests[r])
      /\ bindings \in [BindingNames -> Binding \cup {Absent}] /\ Named(bindings)
      /\ users \in [Users -> User \cup {Absent}] /\ contended \subseteq Users /\ fresh \subseteq Requests
      /\ requests \in [Requests -> Request]
  BY DEF IInv, TypeOK
<1>2. requests[r].ask \in Ask /\ requests[r].pc # "new"
  BY <1>1 DEF Place, At
<1>3. Login(r) \in Users
  BY <1>2 DEF Login, Ask
<1> QED BY <1>1, <1>2, <1>3 DEF Held

LEMMA SparedBindings ==
  ASSUME IInv, NEW r \in Requests, ~At(r, "new"), OthersSpared(r),
         NEW v \in Users
  PROVE  /\ bindings' \in [BindingNames -> Binding \cup {Absent}] /\ Named(bindings')
         /\ v # Login(r) =>
              /\ Members(bindings', v) \subseteq Members(bindings, v)
              /\ Quiet(contended, v) => Members(bindings', v) = Members(bindings, v)
              /\ \A b \in BindingNames \ NamesOf(contended) :
                   bindings[b] # Absent /\ bindings[b].user = v => bindings'[b] = bindings[b]
<1>1. CASE bindings' = bindings
  BY <1>1, AtWork
<1>2. ASSUME NEW g \in Groups, bindings[BindingName(Login(r), g)] = Absent,
             bindings' = Bound(bindings, Login(r), g)
      PROVE  /\ bindings' \in [BindingNames -> Binding \cup {Absent}] /\ Named(bindings')
             /\ v # Login(r) => Members(bindings', v) = Members(bindings, v)
             /\ \A b \in BindingNames : bindings[b] # Absent => bindings'[b] = bindings[b]
  <2> DEFINE u == Login(r)
             nbs == Bound(bindings, u, g)
  <2>1. /\ bindings \in [BindingNames -> Binding \cup {Absent}] /\ Named(bindings) /\ u \in Users
        /\ bindings[BindingName(u, g)] = Absent /\ BindingName(u, g) \in BindingNames
    BY <1>2, AtWork, NameIs
  <2> HIDE DEF u
  <2>2. /\ nbs \in [BindingNames -> Binding \cup {Absent}] /\ Named(nbs)
        /\ v # u => Members(nbs, v) = Members(bindings, v)
    BY <2>1, MemberBound
  <2>3. \A b \in BindingNames : bindings[b] # Absent => nbs[b] = bindings[b]
    BY <2>1 DEF Bound
  <2>4. bindings' = nbs
    BY <1>2 DEF u
  <2> HIDE DEF nbs
  <2> QED BY <2>2, <2>3, <2>4 DEF u
<1>3. ASSUME At(r, "unbind"), bindings' = Unbound(bindings, requests[r].target)
      PROVE  /\ bindings' \in [BindingNames -> Binding \cup {Absent}] /\ Named(bindings')
             /\ v # Login(r) =>
                  /\ Members(bindings', v) \subseteq Members(bindings, v)
                  /\ Quiet(contended, v) => Members(bindings', v) = Members(bindings, v)
                  /\ \A b \in BindingNames \ NamesOf(contended) :
                       bindings[b] # Absent /\ bindings[b].user = v => bindings'[b] = bindings[b]
  <2> DEFINE t == requests[r].target
  <2>1. t \in BindingNames
    <3>1. PICK g \in Groups : t = BindingName(Login(r), g)
      BY <1>3, AtWork DEF Sorted, At, Login
    <3> QED BY <3>1, AtWork, NameIs
  <2>2. t \notin NamesOf(contended) => bindings[t] # Absent /\ bindings[t].user = Login(r)
    BY <1>3, AtWork DEF TargetHeld, At, Login
  <2>3. /\ bindings \in [BindingNames -> Binding \cup {Absent}] /\ Named(bindings)
        /\ bindings' = Unbound(bindings, t)
    BY <1>3, AtWork
  <2> HIDE DEF t
  <2>4. /\ bindings' \in [BindingNames -> Binding \cup {Absent}] /\ Named(bindings')
        /\ Members(bindings', v) = {h \in Members(bindings, v) : BindingName(v, h) # t}
    BY <2>1, <2>3, MemberUnbound
  <2>5. ASSUME v # Login(r), Quiet(contended, v), NEW h \in Members(bindings, v)
        PROVE  BindingName(v, h) # t
    <3>1. h \in Groups /\ BindingName(v, h) \notin NamesOf(contended)
      BY <2>5 DEF Members, Quiet
    <3>2. bindings[BindingName(v, h)] = [user |-> v, group |-> h]
      BY <2>3, <2>5, <3>1, MemberIs
    <3> QED BY <2>2, <2>5, <3>1, <3>2
  <2>6. ASSUME v # Login(r), NEW b \in BindingNames \ NamesOf(contended),
               bindings[b] # Absent, bindings[b].user = v
        PROVE  bindings'[b] = bindings[b]
    BY <2>2, <2>3, <2>6 DEF Unbound
  <2> QED BY <2>4, <2>5, <2>6
<1> QED BY <1>1, <1>2, <1>3 DEF OthersSpared

LEMMA GoodKeepsHeld ==
  ASSUME IInv, NEW r \in Requests, NEW q, Good(r, q), NEW d \in Requests, d # r, ~At(d, "new")
  PROVE  Held(users', bindings', contended, requests[d])
<1> DEFINE p == requests[d]
<1>0. /\ p \in Request /\ p.ask \in Ask /\ p.ask.user \in Users /\ p.pc # "new" /\ Sorted(p)
      /\ Held(users, bindings, contended, p) /\ TargetHeld(bindings, contended, p)
  BY AtWork DEF At, Login
<1>1. ~At(r, "new") /\ OthersSpared(r) /\ r \in Active
  BY DEF Good, At, Active
<1>2. CASE p.pc = "done"
  BY <1>2 DEF Held, TargetHeld, UserHeld, Bounded, Covered, Shown
<1>3. CASE p.pc # "done" /\ p.ask.user = Login(r)
  <2>1. p.ask.user \in contended
    BY <1>0, <1>1, <1>3 DEF IInv, NoOverlap, Active, At, Login
  <2>2. p.pc = "unbind" => p.target \in NamesOf(contended)
    BY <1>0, <2>1 DEF Sorted, NamesOf
  <2> HIDE DEF p
  <2>3. Held(users', bindings', contended, p)
    BY <2>1, <2>2 DEF Held, TargetHeld, UserHeld, Bounded, Covered, Shown, Quiet
  <2> QED BY <2>3 DEF p
<1>4. CASE p.ask.user # Login(r)
  <2>1. users'[p.ask.user] = users[p.ask.user]
    BY <1>0, <1>1, <1>4 DEF OthersSpared
  <2>2. p.pc = "unbind" => p.target \in BindingNames
    BY <1>0, NameIs DEF Sorted
  <2>3. /\ Members(bindings', p.ask.user) \subseteq Members(bindings, p.ask.user)
        /\ Quiet(contended, p.ask.user) => Members(bindings', p.ask.user) = Members(bindings, p.ask.user)
        /\ \A b \in BindingNames \ NamesOf(contended) :
             bindings[b] # Absent /\ bindings[b].user = p.ask.user => bindings'[b] = bindings[b]
    BY <1>0, <1>1, <1>4, SparedBindings
  <2>4. p.pc = "unbind" /\ p.target \notin NamesOf(contended) => bindings'[p.target] = bindings[p.target]
    BY <1>0, <2>2, <2>3 DEF TargetHeld
  <2> HIDE DEF p
  <2>5. Held(users', bindings', contended, p)
    BY <1>0, <2>1, <2>3, <2>4, HeldElsewhere
  <2> QED BY <2>5 DEF p
<1> QED BY <1>2, <1>3, <1>4

LEMMA GoodKeepsGhosts ==
  ASSUME IInv, NEW r \in Requests, NEW q, Good(r, q)
  PROVE  NoGhostMembership'
<1>1. /\ ~At(r, "new") /\ OthersSpared(r) /\ requests' = [requests EXCEPT ![r] = q]
      /\ q.ask = requests[r].ask /\ (requests[r].ignored => q.ignored) /\ contended' = contended
      /\ requests[r].ask # Absent
      /\ Ghost(users', bindings', Login(r)) /\ Login(r) \notin contended
           => q.ignored \/ Ghost(users, bindings, Login(r))
  BY AtWork, AbsentApart DEF Good, At, Login
<1>2. requests \in [Requests -> Request]
  BY DEF IInv, TypeOK
<1>3. ASSUME NEW u \in Users \ contended, Ghost(users, bindings, u)
      PROVE  \E d \in Requests : requests'[d].ask # Absent /\ requests'[d].ask.user = u /\ requests'[d].ignored
  <2>1. PICK d \in Requests : requests[d].ask # Absent /\ requests[d].ask.user = u /\ requests[d].ignored
    BY <1>3 DEF IInv, NoGhostMembership, Ghost, Members, GroupsOf, Login
  <2>2. requests'[d] = IF d = r THEN q ELSE requests[d]
    BY <1>1, <1>2
  <2> QED BY <1>1, <2>1, <2>2
<1>4. ASSUME NEW u \in Users \ contended, Ghost(users', bindings', u)
      PROVE  \E d \in Requests : requests'[d].ask # Absent /\ requests'[d].ask.user = u /\ requests'[d].ignored
  <2>1. CASE u # Login(r)
    <3>1. users'[u] = users[u] /\ Members(bindings', u) \subseteq Members(bindings, u)
      BY <1>1, <2>1, SparedBindings DEF OthersSpared
    <3>2. Ghost(users, bindings, u)
      BY <1>4, <3>1 DEF Ghost
    <3> QED BY <1>3, <3>2
  <2>2. CASE u = Login(r)
    <3>1. requests'[r] = q
      BY <1>1, <1>2
    <3> QED BY <1>1, <1>3, <1>4, <2>2, <3>1 DEF Login
  <2> QED BY <2>1, <2>2
<1> QED BY <1>1, <1>4 DEF NoGhostMembership, Ghost, Members, GroupsOf, Login

LEMMA GoodKeeps ==
  ASSUME IInv, NEW r \in Requests, NEW q, Good(r, q)
  PROVE  IInv'
<1>1. /\ ~At(r, "new") /\ OthersSpared(r) /\ requests' = [requests EXCEPT ![r] = q] /\ q \in Request
      /\ contended' = contended /\ r \in Active /\ q.pc # "new" /\ q.ask = requests[r].ask
  BY DEF Good, At, Active
<1>2. requests \in [Requests -> Request]
  BY DEF IInv, TypeOK
<1>3. \A d \in Requests : requests'[d] = IF d = r THEN q ELSE requests[d]
  BY <1>1, <1>2
<1>4. bindings' \in [BindingNames -> Binding \cup {Absent}] /\ Named(bindings')
  BY <1>1, AtWork, SparedBindings
<1>5. TypeOK'
  BY <1>1, <1>2, <1>4 DEF IInv, TypeOK, Good
<1>6. NoOverlap'
  <2>1. \A d \in Active' : d \in Active /\ requests'[d].ask = requests[d].ask
    BY <1>1, <1>3 DEF Active, At
  <2> QED BY <1>1, <2>1 DEF IInv, NoOverlap, Login
<1>7. ASSUME NEW d \in Requests
      PROVE  /\ Place(requests'[d]) /\ Sorted(requests'[d])
             /\ Held(users', bindings', contended', requests'[d])
  <2>1. CASE d = r
    BY <1>1, <1>3, <2>1 DEF Good
  <2>2. CASE d # r
    <3>1. requests'[d] = requests[d]
      BY <1>3, <2>2
    <3>2. Held(users', bindings', contended, requests[d])
      BY <2>2, GoodKeepsHeld DEF Held, At
    <3> QED BY <1>1, <3>1, <3>2 DEF IInv
  <2> QED BY <2>1, <2>2
<1>8. NoGhostMembership'
  BY GoodKeepsGhosts
<1> QED BY <1>4, <1>5, <1>6, <1>7, <1>8 DEF IInv

-----------------------------------------------------------------------------
(* Every step but Submit is good. *)

LEMMA AnswerGood ==
  ASSUME IInv, NEW r \in Requests, requests[r].pc \notin {"new", "done", "unbind"},
         NEW code \in {"404", "500"}, Answer(r, code), UNCHANGED <<users, bindings, fresh, contended>>
  PROVE  \E q : Good(r, q)
<1> DEFINE q == Answered(requests[r], code)
<1>1. /\ requests[r] \in Request /\ requests[r].ask \in Ask /\ Sorted(requests[r])
      /\ users \in [Users -> User \cup {Absent}] /\ fresh \subseteq Requests
  BY AtWork DEF At
<1>2. requests' = [requests EXCEPT ![r] = q]
  BY DEF Answer
<1>3. /\ q \in Request /\ q.pc = "done" /\ q.code = code /\ q.ask = requests[r].ask
      /\ q.add = {} /\ q.remove = {} /\ q.target = requests[r].target
      /\ q.ignored = requests[r].ignored
  BY <1>1, AnsweredIs
<1> HIDE DEF q
<1>4. q.target = Absent
  BY <1>1, <1>3 DEF Sorted
<1>5. Place(q) /\ Sorted(q)
  BY <1>1, <1>3, <1>4 DEF Place, Sorted
<1>6. Held(users', bindings', contended, q) /\ Fulfilled(bindings', contended, q)
  BY <1>3 DEF Held, TargetHeld, UserHeld, Bounded, Covered, Shown, Fulfilled
<1>7. OthersSpared(r)
  BY DEF OthersSpared
<1>8. Good(r, q)
  BY <1>1, <1>2, <1>3, <1>5, <1>6, <1>7 DEF Good, At
<1> QED BY <1>8

(* A step that moves a request on and leaves the objects alone. *)
LEMMA MoveGood ==
  ASSUME IInv, NEW r \in Requests, requests[r].pc \notin {"new", "done"},
         NEW q \in Request, requests' = [requests EXCEPT ![r] = q],
         q.pc # "new", q.ask = requests[r].ask, requests[r].ignored => q.ignored,
         UNCHANGED <<users, bindings, contended>>, fresh' \subseteq Requests,
         ~At(r, "put"), Place(q), Sorted(q),
         Held(users, bindings, contended, q), Fulfilled(bindings, contended, q)
  PROVE  \E p : Good(r, p)
<1>1. users \in [Users -> User \cup {Absent}]
  BY DEF IInv, TypeOK
<1>2. OthersSpared(r)
  BY DEF OthersSpared
<1>3. Good(r, q)
  BY <1>1, <1>2 DEF Good
<1> QED BY <1>3

LEMMA ReadUserGood ==
  ASSUME IInv, NEW r \in Requests, ReadUser(r)
  PROVE  \E q : Good(r, q)
<1>1. At(r, "read") /\ ~At(r, "new") /\ requests[r].pc \notin {"new", "done", "unbind"}
      /\ UNCHANGED <<users, bindings, fresh, contended>>
  BY DEF ReadUser, At, SameUsers, SameBindings
<1>2. CASE Answer(r, "404")
  BY <1>1, <1>2, AnswerGood
<1>3. CASE Goto(r, "show")
  <2> DEFINE q == [requests[r] EXCEPT !.pc = "show"]
  <2>0. /\ requests \in [Requests -> Request] /\ requests[r] \in Request /\ requests[r].ask \in Ask
        /\ Sorted(requests[r]) /\ requests[r].ask.op = "edit" /\ fresh \subseteq Requests
    BY <1>1, AtWork DEF Place, At
  <2>1. requests' = [requests EXCEPT ![r] = q]
    BY <1>3, <2>0 DEF Request, Goto
  <2>2. /\ q \in Request /\ q.pc = "show" /\ q.ignored = requests[r].ignored /\ q.ask = requests[r].ask
        /\ q.add = requests[r].add /\ q.remove = requests[r].remove /\ q.target = requests[r].target
    BY <2>0 DEF Request, Locations
  <2> HIDE DEF q
  <2>3. Place(q) /\ q.add = {} /\ q.remove = {} /\ q.target = Absent
    BY <1>1, <2>0, <2>2 DEF Place, Sorted, At
  <2>4. Sorted(q)
    BY <2>0, <2>2, <2>3 DEF Sorted
  <2>5. Held(users, bindings, contended, q) /\ Fulfilled(bindings, contended, q)
    BY <2>2 DEF Held, TargetHeld, UserHeld, Bounded, Covered, Shown, Fulfilled
  <2> QED BY <1>1, <2>0, <2>1, <2>2, <2>3, <2>4, <2>5, MoveGood DEF At
<1> QED BY <1>2, <1>3 DEF ReadUser

LEMMA ReadGroupsGood ==
  ASSUME IInv, NEW r \in Requests, ReadGroups(r)
  PROVE  \E q : Good(r, q)
<1>1. At(r, "show") /\ ~At(r, "new") /\ requests[r].pc \notin {"new", "done", "unbind"}
      /\ UNCHANGED <<users, bindings, fresh, contended>>
  BY DEF ReadGroups, At, SameUsers, SameBindings
<1>3. ASSUME NEW gs \in SUBSET Groups, NEW i \in BOOLEAN,
             requests' = [requests EXCEPT ![r].pc = "get", ![r].groups = gs, ![r].ignored = i],
             requests[r].ignored => i, i \/ gs = GroupsOf(Login(r))
      PROVE  \E q : Good(r, q)
  <2> DEFINE q == [requests[r] EXCEPT !.pc = "get", !.groups = gs, !.ignored = i]
  <2>0. /\ requests \in [Requests -> Request] /\ requests[r] \in Request /\ requests[r].ask \in Ask
        /\ Sorted(requests[r]) /\ requests[r].ask.op = "edit" /\ fresh \subseteq Requests
    BY <1>1, AtWork DEF Place, At
  <2>1. requests' = [requests EXCEPT ![r] = q]
    BY <1>3, <2>0 DEF Request
  <2>2. /\ q \in Request /\ q.pc = "get" /\ q.groups = gs /\ q.ignored = i /\ q.ask = requests[r].ask
        /\ q.add = requests[r].add /\ q.remove = requests[r].remove /\ q.target = requests[r].target
    BY <2>0 DEF Request, Locations
  <2> HIDE DEF q
  <2>3. Place(q) /\ q.add = {} /\ q.remove = {} /\ q.target = Absent
    BY <1>1, <2>0, <2>2 DEF Place, Sorted, At
  <2>4. Sorted(q)
    BY <2>0, <2>2, <2>3 DEF Sorted
  <2>5. ~q.ignored => Members(bindings, q.ask.user) = q.groups
    BY <1>3, <2>2 DEF Members, GroupsOf, Login
  <2>6. Held(users, bindings, contended, q) /\ Fulfilled(bindings, contended, q)
    BY <2>2, <2>5 DEF Held, TargetHeld, UserHeld, Bounded, Covered, Shown, Fulfilled
  <2> QED BY <1>1, <1>3, <2>0, <2>1, <2>2, <2>3, <2>4, <2>6, MoveGood DEF At
<1>4. CASE requests' = [requests EXCEPT ![r].pc = "get", ![r].groups = GroupsOf(Login(r))]
  <2>1. GroupsOf(Login(r)) \in SUBSET Groups
    BY DEF GroupsOf
  <2>2. requests \in [Requests -> Request]
    BY DEF IInv, TypeOK
  <2>3. requests[r].ignored \in BOOLEAN
    BY <2>2 DEF Request
  <2>4. requests' = [requests EXCEPT ![r].pc = "get", ![r].groups = GroupsOf(Login(r)),
                                     ![r].ignored = requests[r].ignored]
    BY <1>4, <2>2 DEF Request
  <2> QED BY <1>3, <2>1, <2>3, <2>4
<1>5. CASE requests' = [requests EXCEPT ![r].pc = "get", ![r].groups = {}, ![r].ignored = TRUE]
  BY <1>3, <1>5
<1> QED BY <1>4, <1>5 DEF ReadGroups

LEMMA GetUserGood ==
  ASSUME IInv, NEW r \in Requests, GetUser(r)
  PROVE  \E q : Good(r, q)
<1>1. At(r, "get") /\ ~At(r, "new") /\ requests[r].pc \notin {"new", "done", "unbind"}
      /\ UNCHANGED <<users, bindings, fresh, contended>>
  BY DEF GetUser, At, SameUsers, SameBindings
<1>2. CASE Answer(r, "500")
  BY <1>1, <1>2, AnswerGood
<1>3. CASE /\ users[Login(r)] # Absent
           /\ requests' = [requests EXCEPT ![r].pc = "rvGet", ![r].hash = HashFor(r)]
  <2> DEFINE q == [requests[r] EXCEPT !.pc = "rvGet", !.hash = HashFor(r)]
  <2>0. /\ requests \in [Requests -> Request] /\ requests[r] \in Request /\ requests[r].ask \in Ask
        /\ Sorted(requests[r]) /\ requests[r].ask.op \in {"update", "edit"}
        /\ Login(r) \in Users /\ users \in [Users -> User \cup {Absent}]
        /\ Shown(bindings, contended, requests[r]) /\ fresh \subseteq Requests
    BY <1>1, AtWork DEF Place, At
  <2>1. requests' = [requests EXCEPT ![r] = q]
    BY <1>3, <2>0 DEF Request
  <2>2. HashFor(r) \in Hashes \cup {Absent} /\ (requests[r].ask.hash = Absent => HashFor(r) = users[Login(r)].hash)
    <3>1. requests[r].ask.hash \in Hashes \cup {Absent}
      BY <2>0 DEF Ask
    <3>2. users[Login(r)].hash \in Hashes \cup {Absent}
      BY <1>3, <2>0 DEF User
    <3> QED BY <3>1, <3>2 DEF HashFor
  <2>3. /\ q \in Request /\ q.pc = "rvGet" /\ q.hash = HashFor(r) /\ q.ask = requests[r].ask
        /\ q.groups = requests[r].groups /\ q.ignored = requests[r].ignored
        /\ q.add = requests[r].add /\ q.remove = requests[r].remove /\ q.target = requests[r].target
    BY <2>0, <2>2 DEF Request, Locations
  <2> HIDE DEF q
  <2>4. Place(q) /\ q.add = {} /\ q.remove = {} /\ q.target = Absent
    BY <1>1, <2>0, <2>3 DEF Place, Sorted, At
  <2>5. Sorted(q)
    BY <1>1, <2>0, <2>3, <2>4 DEF Sorted, At
  <2>6. UserHeld(users, contended, q)
    BY <1>3, <2>2, <2>3 DEF UserHeld, Login
  <2>7. Shown(bindings, contended, q)
    BY <1>1, <2>0, <2>3 DEF Shown, At
  <2>8. Held(users, bindings, contended, q) /\ Fulfilled(bindings, contended, q)
    BY <2>3, <2>6, <2>7 DEF Held, TargetHeld, Bounded, Covered, Fulfilled
  <2> QED BY <1>1, <2>0, <2>1, <2>3, <2>4, <2>5, <2>8, MoveGood DEF At
<1> QED BY <1>2, <1>3 DEF GetUser

LEMMA GetResourceVersionGood ==
  ASSUME IInv, NEW r \in Requests, GetResourceVersion(r)
  PROVE  \E q : Good(r, q)
<1>1. At(r, "rvGet") /\ ~At(r, "new") /\ requests[r].pc \notin {"new", "done", "unbind"}
      /\ UNCHANGED <<users, bindings, contended>>
  BY DEF GetResourceVersion, At, SameBindings
<1>2. CASE Answer(r, "500") /\ UNCHANGED fresh
  BY <1>1, <1>2, AnswerGood
<1>3. CASE users[Login(r)] # Absent /\ Goto(r, "put") /\ fresh' = fresh \cup {r}
  <2> DEFINE q == [requests[r] EXCEPT !.pc = "put"]
  <2>0. /\ requests \in [Requests -> Request] /\ requests[r] \in Request /\ requests[r].ask \in Ask
        /\ Place(requests[r]) /\ Sorted(requests[r]) /\ requests[r].ask.op \in {"update", "edit"}
        /\ Shown(bindings, contended, requests[r]) /\ UserHeld(users, contended, requests[r])
        /\ fresh' \subseteq Requests
    BY <1>1, <1>3, AtWork DEF Place, At
  <2>1. requests' = [requests EXCEPT ![r] = q]
    BY <1>3, <2>0 DEF Request, Goto
  <2>3. /\ q \in Request /\ q.pc = "put" /\ q.hash = requests[r].hash /\ q.ask = requests[r].ask
        /\ q.groups = requests[r].groups /\ q.ignored = requests[r].ignored
        /\ q.add = requests[r].add /\ q.remove = requests[r].remove /\ q.target = requests[r].target
    BY <2>0 DEF Request, Locations
  <2> HIDE DEF q
  <2>4. Place(q) /\ q.add = {} /\ q.remove = {} /\ q.target = Absent
    BY <1>1, <2>0, <2>3 DEF Place, Sorted, At
  <2>5. Sorted(q)
    BY <1>1, <2>0, <2>3, <2>4 DEF Sorted, At
  <2>6. UserHeld(users, contended, q)
    BY <1>1, <2>0, <2>3 DEF UserHeld, At
  <2>7. Shown(bindings, contended, q)
    BY <1>1, <2>0, <2>3 DEF Shown, At
  <2>8. Held(users, bindings, contended, q) /\ Fulfilled(bindings, contended, q)
    BY <2>3, <2>6, <2>7 DEF Held, TargetHeld, Bounded, Covered, Fulfilled
  <2> QED BY <1>1, <2>0, <2>1, <2>3, <2>4, <2>5, <2>8, MoveGood DEF At
<1> QED BY <1>2, <1>3 DEF GetResourceVersion

(* A step that writes the user. *)
LEMMA PutUserIs ==
  ASSUME IInv, NEW r \in Requests, ~At(r, "new"), NEW user \in User \cup {Absent}, PutUser(Login(r), user)
  PROVE  /\ users' \in [Users -> User \cup {Absent}] /\ users'[Login(r)] = user
         /\ \A v \in Users \ {Login(r)} : users'[v] = users[v]
         /\ fresh' \subseteq Requests
<1>1. users \in [Users -> User \cup {Absent}] /\ Login(r) \in Users /\ fresh \subseteq Requests
  BY AtWork
<1> QED BY <1>1 DEF PutUser

LEMMA CreateUserGood ==
  ASSUME IInv, NEW r \in Requests, CreateUser(r)
  PROVE  \E q : Good(r, q)
<1>1. At(r, "create") /\ ~At(r, "new") /\ requests[r].pc \notin {"new", "done", "unbind"}
      /\ UNCHANGED <<bindings, contended>>
  BY DEF CreateUser, At, SameBindings
<1>2. CASE Answer(r, "500") /\ SameUsers
  BY <1>1, <1>2, AnswerGood DEF SameUsers
<1> DEFINE user == [hash |-> requests[r].ask.hash, name |-> requests[r].ask.name]
           bind == [requests[r] EXCEPT !.pc = "bind", !.add = requests[r].groups]
           done == Answered(requests[r], "2xx")
<1>3. CASE /\ PutUser(Login(r), user)
           /\ requests' = [requests EXCEPT ![r] = IF requests[r].groups = {} THEN done ELSE bind]
  <2>0. /\ requests \in [Requests -> Request] /\ requests[r] \in Request /\ requests[r].ask \in Ask
        /\ Sorted(requests[r]) /\ requests[r].ask.op = "create"
    BY <1>1, AtWork DEF Place, At
  <2>1. /\ requests[r].groups = requests[r].ask.groups /\ requests[r].remove = {}
        /\ requests[r].target = Absent
    BY <1>1, <2>0 DEF Sorted, At
  <2>2. user \in User /\ user # Absent
    BY <2>0, AbsentApart DEF User, Ask
  <2>3. /\ users' \in [Users -> User \cup {Absent}] /\ users'[Login(r)] # Absent
        /\ \A v \in Users \ {Login(r)} : users'[v] = users[v]
        /\ fresh' \subseteq Requests
    BY <1>1, <1>3, <2>2, PutUserIs
  <2>4. OthersSpared(r)
    BY <1>1, <2>3 DEF OthersSpared
  <2>5. CASE requests[r].groups = {}
    <3>1. requests' = [requests EXCEPT ![r] = done]
      BY <1>3, <2>5
    <3>2. /\ done \in Request /\ done.pc = "done" /\ done.ask = requests[r].ask /\ done.add = {}
          /\ done.remove = {} /\ done.target = Absent /\ done.ignored = requests[r].ignored
      BY <2>0, <2>1, AnsweredIs
    <3> HIDE DEF done
    <3>3. Place(done) /\ Sorted(done)
      BY <2>0, <3>2 DEF Place, Sorted
    <3>4. Held(users', bindings', contended, done)
      BY <3>2 DEF Held, TargetHeld, UserHeld, Bounded, Covered, Shown
    <3>5. Fulfilled(bindings', contended, done)
      BY <2>0, <2>1, <2>5, <3>2 DEF Fulfilled
    <3>6. ~Ghost(users', bindings', done.ask.user)
      BY <2>3, <3>2 DEF Ghost, Login
    <3>7. Good(r, done)
      BY <1>1, <2>3, <2>4, <3>1, <3>2, <3>3, <3>4, <3>5, <3>6 DEF Good, At
    <3> QED BY <3>7
  <2>6. CASE requests[r].groups # {}
    <3>1. requests' = [requests EXCEPT ![r] = bind]
      BY <1>3, <2>6
    <3>2. /\ bind \in Request /\ bind.pc = "bind" /\ bind.ask = requests[r].ask
          /\ bind.groups = requests[r].groups /\ bind.add = requests[r].groups
          /\ bind.remove = {} /\ bind.target = Absent /\ bind.ignored = requests[r].ignored
      BY <2>0, <2>1 DEF Request, Locations
    <3> HIDE DEF bind
    <3>3. Place(bind) /\ Sorted(bind)
      BY <2>0, <2>1, <3>2 DEF Place, Sorted, Wanted
    <3>4. Held(users', bindings', contended, bind)
      BY <2>0, <2>3, <3>2 DEF Held, TargetHeld, UserHeld, Bounded, Covered, Lower, Shown, Login
    <3>5. Fulfilled(bindings', contended, bind)
      BY <3>2 DEF Fulfilled
    <3>6. ~Ghost(users', bindings', bind.ask.user)
      BY <2>3, <3>2 DEF Ghost, Login
    <3>7. Good(r, bind)
      BY <1>1, <2>3, <2>4, <3>1, <3>2, <3>3, <3>4, <3>5, <3>6 DEF Good, At
    <3> QED BY <3>7
  <2> QED BY <2>5, <2>6
<1> QED BY <1>2, <1>3 DEF CreateUser

LEMMA UpdateUserGood ==
  ASSUME IInv, NEW r \in Requests, UpdateUser(r)
  PROVE  \E q : Good(r, q)
<1>1. At(r, "put") /\ ~At(r, "new") /\ requests[r].pc \notin {"new", "done", "unbind"}
      /\ UNCHANGED <<bindings, contended>>
  BY DEF UpdateUser, At, SameBindings
<1>2. CASE Answer(r, "500") /\ SameUsers
  BY <1>1, <1>2, AnswerGood DEF SameUsers
<1> DEFINE user == [hash |-> requests[r].hash, name |-> Login(r)]
<1>3. CASE PutUser(Login(r), user) /\ Goto(r, "list")
  <2> DEFINE q == [requests[r] EXCEPT !.pc = "list"]
  <2>0. /\ requests \in [Requests -> Request] /\ requests[r] \in Request /\ requests[r].ask \in Ask
        /\ Sorted(requests[r]) /\ requests[r].ask.op \in {"update", "edit"} /\ Login(r) \in Users
        /\ Shown(bindings, contended, requests[r])
    BY <1>1, AtWork DEF Place, At
  <2>1. requests' = [requests EXCEPT ![r] = q]
    BY <1>3, <2>0 DEF Request, Goto
  <2>2. user \in User /\ user # Absent
    BY <2>0, AbsentApart DEF User, Request
  <2>3. /\ users' \in [Users -> User \cup {Absent}] /\ users'[Login(r)] = user
        /\ \A v \in Users \ {Login(r)} : users'[v] = users[v]
        /\ fresh' \subseteq Requests
    BY <1>1, <1>3, <2>2, PutUserIs
  <2>4. OthersSpared(r)
    BY <1>1, <2>3 DEF OthersSpared
  <2>5. /\ q \in Request /\ q.pc = "list" /\ q.ask = requests[r].ask
        /\ q.groups = requests[r].groups /\ q.ignored = requests[r].ignored
        /\ q.add = requests[r].add /\ q.remove = requests[r].remove /\ q.target = requests[r].target
    BY <2>0 DEF Request, Locations
  <2>6. user.hash = requests[r].hash
    OBVIOUS
  <2> HIDE DEF q, user
  <2>7. Place(q) /\ q.add = {} /\ q.remove = {} /\ q.target = Absent
    BY <1>1, <2>0, <2>5 DEF Place, Sorted, At
  <2>8. Sorted(q)
    BY <1>1, <2>0, <2>5, <2>7 DEF Sorted, At
  <2>9. UserHeld(users', contended, q) /\ ~Ghost(users', bindings', q.ask.user)
    BY <2>2, <2>3, <2>5 DEF UserHeld, Login, Ghost
  <2>10. Shown(bindings', contended, q)
    BY <1>1, <2>0, <2>5 DEF Shown, At
  <2>11. Held(users', bindings', contended, q) /\ Fulfilled(bindings', contended, q)
    BY <2>5, <2>9, <2>10 DEF Held, TargetHeld, Bounded, Covered, Fulfilled
  <2>12. Good(r, q)
    BY <1>1, <2>1, <2>3, <2>4, <2>5, <2>6, <2>7, <2>8, <2>9, <2>11 DEF Good, At
  <2> QED BY <2>12
<1> QED BY <1>2, <1>3 DEF UpdateUser

LEMMA DeleteUserGood ==
  ASSUME IInv, NEW r \in Requests, DeleteUser(r)
  PROVE  \E q : Good(r, q)
<1>1. At(r, "delete") /\ ~At(r, "new") /\ requests[r].pc \notin {"new", "done", "unbind"}
      /\ UNCHANGED <<bindings, contended>>
  BY DEF DeleteUser, At, SameBindings
<1>2. CASE Answer(r, "500") /\ SameUsers
  BY <1>1, <1>2, AnswerGood DEF SameUsers
<1>3. CASE PutUser(Login(r), Absent) /\ Answer(r, "2xx")
  <2> DEFINE q == Answered(requests[r], "2xx")
  <2>0. /\ requests[r] \in Request /\ requests[r].ask \in Ask /\ Login(r) \in Users
        /\ Sorted(requests[r]) /\ requests[r].ask.op = "delete"
        /\ Bounded(bindings, contended, requests[r])
    BY <1>1, AtWork DEF Place, At
  <2>1. requests' = [requests EXCEPT ![r] = q]
    BY <1>3 DEF Answer
  <2>2. requests[r].target = Absent /\ requests[r].remove = {}
    BY <1>1, <2>0 DEF Sorted, At
  <2>3. /\ users' \in [Users -> User \cup {Absent}]
        /\ \A v \in Users \ {Login(r)} : users'[v] = users[v]
        /\ fresh' \subseteq Requests
    BY <1>1, <1>3, PutUserIs
  <2>4. OthersSpared(r)
    BY <1>1, <2>3 DEF OthersSpared
  <2>5. /\ q \in Request /\ q.pc = "done" /\ q.ask = requests[r].ask /\ q.add = {}
        /\ q.remove = {} /\ q.target = Absent /\ q.ignored = requests[r].ignored
    BY <2>0, <2>2, AnsweredIs
  <2> HIDE DEF q
  <2>6. Place(q) /\ Sorted(q)
    BY <2>0, <2>5 DEF Place, Sorted
  <2>7. Held(users', bindings', contended, q) /\ Fulfilled(bindings', contended, q)
    BY <2>0, <2>5 DEF Held, TargetHeld, UserHeld, Bounded, Covered, Shown, Fulfilled
  <2>8. Login(r) \notin contended /\ ~q.ignored => Members(bindings, Login(r)) = {}
    <3>1. {g \in Groups : BindingName(Login(r), g) = Absent} = {}
      BY <2>0, NameIs
    <3> QED BY <1>1, <2>0, <2>2, <2>5, <3>1 DEF Bounded, Upper, Wanted, At, Login
  <2>9. Ghost(users', bindings', q.ask.user) /\ q.ask.user \notin contended => q.ignored
    BY <1>1, <2>5, <2>8 DEF Ghost, Login
  <2>10. Good(r, q)
    BY <1>1, <2>1, <2>3, <2>4, <2>5, <2>6, <2>7, <2>9 DEF Good, At
  <2> QED BY <2>10
<1> QED BY <1>2, <1>3 DEF DeleteUser

(* A step of the group sync: q0 is the request before it is told where to go. *)
LEMMA SettleGood ==
  ASSUME IInv, NEW r \in Requests, requests[r].pc \notin {"new", "done", "put"},
         NEW q0, Pending(q0), requests' = [requests EXCEPT ![r] = Settled(q0)],
         q0.ask = requests[r].ask, requests[r].ignored => q0.ignored,
         UNCHANGED <<users, fresh, contended>>, OthersSpared(r),
         Login(r) \notin contended /\ Op(r) # "delete" => users[Login(r)] # Absent,
         Op(r) = "delete" => Members(bindings', Login(r)) \subseteq Members(bindings, Login(r)),
         Op(r) # "create" /\ ~q0.ignored /\ Login(r) \notin contended => Upper(bindings', q0),
         Op(r) # "delete" /\ ~q0.ignored /\ Quiet(contended, Login(r)) => Lower(bindings', q0),
         Op(r) = "edit" /\ ~q0.ignored /\ Quiet(contended, Login(r)) => q0.add = {} /\ q0.remove = {}
  PROVE  \E q : Good(r, q)
<1> DEFINE q == Settled(q0)
<1>1. users \in [Users -> User \cup {Absent}] /\ fresh \subseteq Requests
  BY DEF IInv, TypeOK
<1>2. /\ q \in Request /\ q.ask = q0.ask /\ q.ignored = q0.ignored /\ Place(q) /\ Sorted(q)
      /\ q.pc \in {"done", "bind", "find", "delete"}
  BY SettledIs
<1>3. Held(users, bindings', contended, q) /\ Fulfilled(bindings', contended, q)
  BY SettledHeld DEF Login, Op
<1>4. Ghost(users', bindings', Login(r)) /\ Login(r) \notin contended => Ghost(users, bindings, Login(r))
  BY DEF Ghost
<1> HIDE DEF q
<1>5. Good(r, q)
  BY <1>1, <1>2, <1>3, <1>4 DEF Good, At, Login, q
<1> QED BY <1>5

(* An error is passed over. *)
LEMMA IgnoreGood ==
  ASSUME IInv, NEW r \in Requests, requests[r].pc \in {"bind", "find", "unbind"}, NEW q0,
         requests' = [requests EXCEPT ![r] = Settled(q0)], UNCHANGED <<users, bindings, fresh, contended>>,
         q0 \in Request, q0.ask = requests[r].ask, q0.groups = requests[r].groups,
         q0.ignored = TRUE, q0.target = Absent,
         q0.add \subseteq requests[r].add, q0.remove \subseteq requests[r].remove
  PROVE  \E q : Good(r, q)
<1>1. /\ requests[r] \in Request /\ requests[r].ask \in Ask /\ Sorted(requests[r])
      /\ UserHeld(users, contended, requests[r])
  BY AtWork DEF At
<1>2. Wanted(q0) = Wanted(requests[r])
  BY DEF Wanted
<1>3. Pending(q0)
  BY <1>1, <1>2 DEF Pending, Sorted
<1>4. OthersSpared(r)
  BY DEF OthersSpared
<1>5. Login(r) \notin contended /\ Op(r) # "delete" => users[Login(r)] # Absent
  BY <1>1 DEF UserHeld, Login, Op
<1> QED BY <1>3, <1>4, <1>5, SettleGood

LEMMA ListBindingsGood ==
  ASSUME IInv, NEW r \in Requests, ListBindings(r)
  PROVE  \E q : Good(r, q)
<1> DEFINE now == GroupsOf(Login(r))
           q0 == [requests[r] EXCEPT !.add = Wanted(requests[r]) \ now, !.remove = now \ Wanted(requests[r])]
<1>1. /\ At(r, "list") /\ ~At(r, "new") /\ requests[r].pc \notin {"new", "done", "put"}
      /\ UNCHANGED <<users, bindings, fresh, contended>>
  BY DEF ListBindings, At, SameUsers, SameBindings
<1>2. /\ requests \in [Requests -> Request] /\ requests[r] \in Request /\ requests[r].ask \in Ask
      /\ Sorted(requests[r]) /\ requests[r].ask.op # "create"
      /\ UserHeld(users, contended, requests[r]) /\ Shown(bindings, contended, requests[r])
  BY <1>1, AtWork DEF Place, At
<1>3. requests' = [requests EXCEPT ![r] = Settled(q0)]
  BY <1>2 DEF ListBindings
<1>4. now = Members(bindings, Login(r)) /\ now \subseteq Groups
  BY DEF Members, GroupsOf
<1> HIDE DEF now
<1>5. Wanted(requests[r]) \subseteq Groups
  BY <1>2 DEF Wanted, Request
<1>6. /\ q0 \in Request /\ q0.ask = requests[r].ask /\ q0.groups = requests[r].groups
      /\ q0.ignored = requests[r].ignored /\ q0.target = requests[r].target
      /\ q0.add = Wanted(requests[r]) \ now /\ q0.remove = now \ Wanted(requests[r])
  BY <1>2, <1>4, <1>5 DEF Request
<1> HIDE DEF q0
<1>7. Wanted(q0) = Wanted(requests[r]) /\ (Op(r) # "delete" => Wanted(q0) = q0.groups)
  BY <1>6 DEF Wanted, Op
<1>8. q0.target = Absent /\ (q0.ask.op \in {"create", "update"} => q0.groups = q0.ask.groups)
  BY <1>1, <1>2, <1>6 DEF Sorted, At
<1>9. Pending(q0)
  BY <1>2, <1>6, <1>7, <1>8 DEF Pending
<1>10. Upper(bindings', q0)
  BY <1>1, <1>4, <1>6, <1>7 DEF Upper, Login
<1>11. Op(r) # "delete" => Lower(bindings', q0)
  BY <1>1, <1>4, <1>6, <1>7 DEF Lower, Login
<1>12. Op(r) = "edit" /\ ~q0.ignored /\ Quiet(contended, Login(r)) => q0.add = {} /\ q0.remove = {}
  BY <1>1, <1>2, <1>4, <1>6, <1>7 DEF Shown, At, Op, Login
<1>13. Login(r) \notin contended /\ Op(r) # "delete" => users[Login(r)] # Absent
  BY <1>1, <1>2 DEF UserHeld, Login, Op, At
<1>14. OthersSpared(r) /\ Members(bindings', Login(r)) \subseteq Members(bindings, Login(r))
  BY <1>1 DEF OthersSpared
<1> QED BY <1>1, <1>3, <1>6, <1>9, <1>10, <1>11, <1>12, <1>13, <1>14, SettleGood

LEMMA BindFailsGood ==
  ASSUME IInv, NEW r \in Requests, At(r, "bind"), NEW g \in requests[r].add, BindFails(r, g),
         UNCHANGED <<users, bindings, fresh, contended>>
  PROVE  \E q : Good(r, q)
<1>1. /\ requests[r].pc \notin {"new", "done", "unbind"} /\ ~At(r, "new")
      /\ requests[r].pc \in {"bind", "find", "unbind"}
  BY DEF At
<1>2. requests \in [Requests -> Request] /\ requests[r] \in Request /\ Sorted(requests[r])
  BY <1>1, AtWork
<1>3. CASE Op(r) = "create"
  <2>1. Answer(r, "500")
    BY <1>2, <1>3 DEF BindFails, Answer
  <2> QED BY <1>1, <2>1, AnswerGood
<1>4. CASE Op(r) # "create"
  <2> DEFINE q0 == [requests[r] EXCEPT !.add = requests[r].add \ {g}, !.ignored = TRUE]
  <2>1. requests' = [requests EXCEPT ![r] = Settled(q0)]
    BY <1>2, <1>4 DEF BindFails
  <2>2. /\ q0 \in Request /\ q0.ask = requests[r].ask /\ q0.groups = requests[r].groups
        /\ q0.ignored = TRUE /\ q0.target = requests[r].target
        /\ q0.add \subseteq requests[r].add /\ q0.remove = requests[r].remove
    BY <1>2 DEF Request
  <2> HIDE DEF q0
  <2>3. q0.target = Absent
    BY <1>1, <1>2, <2>2 DEF Sorted, At
  <2> QED BY <1>1, <2>1, <2>2, <2>3, IgnoreGood
<1> QED BY <1>3, <1>4

LEMMA BindGood ==
  ASSUME IInv, NEW r \in Requests, Bind(r)
  PROVE  \E q : Good(r, q)
<1>1. /\ At(r, "bind") /\ ~At(r, "new") /\ requests[r].pc \notin {"new", "done", "put"}
      /\ UNCHANGED <<users, fresh, contended>>
  BY DEF Bind, At, SameUsers
<1>2. /\ requests \in [Requests -> Request] /\ requests[r] \in Request /\ requests[r].ask \in Ask
      /\ Sorted(requests[r]) /\ requests[r].ask.op # "delete" /\ Login(r) \in Users
      /\ UserHeld(users, contended, requests[r]) /\ Shown(bindings, contended, requests[r])
      /\ Bounded(bindings, contended, requests[r]) /\ Covered(bindings, contended, requests[r])
      /\ bindings \in [BindingNames -> Binding \cup {Absent}] /\ Named(bindings)
  BY <1>1, AtWork DEF Place, At
<1>3. PICK g \in requests[r].add :
        \/ /\ bindings[BindingName(Login(r), g)] = Absent
           /\ bindings' = [bindings EXCEPT ![BindingName(Login(r), g)] = [user |-> Login(r), group |-> g]]
           /\ requests' = [requests EXCEPT ![r] = Settled([@ EXCEPT !.add = requests[r].add \ {g}])]
        \/ BindFails(r, g) /\ SameBindings
  BY DEF Bind
<1>4. CASE BindFails(r, g) /\ SameBindings
  BY <1>1, <1>4, BindFailsGood DEF SameBindings
<1>5. CASE /\ bindings[BindingName(Login(r), g)] = Absent
           /\ bindings' = [bindings EXCEPT ![BindingName(Login(r), g)] = [user |-> Login(r), group |-> g]]
           /\ requests' = [requests EXCEPT ![r] = Settled([@ EXCEPT !.add = requests[r].add \ {g}])]
  <2> DEFINE q0 == [requests[r] EXCEPT !.add = requests[r].add \ {g}]
  <2>1. requests' = [requests EXCEPT ![r] = Settled(q0)]
    BY <1>2, <1>5
  <2>2. /\ q0 \in Request /\ q0.ask = requests[r].ask /\ q0.groups = requests[r].groups
        /\ q0.ignored = requests[r].ignored /\ q0.target = requests[r].target
        /\ q0.add = requests[r].add \ {g} /\ q0.remove = requests[r].remove
    BY <1>2 DEF Request
  <2> HIDE DEF q0
  <2>3. g \in Groups /\ bindings' = Bound(bindings, Login(r), g)
    BY <1>2, <1>5 DEF Bound, Request
  <2>4. Members(bindings', Login(r)) = Members(bindings, Login(r)) \cup {g}
    <3>1. bindings[BindingName(Login(r), g)] = Absent
      BY <1>5
    <3> QED BY <1>2, <2>3, <3>1, MemberBound
  <2>5. OthersSpared(r)
    BY <1>1, <1>5, <2>3 DEF OthersSpared
  <2>6. Wanted(q0) = Wanted(requests[r]) /\ g \in Wanted(q0)
    BY <1>1, <1>2, <2>2 DEF Wanted, Sorted, At
  <2>7. Pending(q0)
    BY <1>1, <1>2, <2>2, <2>6 DEF Pending, Sorted, At
  <2>8. Op(r) # "create" /\ ~q0.ignored /\ Login(r) \notin contended => Upper(bindings', q0)
    BY <1>1, <1>2, <2>2, <2>4, <2>6 DEF Upper, Bounded, Login, Op, At
  <2>9. ~q0.ignored /\ Quiet(contended, Login(r)) => Lower(bindings', q0)
    BY <1>1, <1>2, <2>2, <2>4 DEF Lower, Covered, Login, Op, At
  <2>10. Op(r) = "edit" => q0.ignored \/ ~Quiet(contended, Login(r))
    BY <1>1, <1>2, <2>2 DEF Shown, At, Op, Login
  <2>11. Login(r) \notin contended => users[Login(r)] # Absent
    BY <1>1, <1>2 DEF UserHeld, Login, Op, At
  <2>12. Op(r) # "delete"
    BY <1>2 DEF Op
  <2> QED BY <1>1, <2>1, <2>2, <2>5, <2>7, <2>8, <2>9, <2>10, <2>11, <2>12, SettleGood
<1> QED BY <1>3, <1>4, <1>5

LEMMA FindBindingGood ==
  ASSUME IInv, NEW r \in Requests, FindBinding(r)
  PROVE  \E q : Good(r, q)
<1>1. /\ At(r, "find") /\ ~At(r, "new") /\ requests[r].pc \notin {"new", "done", "put"}
      /\ requests[r].pc \in {"bind", "find", "unbind"}
      /\ UNCHANGED <<users, bindings, fresh, contended>>
  BY DEF FindBinding, At, SameUsers, SameBindings
<1>2. /\ requests \in [Requests -> Request] /\ requests[r] \in Request /\ requests[r].ask \in Ask
      /\ Sorted(requests[r]) /\ requests[r].ask.op # "create" /\ Login(r) \in Users
      /\ UserHeld(users, contended, requests[r]) /\ Shown(bindings, contended, requests[r])
      /\ Bounded(bindings, contended, requests[r]) /\ Covered(bindings, contended, requests[r])
      /\ bindings \in [BindingNames -> Binding \cup {Absent}] /\ Named(bindings)
      /\ fresh \subseteq Requests
  BY <1>1, AtWork DEF Place, At
<1>3. requests[r].target = Absent
  BY <1>1, <1>2 DEF Sorted, At
<1>4. PICK g \in requests[r].remove :
        \/ \E b \in BindingNames :
             /\ bindings[b] = [user |-> Login(r), group |-> g]
             /\ requests' = [requests EXCEPT ![r].pc = "unbind", ![r].target = b, ![r].remove = @ \ {g}]
        \/ requests' = [requests EXCEPT ![r] =
             Settled([@ EXCEPT !.remove = requests[r].remove \ {g}, !.ignored = TRUE])]
  BY DEF FindBinding
<1>5. CASE requests' = [requests EXCEPT ![r] =
             Settled([@ EXCEPT !.remove = requests[r].remove \ {g}, !.ignored = TRUE])]
  <2> DEFINE q0 == [requests[r] EXCEPT !.remove = requests[r].remove \ {g}, !.ignored = TRUE]
  <2>1. requests' = [requests EXCEPT ![r] = Settled(q0)]
    BY <1>2, <1>5
  <2>2. /\ q0 \in Request /\ q0.ask = requests[r].ask /\ q0.groups = requests[r].groups
        /\ q0.ignored = TRUE /\ q0.target = requests[r].target
        /\ q0.add = requests[r].add /\ q0.remove \subseteq requests[r].remove
    BY <1>2 DEF Request
  <2> HIDE DEF q0
  <2> QED BY <1>1, <1>3, <2>1, <2>2, IgnoreGood
<1>6. ASSUME NEW b \in BindingNames, bindings[b] = [user |-> Login(r), group |-> g],
             requests' = [requests EXCEPT ![r].pc = "unbind", ![r].target = b, ![r].remove = @ \ {g}]
      PROVE  \E q : Good(r, q)
  <2> DEFINE q == [requests[r] EXCEPT !.pc = "unbind", !.target = b, !.remove = requests[r].remove \ {g}]
  <2>1. requests' = [requests EXCEPT ![r] = q]
    BY <1>2, <1>6 DEF Request
  <2>2. /\ q \in Request /\ q.pc = "unbind" /\ q.ask = requests[r].ask /\ q.groups = requests[r].groups
        /\ q.ignored = requests[r].ignored /\ q.target = b
        /\ q.add = requests[r].add /\ q.remove = requests[r].remove \ {g}
    BY <1>2 DEF Request, Locations
  <2> HIDE DEF q
  <2>3. /\ g \in Groups /\ bindings[b] # Absent /\ bindings[b].user = Login(r) /\ bindings[b].group = g
    <3>1. g \in Groups
      BY <1>2 DEF Request
    <3>2. [user |-> Login(r), group |-> g] \in Binding
      BY <1>2, <3>1 DEF Binding
    <3> QED BY <1>6, <3>1, <3>2, AbsentApart
  <2>4. b = BindingName(Login(r), g) /\ b # Absent
    BY <1>2, <2>3, NameIs DEF Named
  <2>5. Wanted(q) = Wanted(requests[r]) /\ g \notin Wanted(q)
    BY <1>1, <1>2, <2>2 DEF Wanted, Sorted, At
  <2>6. Place(q)
    BY <1>2, <2>2 DEF Place
  <2>7. Sorted(q)
    <3>1. q.target # Absent /\ \E h \in Groups : q.target = BindingName(q.ask.user, h)
      BY <2>2, <2>3, <2>4 DEF Login
    <3> QED BY <1>1, <1>2, <2>2, <2>5, <3>1 DEF Sorted, At
  <2>8. TargetHeld(bindings, contended, q) /\ UserHeld(users, contended, q)
    BY <1>1, <1>2, <2>2, <2>3, <2>5 DEF TargetHeld, UserHeld, Login, At
  <2>9. Bounded(bindings, contended, q)
    <3>1. Upper(bindings, requests[r]) => Upper(bindings, q)
      <4>1. {h \in Groups : BindingName(requests[r].ask.user, h) = requests[r].target} = {}
        BY <1>2, <1>3, NameIs DEF Login
      <4>2. g \in {h \in Groups : BindingName(q.ask.user, h) = q.target}
        BY <2>2, <2>3, <2>4 DEF Login
      <4> QED BY <2>2, <2>5, <4>1, <4>2 DEF Upper
    <3> QED BY <1>1, <1>2, <2>2, <3>1 DEF Bounded, At
  <2>10. Covered(bindings, contended, q)
    BY <1>1, <1>2, <2>2 DEF Covered, Lower, At
  <2>11. Shown(bindings, contended, q)
    BY <1>1, <1>2, <2>2 DEF Shown, At
  <2>12. Held(users, bindings, contended, q) /\ Fulfilled(bindings, contended, q)
    BY <2>2, <2>8, <2>9, <2>10, <2>11 DEF Held, Fulfilled
  <2> QED BY <1>1, <1>2, <2>1, <2>2, <2>6, <2>7, <2>12, MoveGood DEF At
<1> QED BY <1>4, <1>5, <1>6

LEMMA DeleteBindingGood ==
  ASSUME IInv, NEW r \in Requests, DeleteBinding(r)
  PROVE  \E q : Good(r, q)
<1> DEFINE t == requests[r].target
           q0 == [requests[r] EXCEPT !.target = Absent]
<1>1. /\ At(r, "unbind") /\ ~At(r, "new") /\ requests[r].pc \notin {"new", "done", "put"}
      /\ UNCHANGED <<users, fresh, contended>>
      /\ bindings' = Unbound(bindings, t)
  BY DEF DeleteBinding, At, SameUsers, Unbound
<1>2. /\ requests \in [Requests -> Request] /\ requests[r] \in Request /\ requests[r].ask \in Ask
      /\ Sorted(requests[r]) /\ requests[r].ask.op # "create" /\ Login(r) \in Users
      /\ UserHeld(users, contended, requests[r]) /\ Shown(bindings, contended, requests[r])
      /\ Bounded(bindings, contended, requests[r]) /\ Covered(bindings, contended, requests[r])
      /\ TargetHeld(bindings, contended, requests[r])
      /\ bindings \in [BindingNames -> Binding \cup {Absent}] /\ Named(bindings)
  BY <1>1, AtWork DEF Place, At
<1>3. requests' = [requests EXCEPT ![r] = Settled(q0)]
  BY <1>2 DEF DeleteBinding
<1>4. /\ q0 \in Request /\ q0.ask = requests[r].ask /\ q0.groups = requests[r].groups
      /\ q0.ignored = requests[r].ignored /\ q0.target = Absent
      /\ q0.add = requests[r].add /\ q0.remove = requests[r].remove
  BY <1>2 DEF Request
<1> HIDE DEF q0
<1>5. PICK g \in Groups : t = BindingName(Login(r), g)
  BY <1>1, <1>2 DEF Sorted, At, Login
<1>6. t \in BindingNames
  BY <1>2, <1>5, NameIs
<1>7. t \notin NamesOf(contended) =>
        bindings[t] # Absent /\ bindings[t].user = Login(r) /\ bindings[t].group \notin Wanted(requests[r])
  BY <1>1, <1>2 DEF TargetHeld, At, Login
<1>8. Upper(bindings, requests[r]) =>
        Members(bindings, Login(r)) \subseteq
          Wanted(requests[r]) \cup requests[r].remove \cup {h \in Groups : BindingName(Login(r), h) = t}
  BY DEF Upper, Login
<1>9. OthersSpared(r)
  BY <1>1 DEF OthersSpared
<1>10. Op(r) = "edit" => q0.ignored \/ ~Quiet(contended, Login(r))
  BY <1>1, <1>2, <1>4 DEF Shown, At, Op, Login
<1>11. Login(r) \notin contended /\ Op(r) # "delete" => users[Login(r)] # Absent
  BY <1>1, <1>2 DEF UserHeld, Login, Op, At
<1> HIDE DEF t
<1>12. Members(bindings', Login(r)) = {h \in Members(bindings, Login(r)) : BindingName(Login(r), h) # t}
  BY <1>1, <1>2, <1>6, MemberUnbound
<1>13. Wanted(q0) = Wanted(requests[r])
  BY <1>4 DEF Wanted
<1>14. Pending(q0)
  BY <1>1, <1>2, <1>4, <1>13 DEF Pending, Sorted, At
<1>15. ~q0.ignored /\ Login(r) \notin contended => Upper(bindings', q0)
  <2>1. SUFFICES ASSUME ~q0.ignored, Login(r) \notin contended PROVE Upper(bindings', q0)
    OBVIOUS
  <2>2. Upper(bindings, requests[r])
    BY <1>1, <1>2, <1>4, <2>1 DEF Bounded, At, Login
  <2>3. Members(bindings, Login(r)) \subseteq Groups
    BY DEF Members
  <2>4. Members(bindings', Login(r)) \subseteq Wanted(q0) \cup q0.remove
    BY <1>4, <1>8, <1>12, <1>13, <2>2, <2>3
  <2> QED BY <1>4, <2>4 DEF Upper, Login
<1>16. Op(r) # "delete" /\ ~q0.ignored /\ Quiet(contended, Login(r)) => Lower(bindings', q0)
  <2>1. SUFFICES ASSUME Op(r) # "delete", ~q0.ignored, Quiet(contended, Login(r))
                 PROVE  Lower(bindings', q0)
    OBVIOUS
  <2>2. requests[r].groups \ requests[r].add \subseteq Members(bindings, Login(r))
    BY <1>1, <1>2, <1>4, <2>1 DEF Covered, Lower, At, Login, Op
  <2>3. Wanted(requests[r]) = requests[r].groups
    BY <2>1 DEF Wanted, Op
  <2>4. t \notin NamesOf(contended)
    BY <1>5, <2>1 DEF Quiet
  <2>5. ASSUME NEW h \in Members(bindings, Login(r)), BindingName(Login(r), h) = t
        PROVE  h \notin Wanted(requests[r])
    <3>1. h \in Groups
      BY DEF Members
    <3>2. bindings[BindingName(Login(r), h)] = [user |-> Login(r), group |-> h]
      BY <1>2, <3>1, MemberIs
    <3>3. bindings[t].group = h
      BY <2>5, <3>2
    <3> QED BY <1>7, <2>4, <3>3
  <2>6. q0.groups \ q0.add \subseteq Members(bindings', Login(r))
    BY <1>4, <1>12, <2>2, <2>3, <2>5
  <2> QED BY <1>4, <2>6 DEF Lower, Login
<1>17. Members(bindings', Login(r)) \subseteq Members(bindings, Login(r))
  BY <1>12
<1> QED BY <1>1, <1>3, <1>4, <1>9, <1>10, <1>11, <1>14, <1>15, <1>16, <1>17, SettleGood

LEMMA CallFailsGood ==
  ASSUME IInv, NEW r \in Requests, CallFails(r)
  PROVE  \E q : Good(r, q)
<1>1. UNCHANGED <<users, bindings, fresh, contended>> /\ ~At(r, "new")
  BY DEF CallFails, SameUsers, SameBindings, At
<1>2. /\ requests \in [Requests -> Request] /\ requests[r] \in Request /\ requests[r].ask \in Ask
      /\ Sorted(requests[r]) /\ fresh \subseteq Requests
  BY <1>1, AtWork
<1>3. CASE /\ requests[r].pc \in {"read", "create", "get", "rvGet", "put", "delete"} \/ At(r, "list")
           /\ Answer(r, "500")
  <2>1. requests[r].pc \notin {"new", "done", "unbind"}
    BY <1>3 DEF At
  <2> QED BY <1>1, <1>3, <2>1, AnswerGood
<1>4. CASE At(r, "list") /\ Op(r) = "delete"
           /\ requests' = [requests EXCEPT ![r].pc = "delete", ![r].ignored = TRUE]
  <2> DEFINE q == [requests[r] EXCEPT !.pc = "delete", !.ignored = TRUE]
  <2>1. requests' = [requests EXCEPT ![r] = q]
    BY <1>2, <1>4 DEF Request
  <2>2. /\ q \in Request /\ q.pc = "delete" /\ q.ask = requests[r].ask /\ q.groups = requests[r].groups
        /\ q.ignored = TRUE /\ q.target = requests[r].target
        /\ q.add = requests[r].add /\ q.remove = requests[r].remove
    BY <1>2 DEF Request, Locations
  <2> HIDE DEF q
  <2>3. Place(q) /\ q.add = {} /\ q.remove = {} /\ q.target = Absent
    BY <1>2, <1>4, <2>2 DEF Place, Sorted, At, Op
  <2>4. Sorted(q)
    BY <1>4, <2>2, <2>3 DEF Sorted, Op
  <2>5. Held(users, bindings, contended, q) /\ Fulfilled(bindings, contended, q)
    BY <2>2 DEF Held, TargetHeld, UserHeld, Bounded, Covered, Shown, Fulfilled
  <2> QED BY <1>1, <1>2, <1>4, <2>1, <2>2, <2>3, <2>4, <2>5, MoveGood DEF At
<1>5. CASE At(r, "bind") /\ \E g \in requests[r].add : BindFails(r, g)
  BY <1>1, <1>5, BindFailsGood
<1>6. ASSUME At(r, "find"), NEW g \in requests[r].remove,
             requests' = [requests EXCEPT ![r] =
               Settled([@ EXCEPT !.remove = requests[r].remove \ {g}, !.ignored = TRUE])]
      PROVE  \E q : Good(r, q)
  <2> DEFINE q0 == [requests[r] EXCEPT !.remove = requests[r].remove \ {g}, !.ignored = TRUE]
  <2>1. requests' = [requests EXCEPT ![r] = Settled(q0)]
    BY <1>2, <1>6
  <2>2. /\ q0 \in Request /\ q0.ask = requests[r].ask /\ q0.groups = requests[r].groups
        /\ q0.ignored = TRUE /\ q0.target = requests[r].target
        /\ q0.add = requests[r].add /\ q0.remove \subseteq requests[r].remove
    BY <1>2 DEF Request
  <2> HIDE DEF q0
  <2>3. requests[r].target = Absent /\ requests[r].pc \in {"bind", "find", "unbind"}
    BY <1>2, <1>6 DEF Sorted, At
  <2> QED BY <1>1, <2>1, <2>2, <2>3, IgnoreGood
<1>7. CASE At(r, "unbind")
           /\ requests' = [requests EXCEPT ![r] = Settled([@ EXCEPT !.target = Absent, !.ignored = TRUE])]
  <2> DEFINE q0 == [requests[r] EXCEPT !.target = Absent, !.ignored = TRUE]
  <2>1. requests' = [requests EXCEPT ![r] = Settled(q0)]
    BY <1>2, <1>7
  <2>2. /\ q0 \in Request /\ q0.ask = requests[r].ask /\ q0.groups = requests[r].groups
        /\ q0.ignored = TRUE /\ q0.target = Absent
        /\ q0.add = requests[r].add /\ q0.remove = requests[r].remove
    BY <1>2 DEF Request
  <2> HIDE DEF q0
  <2>3. requests[r].pc \in {"bind", "find", "unbind"}
    BY <1>7 DEF At
  <2> QED BY <1>1, <2>1, <2>2, <2>3, IgnoreGood
<1> QED BY <1>3, <1>4, <1>5, <1>6, <1>7 DEF CallFails

-----------------------------------------------------------------------------
(* The invariant, step by step. *)

(* The fewer users are undisturbed, the less is to be held. *)
LEMMA HeldContended ==
  ASSUME NEW us, NEW bs, NEW cs, NEW ncs, cs \subseteq ncs, NEW p, Held(us, bs, cs, p)
  PROVE  Held(us, bs, ncs, p)
<1> SUFFICES ASSUME p.pc # "new"
             PROVE  /\ TargetHeld(bs, ncs, p) /\ UserHeld(us, ncs, p)
                    /\ Bounded(bs, ncs, p) /\ Covered(bs, ncs, p) /\ Shown(bs, ncs, p)
  BY DEF Held
<1>1. /\ TargetHeld(bs, cs, p) /\ UserHeld(us, cs, p)
      /\ Bounded(bs, cs, p) /\ Covered(bs, cs, p) /\ Shown(bs, cs, p)
  BY DEF Held
<1>2. NamesOf(cs) \subseteq NamesOf(ncs)
  BY DEF NamesOf
<1>3. Quiet(ncs, p.ask.user) => Quiet(cs, p.ask.user)
  BY <1>2 DEF Quiet
<1>4. TargetHeld(bs, ncs, p) /\ UserHeld(us, ncs, p)
  BY <1>1, <1>2 DEF TargetHeld, UserHeld
<1>5. Bounded(bs, ncs, p) /\ Covered(bs, ncs, p) /\ Shown(bs, ncs, p)
  BY <1>1, <1>3 DEF Bounded, Covered, Shown
<1> QED BY <1>4, <1>5

LEMMA SubmitKeeps ==
  ASSUME IInv, NEW r \in Requests, Submit(r)
  PROVE  IInv'
<1>1. PICK ask \in Asks :
        /\ requests' = [requests EXCEPT ![r] =
             [@ EXCEPT !.ask = ask, !.groups = ask.groups,
                       !.pc = CASE ask.op = "create" -> "create" [] ask.op = "update" -> "get"
                                [] ask.op = "edit" -> "read" [] ask.op = "delete" -> "list"]]
        /\ contended' = contended \cup {u \in {ask.user} : \E q \in Active : Login(q) = u}
  BY DEF Submit
<1> DEFINE pc == CASE ask.op = "create" -> "create" [] ask.op = "update" -> "get"
                   [] ask.op = "edit" -> "read" [] ask.op = "delete" -> "list"
           q == [requests[r] EXCEPT !.ask = ask, !.groups = ask.groups, !.pc = pc]
<1>2. /\ requests[r].pc = "new" /\ requests[r] = NewRequest /\ requests \in [Requests -> Request]
      /\ users \in [Users -> User \cup {Absent}] /\ fresh \subseteq Requests
      /\ bindings \in [BindingNames -> Binding \cup {Absent}] /\ Named(bindings)
      /\ contended \subseteq Users
      /\ UNCHANGED <<users, bindings, fresh>>
  BY DEF Submit, IInv, TypeOK, Place, At, SameUsers, SameBindings
<1>3. ask \in Ask /\ ask.user \in Users /\ ask.op \in {"create", "update", "edit", "delete"}
      /\ ask.groups \in SUBSET Groups /\ ask # Absent
  BY IdentityAssumption, AbsentApart DEF Ask
<1>4. /\ ask.op = "create" => pc = "create"
      /\ ask.op = "update" => pc = "get"
      /\ ask.op = "edit" => pc = "read"
      /\ ask.op = "delete" => pc = "list"
  OBVIOUS
<1>5. requests' = [requests EXCEPT ![r] = q]
  BY <1>1
<1> HIDE DEF pc
<1>6. /\ q \in Request /\ q.pc = pc /\ q.ask = ask /\ q.groups = ask.groups /\ q.add = {}
      /\ q.remove = {} /\ q.target = Absent
  <2>0. /\ NewRequest.add = {} /\ NewRequest.remove = {} /\ NewRequest.target = Absent
    BY DEF NewRequest
  <2>1. /\ requests[r] \in Request /\ requests[r].add = {} /\ requests[r].remove = {}
        /\ requests[r].target = Absent
    BY <1>2, <2>0
  <2>2. pc \in Locations
    BY <1>3, <1>4 DEF Locations
  <2> QED BY <1>3, <2>1, <2>2 DEF Request
<1> HIDE DEF q
<1>7. Place(q) /\ Sorted(q)
  BY <1>3, <1>4, <1>6 DEF Place, Sorted
<1>8. Held(users, bindings, contended', q)
  BY <1>3, <1>4, <1>6 DEF Held, TargetHeld, UserHeld, Bounded, Covered, Shown
<1>9. \A d \in Requests : requests'[d] = IF d = r THEN q ELSE requests[d]
  BY <1>2, <1>5
<1>10. contended \subseteq contended' /\ contended' \subseteq Users
  BY <1>1, <1>2, <1>3
<1>11. TypeOK'
  BY <1>2, <1>5, <1>6, <1>10 DEF TypeOK
<1>12. NoOverlap'
  <2>1. \A d \in Active' : d # r => d \in Active /\ requests'[d] = requests[d]
    BY <1>9 DEF Active, At
  <2>2. requests'[r].ask.user = ask.user
    BY <1>6, <1>9
  <2>3. ASSUME NEW d \in Active', d # r, requests'[d].ask.user = ask.user
        PROVE  ask.user \in contended'
    BY <1>1, <2>1, <2>3 DEF Login
  <2>4. ASSUME NEW d \in Active', NEW e \in Active', d # e, d # r, e # r,
               requests'[d].ask.user = requests'[e].ask.user
        PROVE  requests'[d].ask.user \in contended'
    BY <1>10, <2>1, <2>4 DEF IInv, NoOverlap, Login
  <2>5. ASSUME NEW d \in Active', NEW e \in Active', d # e,
               requests'[d].ask.user = requests'[e].ask.user
        PROVE  requests'[d].ask.user \in contended'
    BY <2>2, <2>3, <2>4, <2>5
  <2> QED BY <2>5 DEF NoOverlap, Login
<1>13. NoGhostMembership'
  <2>1. ASSUME NEW u \in Users \ contended', Ghost(users', bindings', u)
        PROVE  \E d \in Requests : requests'[d].ask # Absent /\ requests'[d].ask.user = u /\ requests'[d].ignored
    <3>1. PICK d \in Requests : requests[d].ask # Absent /\ requests[d].ask.user = u /\ requests[d].ignored
      BY <1>2, <1>10, <2>1 DEF IInv, NoGhostMembership, Ghost, Members, GroupsOf, Login
    <3>2. d # r
      BY <1>2, <3>1 DEF NewRequest
    <3> QED BY <1>9, <3>1, <3>2
  <2> QED BY <2>1 DEF NoGhostMembership, Ghost, Members, GroupsOf, Login
<1>14. ASSUME NEW d \in Requests
       PROVE  /\ Place(requests'[d]) /\ Sorted(requests'[d])
              /\ Held(users', bindings', contended', requests'[d])
  <2>1. CASE d = r
    BY <1>2, <1>7, <1>8, <1>9, <2>1
  <2>2. CASE d # r
    <3>1. requests'[d] = requests[d]
      BY <1>9, <2>2
    <3>2. Held(users, bindings, contended', requests[d])
      BY <1>10, HeldContended DEF IInv
    <3> QED BY <1>2, <3>1, <3>2 DEF IInv
  <2> QED BY <2>1, <2>2
<1>15. Named(bindings')
  BY <1>2
<1> QED BY <1>11, <1>12, <1>13, <1>14, <1>15 DEF IInv

LEMMA StepIs ==
  ASSUME IInv, NEW r \in Requests, Step(r)
  PROVE  Submit(r) \/ \E q : Good(r, q)
  BY ReadUserGood, ReadGroupsGood, CreateUserGood, GetUserGood, GetResourceVersionGood, UpdateUserGood,
     ListBindingsGood, BindGood, FindBindingGood, DeleteBindingGood, DeleteUserGood, CallFailsGood
  DEF Step

LEMMA InitInv == Init => IInv
<1> SUFFICES ASSUME Init PROVE IInv
  OBVIOUS
<1>1. NewRequest \in Request
  BY DEF NewRequest, Request, Locations
<1>2. users \in [Users -> User \cup {Absent}] /\ bindings \in [BindingNames -> Binding \cup {Absent}]
  BY DEF Init, User
<1>3. \A r \in Requests : requests[r] = NewRequest
  BY DEF Init
<1>4. TypeOK
  BY <1>1, <1>2 DEF Init, TypeOK
<1>5. Named(bindings) /\ NoOverlap
  BY <1>3 DEF Init, Named, NoOverlap, Active, At, NewRequest
<1>6. ASSUME NEW u \in Users, NEW g \in GroupsOf(u) PROVE users[u] # Absent
  <2>1. PICK b \in BindingNames : bindings[b] # Absent /\ bindings[b] = [user |-> u, group |-> g]
    BY <1>6 DEF GroupsOf
  <2>2. bindings[b].user = u
    BY <2>1
  <2> QED BY <2>1, <2>2 DEF Init
<1>7. Place(NewRequest) /\ Sorted(NewRequest) /\ Held(users, bindings, contended, NewRequest)
  BY DEF Place, Sorted, Held, NewRequest
<1> QED BY <1>3, <1>4, <1>5, <1>6, <1>7 DEF IInv, NoGhostMembership

LEMMA NextInv == IInv /\ [Next]_vars => IInv'
<1> SUFFICES ASSUME IInv, [Next]_vars PROVE IInv'
  OBVIOUS
<1>1. CASE Next
  BY <1>1, StepIs, SubmitKeeps, GoodKeeps DEF Next
<1>2. CASE UNCHANGED vars
  <2>1. /\ users' = users /\ bindings' = bindings /\ requests' = requests /\ fresh' = fresh
        /\ contended' = contended
    BY <1>2 DEF vars
  <2>2. TypeOK' /\ NoOverlap'
    BY <2>1 DEF IInv, TypeOK, NoOverlap, Active, At, Login
  <2>3. NoGhostMembership'
    BY <2>1 DEF IInv, NoGhostMembership, GroupsOf, Login
  <2>4. \A r \in Requests : /\ Place(requests'[r]) /\ Sorted(requests'[r])
                            /\ Held(users', bindings', contended', requests'[r])
    BY <2>1 DEF IInv
  <2> QED BY <2>1, <2>2, <2>3, <2>4 DEF IInv
<1> QED BY <1>1, <1>2

-----------------------------------------------------------------------------
(* The theorems. *)

(* Requests, users and bindings keep their types, whatever is asked. *)
THEOREM TypeCorrect == Spec => []TypeOK
<1>1. IInv => TypeOK
  BY DEF IInv
<1> QED BY <1>1, InitInv, NextInv, PTL DEF Spec

(* DeleteUser removes the bindings before the user: for any number of        *)
(* requests, a membership outlives its user only where an error was passed   *)
(* over or two requests worked on the user at once.                          *)
THEOREM NoGhostMembershipHolds == Spec => []NoGhostMembership
<1>1. IInv => NoGhostMembership
  BY DEF IInv
<1> QED BY <1>1, InitInv, NextInv, PTL DEF Spec

(* A step changes the locals of one request. *)
LEMMA OneRequest ==
  ASSUME IInv, NEW d \in Requests, Step(d), NEW r \in Requests, requests'[r] # requests[r]
  PROVE  d = r
<1>1. requests \in [Requests -> Request]
  BY DEF IInv, TypeOK
<1>2. CASE Submit(d)
  BY <1>1, <1>2 DEF Submit
<1>3. CASE \E q : Good(d, q)
  BY <1>1, <1>3 DEF Good
<1> QED BY <1>2, <1>3, StepIs

(* When a create or an update ends well, the memberships are as asked for. *)
LEMMA FinishesFulfilled ==
  ASSUME IInv, [Next]_vars, NEW r \in Requests, Finishes(r), Undisturbed(Login(r)), ~requests'[r].ignored
  PROVE  /\ Op(r) = "update" => GroupsOf(Login(r))' = requests[r].ask.groups
         /\ Op(r) = "create" => requests[r].ask.groups \subseteq GroupsOf(Login(r))'
<1>0. requests \in [Requests -> Request] /\ requests'[r] # requests[r]
  BY DEF Finishes, At, IInv, TypeOK
<1>1. Step(r)
  BY <1>0, OneRequest DEF Next, vars
<1>2. CASE Submit(r)
  <2>1. PICK ask \in Asks : requests'[r].pc = CASE ask.op = "create" -> "create" [] ask.op = "update" -> "get"
                                [] ask.op = "edit" -> "read" [] ask.op = "delete" -> "list"
    BY <1>0, <1>2 DEF Submit, Request
  <2>2. ask.op \in {"create", "update", "edit", "delete"}
    BY IdentityAssumption DEF Ask
  <2>3. requests'[r].pc # "done"
    BY <2>1, <2>2
  <2> QED BY <2>3 DEF Finishes
<1>3. CASE \E q : Good(r, q)
  <2>1. PICK q : Good(r, q)
    BY <1>3
  <2>2. requests'[r] = q /\ q.ask = requests[r].ask /\ Fulfilled(bindings', contended, q)
    BY <1>0, <2>1 DEF Good
  <2>3. Quiet(contended, q.ask.user)
    BY <2>2 DEF Undisturbed, Quiet, ContendedNames, NamesOf, Login
  <2>4. /\ q.ask.op = "update" => Members(bindings', q.ask.user) = q.ask.groups
        /\ q.ask.op = "create" => q.ask.groups \subseteq Members(bindings', q.ask.user)
    BY <2>2, <2>3 DEF Fulfilled, Finishes
  <2>5. GroupsOf(Login(r))' = Members(bindings', q.ask.user)
    BY <2>2 DEF GroupsOf, Members, Login
  <2> QED BY <2>2, <2>4, <2>5 DEF Op
<1> QED BY <1>1, <1>2, <1>3, StepIs

(* Nobody else changes an edit's user, and it has nothing to change itself. *)
LEMMA EditStep ==
  ASSUME IInv, [Next]_vars, NEW r \in Requests, requests[r].ask # Absent, Op(r) = "edit",
         ~requests[r].ignored, Undisturbed(Login(r)), requests'[r] # requests[r]
  PROVE  GroupsOf(Login(r))' = GroupsOf(Login(r))
<1>0. requests \in [Requests -> Request]
  BY DEF IInv, TypeOK
<1>1. Step(r)
  BY OneRequest DEF Next, vars
<1>2. ~At(r, "new")
  BY DEF IInv, Place, At, NewRequest
<1>3. PICK q : Good(r, q)
  BY <1>1, <1>2, StepIs DEF Submit
<1>4. Quiet(contended, requests[r].ask.user)
  BY DEF Undisturbed, Quiet, ContendedNames, NamesOf, Login
<1>5. ~At(r, "bind") /\ ~At(r, "unbind")
  BY <1>2, <1>4, AtWork DEF Shown, At, Op
<1>6. bindings' = bindings /\ requests'[r].ask = requests[r].ask
  BY <1>0, <1>3, <1>5 DEF Good, OthersSpared
<1> QED BY <1>6 DEF GroupsOf, Login

(* The hash that is written is the one that was read. *)
LEMMA PutStep ==
  ASSUME IInv, [Next]_vars, NEW r \in Requests, At(r, "put"), requests'[r].pc = "list",
         requests[r].ask.hash = Absent, Login(r) \notin contended
  PROVE  users'[Login(r)].hash = users[Login(r)].hash
<1>0. requests \in [Requests -> Request] /\ requests'[r] # requests[r]
  BY DEF IInv, TypeOK, At
<1>1. Step(r)
  BY <1>0, OneRequest DEF Next, vars
<1>2. ~At(r, "new")
  BY DEF At
<1>3. PICK q : Good(r, q)
  BY <1>1, <1>2, StepIs DEF Submit
<1>4. requests'[r] = q
  BY <1>0, <1>3 DEF Good
<1>5. users'[Login(r)].hash = requests[r].hash
  BY <1>3, <1>4 DEF Good
<1>6. requests[r].hash = users[Login(r)].hash
  BY <1>2, AtWork DEF UserHeld, At, Login
<1> QED BY <1>5, <1>6

(* Whoever else is at work: an update or a create that ends well leaves its  *)
(* user in the groups it was sent, an edit of something else in those it had *)
(* and a password that is not sent is kept, on the conditions the three      *)
(* properties name.                                                          *)
THEOREM ChangesAsAskedHolds == Spec => ChangesAsAsked
<1>1. IInv /\ [Next]_vars =>
        [\A r \in Requests : Finishes(r) /\ Undisturbed(Login(r)) /\ ~requests'[r].ignored
           => /\ Op(r) = "update" => GroupsOf(Login(r))' = requests[r].ask.groups
              /\ Op(r) = "create" => requests[r].ask.groups \subseteq GroupsOf(Login(r))']_vars
  BY FinishesFulfilled
<1>2. IInv /\ [Next]_vars =>
        [\A r \in Requests :
           /\ requests[r].ask # Absent /\ Op(r) = "edit" /\ ~requests[r].ignored
           /\ Undisturbed(Login(r)) /\ requests'[r] # requests[r]
           => GroupsOf(Login(r))' = GroupsOf(Login(r))]_vars
  BY EditStep
<1>3. IInv /\ [Next]_vars =>
        [\A r \in Requests :
           /\ At(r, "put") /\ requests'[r].pc = "list" /\ requests[r].ask.hash = Absent
           /\ Login(r) \notin contended
           => users'[Login(r)].hash = users[Login(r)].hash]_vars
  BY PutStep
<1> QED BY <1>1, <1>2, <1>3, InitInv, NextInv, PTL
        DEF Spec, ChangesAsAsked, MembershipAsAsked, EditKeepsGroups, PasswordKept

(* DeleteGroupBindingByRef deletes by name what it found by reference: it    *)
(* is still the user's own, unless two requests worked on a user of the name. *)
THEOREM NoStolenMembershipHolds == Spec => NoStolenMembership
<1>1. ASSUME IInv, [Next]_vars, NEW r \in Requests, NEW b \in BindingNames,
             At(r, "unbind"), requests'[r] # requests[r], bindings[b] # Absent, bindings'[b] = Absent
      PROVE  bindings[b].user = Login(r) \/ b \in ContendedNames
  <2>1. Step(r)
    BY <1>1, OneRequest DEF Next, vars
  <2>2. ~At(r, "new") /\ ~At(r, "bind")
    BY <1>1 DEF At
  <2>3. PICK q : Good(r, q)
    BY <1>1, <2>1, <2>2, StepIs DEF Submit
  <2>4. bindings \in [BindingNames -> Binding \cup {Absent}]
    BY <1>1 DEF IInv, TypeOK
  <2>5. b = requests[r].target
    BY <1>1, <2>2, <2>3, <2>4 DEF Good, OthersSpared, Unbound
  <2> QED BY <1>1, <2>2, <2>5, AtWork DEF TargetHeld, At, Login, ContendedNames, NamesOf
<1>2. IInv /\ [Next]_vars =>
        [\A r \in Requests, b \in BindingNames :
           /\ At(r, "unbind") /\ requests'[r] # requests[r]
           /\ bindings[b] # Absent /\ bindings'[b] = Absent
           => bindings[b].user = Login(r) \/ b \in ContendedNames]_vars
  BY <1>1
<1> QED BY <1>2, InitInv, NextInv, PTL DEF Spec, NoStolenMembership
=============================================================================
