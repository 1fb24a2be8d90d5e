--------------------------- MODULE Secrets_proofs ---------------------------
(***************************************************************************)
(* Proofs about SecretStores and ExternalSecrets for any number of         *)
(* requests, stores and external secrets.                                  *)
(***************************************************************************)
EXTENDS ExternalSecrets, TLAPS

(* The state as parameters, so that a fact about the next state is one about *)
(* other values: st for stores, se for secrets, cs for contended, tk for     *)
(* taken, p for a request.                                                   *)
Uses(st, n) == st[n] # Absent /\ st[n].auth = "token"
Defs(st) == {n \in Stores : st[n] # Absent /\ st[n].isDefault}

(* The places of a request that has settled its credentials, and those of    *)
(* an update that has read its store and not yet written it.                 *)
After == {"listDefaults", "unlabel", "create", "rvGet", "put"}
Before == {"check", "secretGet", "secretPut", "listDefaults", "unlabel", "rvGet", "put"}

(* What the place of a request in its handler says of its locals. *)
Place(p) ==
  /\ p.pc = "new" => p = NewRequest
  /\ p.pc # "new" => p.ask \in Ask
  /\ p.pc \in {"get", "check", "secretGet", "secretPut"} => ~p.wrote
  /\ p.pc = "get" => p.ask.op # "create"
  /\ p.pc \in {"check", "rvGet", "put"} => p.ask.op = "update"
  /\ p.pc \in {"secretGet", "secretPut"} => p.ask.op # "delete" /\ p.ask.auth = "token" /\ p.ask.token
  /\ p.pc \in {"listDefaults", "unlabel"} => p.ask.op # "delete" /\ p.ask.isDefault
  /\ p.pc = "create" => p.ask.op = "create"
  /\ p.pc = "readBack" => p.ask.op # "delete"
  /\ p.pc = "delete" => p.ask.op = "delete"
  /\ p.pc = "dropSecret" => \/ p.ask.op = "delete" /\ ~p.wrote
                            \/ p.ask.op = "update" /\ p.ask.auth # "token"
  /\ p.pc \in After /\ p.ask.auth = "token" /\ ~p.ask.token => p.ask.op = "update" /\ p.used
  /\ p.pc = "done" /\ p.wrote => p.code # "400"

(* What a request knows of its store when nobody else works on it. *)
Held(st, se, cs, tk, p) ==
  p.pc # "new" /\ p.ask.name \notin cs =>
    /\ p.pc \in Before /\ p.ask.op = "update" =>
         /\ st[p.ask.name] # Absent /\ p.account = st[p.ask.name].account
         /\ p.used <=> st[p.ask.name].auth = "token"
    /\ p.pc \in {"dropSecret", "delete", "readBack"} => st[p.ask.name] # Absent
    /\ p.pc = "dropSecret" /\ p.ask.op = "update" => ~Uses(st, p.ask.name)
    /\ p.pc \in After /\ p.ask.auth = "token" /\ p.ask.token => se[p.ask.name] = "store" \/ p.ask.name \in tk
    /\ p.pc = "delete" /\ se[p.ask.name] = "store" => p.secretLeft
    /\ p.pc = "done" /\ p.wrote => p.code # "404"

(* The request stands between storing a token and using it, or between       *)
(* giving up its use and dropping it.                                        *)
Responsible(p) ==
  \/ p.pc \in After /\ p.ask.auth = "token" /\ p.ask.token
  \/ p.pc = "dropSecret" /\ p.ask.op = "update"

(* Why the token of n is there and not used. *)
Explains(p, n) ==
  /\ p.pc # "new" /\ p.ask.name = n
  /\ \/ p.secretLeft
     \/ p.pc = "done" /\ p.code # "2xx"
     \/ Responsible(p)

(* A delete that has taken the Secret, and not yet the store or never. *)
Half(p, n) ==
  /\ p.pc # "new" /\ p.ask.name = n /\ p.ask.op = "delete" /\ p.wrote
  /\ p.pc = "delete" \/ (p.pc = "done" /\ p.code # "2xx")

(* The token of a store is there or a delete has taken it; and it is taken   *)
(* for nobody else's by the update that drops it.                            *)
TokenHeld(st, se, cs, n) ==
  n \notin cs /\ Uses(st, n) => se[n] = "store" \/ n \in taken \/ \E r \in Requests : Half(requests[r], n)
DropHeld(se, cs, p) ==
  p.pc = "dropSecret" /\ p.ask.op = "update" /\ p.ask.name \notin cs
    => \/ se[p.ask.name] = "store" \/ p.ask.name \in taken
       \/ \E r \in Requests : Half(requests[r], p.ask.name)
LeftExplained(st, se, cs, n) ==
  n \notin cs /\ se[n] = "store" /\ ~Uses(st, n) => \E r \in Requests : Explains(requests[r], n)

(* The request has unlabelled the defaults, or will. *)
Cleared(st, p) ==
  /\ p.pc = "unlabel" => Defs(st) \subseteq p.doomed
  /\ p.pc \in {"create", "rvGet", "put"} /\ p.ask.isDefault => Defs(st) = {}
AtMostOne(st) == \A m, n \in Defs(st) : m = n
DefaultsHeld ==
  raced \/ (\E r \in Requests : requests[r].labelLeft)
    \/ (AtMostOne(stores) /\ \A r \in Requests : Cleared(stores, requests[r]))

(* Two requests at once on one store, or for the default, are noticed. *)
NoOverlap ==
  \A r, d \in Active : r # d =>
    /\ Name(r) = Name(d) => Name(r) \in contended
    /\ requests[r].ask.isDefault /\ requests[d].ask.isDefault => raced

(* A store whose version somebody holds is there. *)
FreshThere == \A p \in fresh : stores[p[2]] # Absent

(* The inductive invariant of the stores. *)
SInv ==
  /\ StoresTypeOK /\ FreshThere /\ NoOverlap /\ DefaultsHeld
  /\ \A n \in Stores : TokenHeld(stores, secrets, contended, n) /\ LeftExplained(stores, secrets, contended, n)
  /\ \A r \in Requests : /\ Place(requests[r]) /\ Held(stores, secrets, contended, taken, requests[r])
                         /\ DropHeld(secrets, contended, requests[r])

(* A job about to write has seen the store it names. *)
JobHeld(st, rm, k) ==
  /\ k.pc # "new" => k.op \in {"create", "update", "delete"} /\ k.name \in Externals
  /\ k.pc \in {"store", "create", "rvGet", "put"} \/ (k.pc = "get" /\ k.op = "update") => k.store \in Stores
  /\ k.pc \in {"create", "rvGet", "put"} => st[k.store] # Absent \/ k.store \in rm

IInv ==
  /\ SInv /\ TypeOK /\ RefersToStore
  /\ \A j \in Jobs : JobHeld(stores, removed, jobs[j])

-----------------------------------------------------------------------------
(* A step of a request as what it makes of the request and of the objects. *)

(* The same store, up to the default label. *)
SameAuth(s, t) == (s = Absent <=> t = Absent) /\ s.auth = t.auth /\ s.account = t.account

(* A step writes the Secret of its own store only, and takes from the other  *)
(* stores the label at most.                                                 *)
Spared(r) ==
  \A m \in Stores \ {Name(r)} : secrets'[m] = secrets[m] /\ SameAuth(stores[m], stores'[m])

(* What the step leaves under the name of its store. *)
Tokens(r, q) ==
  Name(r) \notin contended =>
    /\ Uses(stores', Name(r)) =>
         \/ secrets'[Name(r)] = "store" \/ Name(r) \in taken \/ Half(q, Name(r))
         \/ \E d \in Requests \ {r} : Half(requests[d], Name(r))
    /\ secrets'[Name(r)] = "store" /\ ~Uses(stores', Name(r)) =>
         Explains(q, Name(r)) \/ \E d \in Requests \ {r} : Explains(requests[d], Name(r))
    /\ q.pc = "dropSecret" /\ Op(r) = "update" =>
         \/ secrets'[Name(r)] = "store" \/ Name(r) \in taken
         \/ \E d \in Requests \ {r} : Half(requests[d], Name(r))

(* What it makes of the defaults. *)
OneMore(r, q) ==
  /\ ~q.labelLeft /\ AtMostOne(stores) /\ Cleared(stores, requests[r]) => AtMostOne(stores') /\ Cleared(stores', q)
  /\ ~requests[r].ask.isDefault => Defs(stores') \subseteq Defs(stores)

Good(r, q) ==
  /\ q \in Request /\ requests' = [requests EXCEPT ![r] = q]
  /\ requests[r].pc \notin {"new", "done"} /\ q.pc # "new"
  /\ q.ask = requests[r].ask /\ (requests[r].labelLeft => q.labelLeft)
  /\ contended' = contended /\ raced' = raced /\ bound' = bound /\ taken' = taken
  /\ stores' \in [Stores -> Store \cup {Absent}] /\ secrets' \in [Stores -> SecretOrAbsent]
  /\ fresh' \subseteq Requests \X Stores /\ FreshThere'
  /\ Spared(r) /\ Tokens(r, q) /\ OneMore(r, q)
  /\ Place(q) /\ Held(stores', secrets', contended, taken, q)
  /\ At(r, "put") => stores' = stores \/ stores' = [stores EXCEPT ![Name(r)] = NewStore(r)]
  /\ secrets'[Name(r)] # secrets[Name(r)] => At(r, "dropSecret") \/ requests[r].ask.token

-----------------------------------------------------------------------------
(* A good step keeps the invariant. *)

LEMMA AbsentApart == Absent \notin Accounts /\ Absent \notin Store /\ Absent \notin Ask
  BY SecretStoresAssumption

LEMMA HeldElsewhere ==
  ASSUME NEW st, NEW nst, NEW se, NEW nse, NEW cs, NEW ncs, cs \subseteq ncs, NEW tk,
         NEW p, Held(st, se, cs, tk, p),
         p.ask.name \notin ncs =>
           /\ SameAuth(st[p.ask.name], nst[p.ask.name])
           /\ se[p.ask.name] = "store" <=> nse[p.ask.name] = "store"
  PROVE  Held(nst, nse, ncs, tk, p)
<1> SUFFICES ASSUME p.pc # "new", p.ask.name \notin ncs
             PROVE  Held(nst, nse, ncs, tk, p)
  BY DEF Held
<1>1. p.ask.name \notin cs
  OBVIOUS
<1> QED BY <1>1 DEF Held, SameAuth, Uses

(* What a request at work knows. *)
LEMMA AtWork ==
  ASSUME SInv, NEW r \in Requests, ~At(r, "new")
  PROVE  /\ requests[r] \in Request /\ requests[r].ask \in Ask /\ Name(r) \in Stores
         /\ Place(requests[r]) /\ Held(stores, secrets, contended, taken, requests[r])
         /\ DropHeld(secrets, contended, requests[r])
         /\ requests \in [Requests -> Request] /\ stores \in [Stores -> Store \cup {Absent}]
         /\ secrets \in [Stores -> SecretOrAbsent] /\ fresh \subseteq Requests \X Stores /\ FreshThere
<1>1. /\ requests[r] \in Request /\ Place(requests[r]) /\ Held(stores, secrets, contended, taken, requests[r])
      /\ DropHeld(secrets, contended, requests[r])
      /\ requests \in [Requests -> Request] /\ stores \in [Stores -> Store \cup {Absent}]
      /\ secrets \in [Stores -> SecretOrAbsent] /\ fresh \subseteq Requests \X Stores /\ FreshThere
  BY DEF SInv, StoresTypeOK
<1>2. requests[r].ask \in Ask
  BY <1>1 DEF Place, At
<1>3. Name(r) \in Stores
  BY <1>2 DEF Name, Ask
<1> QED BY <1>1, <1>2, <1>3

LEMMA GoodKeepsRequests ==
  ASSUME SInv, NEW r \in Requests, NEW q, Good(r, q), NEW d \in Requests, d # r
  PROVE  Held(stores', secrets', contended, taken, requests[d])
<1> DEFINE p == requests[d]
<1>1. Held(stores, secrets, contended, taken, p) /\ Place(p) /\ r \in Active
  BY DEF SInv, Good, Active, At
<1>2. CASE p.pc = "new"
  BY <1>2 DEF Held
<1>3. CASE p.pc = "done"
  BY <1>1, <1>3 DEF Held, After, Before
<1>4. CASE p.pc \notin {"new", "done"} /\ p.ask.name = Name(r)
  <2>1. p.ask.name \in contended
    BY <1>1, <1>4 DEF SInv, NoOverlap, Active, At, Name
  <2> QED BY <2>1 DEF Held
<1>5. CASE p.pc \notin {"new", "done"} /\ p.ask.name # Name(r)
  <2>1. p.ask.name \in Stores
    BY <1>1, <1>5 DEF Place, Ask
  <2>2. /\ SameAuth(stores[p.ask.name], stores'[p.ask.name])
        /\ secrets[p.ask.name] = "store" <=> secrets'[p.ask.name] = "store"
    BY <1>5, <2>1 DEF Good, Spared
  <2> HIDE DEF p
  <2>3. Held(stores', secrets', contended, taken, p)
    BY <1>1, <2>2, HeldElsewhere
  <2> QED BY <2>3 DEF p
<1> QED BY <1>2, <1>3, <1>4, <1>5

LEMMA GoodKeepsTokens ==
  ASSUME SInv, NEW r \in Requests, NEW q, Good(r, q), NEW n \in Stores, n \notin contended
  PROVE  /\ Uses(stores', n) => secrets'[n] = "store" \/ n \in taken \/ \E d \in Requests : Half(requests'[d], n)
         /\ secrets'[n] = "store" /\ ~Uses(stores', n) => \E d \in Requests : Explains(requests'[d], n)
<1>1. requests' = [requests EXCEPT ![r] = q] /\ requests \in [Requests -> Request]
  BY DEF Good, SInv, StoresTypeOK
<1>2. requests'[r] = q /\ \A d \in Requests \ {r} : requests'[d] = requests[d]
  BY <1>1
<1>3. CASE n = Name(r)
  BY <1>2, <1>3 DEF Good, Tokens
<1>4. CASE n # Name(r)
  <2>1. SameAuth(stores[n], stores'[n]) /\ secrets'[n] = secrets[n]
    BY <1>4 DEF Good, Spared
  <2>2. Uses(stores', n) <=> Uses(stores, n)
    BY <2>1 DEF Uses, SameAuth
  <2>3. ~Half(requests[r], n) /\ ~Explains(requests[r], n)
    BY <1>4 DEF Half, Explains, Name
  <2>4. TokenHeld(stores, secrets, contended, n) /\ LeftExplained(stores, secrets, contended, n)
    BY DEF SInv
  <2>5. Uses(stores', n) => secrets'[n] = "store" \/ n \in taken \/ \E d \in Requests : Half(requests'[d], n)
    BY <1>2, <2>1, <2>2, <2>3, <2>4 DEF TokenHeld
  <2>6. secrets'[n] = "store" /\ ~Uses(stores', n) => \E d \in Requests : Explains(requests'[d], n)
    BY <1>2, <2>1, <2>2, <2>3, <2>4 DEF LeftExplained
  <2> QED BY <2>5, <2>6
<1> QED BY <1>3, <1>4

LEMMA GoodKeepsDrop ==
  ASSUME SInv, NEW r \in Requests, NEW q, Good(r, q), NEW d \in Requests,
         requests'[d].pc = "dropSecret", requests'[d].ask.op = "update", requests'[d].ask.name \notin contended
  PROVE  \/ secrets'[requests'[d].ask.name] = "store" \/ requests'[d].ask.name \in taken
         \/ \E e \in Requests : Half(requests'[e], requests'[d].ask.name)
<1>1. requests' = [requests EXCEPT ![r] = q] /\ requests \in [Requests -> Request]
  BY DEF Good, SInv, StoresTypeOK
<1>2. requests'[r] = q /\ \A e \in Requests \ {r} : requests'[e] = requests[e]
  BY <1>1
<1>3. CASE d = r
  <2>1. q.ask = requests[r].ask
    BY DEF Good
  <2>2. secrets'[Name(r)] = "store" \/ Name(r) \in taken \/ \E e \in Requests \ {r} : Half(requests[e], Name(r))
    BY <1>2, <1>3, <2>1 DEF Good, Tokens, Name, Op
  <2> QED BY <1>2, <1>3, <2>1, <2>2 DEF Name
<1>4. CASE d # r
  <2> DEFINE p == requests[d]
  <2>1. requests'[d] = p
    BY <1>2, <1>4
  <2>2. d \in Active /\ r \in Active /\ p.ask.name \in Stores
    BY <2>1 DEF Active, At, Good, SInv, Place, Ask
  <2>3. p.ask.name # Name(r)
    BY <1>4, <2>1, <2>2 DEF SInv, NoOverlap, Name
  <2>4. secrets'[p.ask.name] = secrets[p.ask.name]
    BY <2>2, <2>3 DEF Good, Spared
  <2>5. secrets[p.ask.name] = "store" \/ p.ask.name \in taken \/ \E e \in Requests : Half(requests[e], p.ask.name)
    BY <2>1 DEF SInv, DropHeld
  <2>6. ~Half(requests[r], p.ask.name)
    BY <2>3 DEF Half, Name
  <2> QED BY <1>2, <2>1, <2>4, <2>5, <2>6
<1> QED BY <1>3, <1>4

LEMMA GoodKeepsDefaults ==
  ASSUME SInv, NEW r \in Requests, NEW q, Good(r, q)
  PROVE  DefaultsHeld'
<1>1. /\ requests' = [requests EXCEPT ![r] = q] /\ requests \in [Requests -> Request] /\ raced' = raced
      /\ r \in Active /\ OneMore(r, q) /\ (requests[r].labelLeft => q.labelLeft)
  BY DEF Good, SInv, StoresTypeOK, Active, At
<1>2. requests'[r] = q /\ \A d \in Requests \ {r} : requests'[d] = requests[d]
  BY <1>1
<1>3. SUFFICES ASSUME ~raced, \A d \in Requests : ~requests'[d].labelLeft
               PROVE  AtMostOne(stores') /\ \A d \in Requests : Cleared(stores', requests'[d])
  BY <1>1 DEF DefaultsHeld, AtMostOne, Cleared, Defs
<1>4. \A d \in Requests : ~requests[d].labelLeft
  BY <1>1, <1>2, <1>3
<1>5. AtMostOne(stores) /\ \A d \in Requests : Cleared(stores, requests[d])
  BY <1>3, <1>4 DEF SInv, DefaultsHeld
<1>6. AtMostOne(stores') /\ Cleared(stores', q)
  BY <1>1, <1>2, <1>3, <1>5 DEF OneMore
<1>7. ASSUME NEW d \in Requests, d # r PROVE Cleared(stores', requests[d])
  <2>1. Place(requests[d])
    BY DEF SInv
  <2>2. CASE requests[d].pc \notin {"unlabel", "create", "rvGet", "put"} \/ ~requests[d].ask.isDefault
    BY <2>1, <2>2 DEF Cleared, Place
  <2>3. CASE requests[d].pc \in {"unlabel", "create", "rvGet", "put"} /\ requests[d].ask.isDefault
    <3>1. ~requests[r].ask.isDefault
      BY <1>1, <1>3, <1>7, <2>3 DEF SInv, NoOverlap, Active, At
    <3>2. Defs(stores') \subseteq Defs(stores)
      BY <1>1, <3>1 DEF OneMore
    <3> QED BY <1>5, <3>2 DEF Cleared
  <2> QED BY <2>2, <2>3
<1> QED BY <1>2, <1>6, <1>7

LEMMA GoodKeeps ==
  ASSUME SInv, NEW r \in Requests, NEW q, Good(r, q)
  PROVE  SInv'
<1>1. /\ requests' = [requests EXCEPT ![r] = q] /\ requests \in [Requests -> Request]
      /\ contended' = contended /\ raced' = raced /\ taken' = taken /\ r \in Active /\ q.pc # "new"
      /\ q.ask = requests[r].ask /\ q \in Request
  BY DEF Good, SInv, StoresTypeOK, Active, At
<1>2. requests'[r] = q /\ \A d \in Requests \ {r} : requests'[d] = requests[d]
  BY <1>1
<1>3. StoresTypeOK' /\ FreshThere'
  BY <1>1 DEF SInv, StoresTypeOK, Good
<1>4. NoOverlap'
  <2>1. \A d \in Active' : d \in Active /\ requests'[d].ask = requests[d].ask
    BY <1>1, <1>2 DEF Active, At
  <2> QED BY <1>1, <2>1 DEF SInv, NoOverlap, Name
<1>5. DefaultsHeld'
  BY GoodKeepsDefaults
<1>6. \A n \in Stores : (TokenHeld(stores, secrets, contended, n) /\ LeftExplained(stores, secrets, contended, n))'
  BY <1>1, GoodKeepsTokens DEF TokenHeld, LeftExplained
<1>7. ASSUME NEW d \in Requests
      PROVE  (/\ Place(requests[d]) /\ Held(stores, secrets, contended, taken, requests[d])
              /\ DropHeld(secrets, contended, requests[d]))'
  <2>1. DropHeld(secrets, contended, requests[d])'
    BY <1>1, GoodKeepsDrop DEF DropHeld
  <2>2. CASE d = r
    BY <1>1, <1>2, <2>1, <2>2 DEF Good
  <2>3. CASE d # r
    BY <1>1, <1>2, <2>1, <2>3, GoodKeepsRequests DEF SInv
  <2> QED BY <2>2, <2>3
<1> QED BY <1>3, <1>4, <1>5, <1>6, <1>7 DEF SInv

-----------------------------------------------------------------------------
(* Every step of a request but Submit is good.  First the steps that leave   *)
(* the objects alone.                                                        *)

LEMMA SameAuthRefl == \A s : SameAuth(s, s)
  BY DEF SameAuth

LEMMA MoveGood ==
  ASSUME SInv, NEW r \in Requests, requests[r].pc \notin {"new", "done"},
         NEW q \in Request, requests' = [requests EXCEPT ![r] = q],
         q.pc # "new", q.ask = requests[r].ask, requests[r].labelLeft => q.labelLeft,
         UNCHANGED <<stores, secrets, contended, raced, bound, taken>>,
         fresh' \subseteq Requests \X Stores, FreshThere',
         Place(q), Held(stores, secrets, contended, taken, q),
         q.pc = "dropSecret" => Op(r) # "update",
         Half(requests[r], Name(r)) => Half(q, Name(r)),
         Explains(requests[r], Name(r)) => Explains(q, Name(r)),
         ~q.labelLeft /\ Cleared(stores, requests[r]) => Cleared(stores, q)
  PROVE  \E p : Good(r, p)
<1>1. /\ ~At(r, "new") /\ stores \in [Stores -> Store \cup {Absent}]
      /\ secrets \in [Stores -> SecretOrAbsent] /\ Name(r) \in Stores
  BY AtWork DEF At
<1>2. Spared(r)
  BY SameAuthRefl DEF Spared
<1>3. Tokens(r, q)
  <2>1. TokenHeld(stores, secrets, contended, Name(r)) /\ LeftExplained(stores, secrets, contended, Name(r))
    BY <1>1 DEF SInv
  <2> QED BY <2>1 DEF Tokens, TokenHeld, LeftExplained
<1>4. OneMore(r, q)
  BY DEF OneMore
<1>5. Good(r, q)
  BY <1>1, <1>2, <1>3, <1>4 DEF Good
<1> QED BY <1>5

LEMMA AnsweredIs ==
  ASSUME NEW q \in Request, NEW err \in {"none", "Invalid", "NotFound", "AlreadyExists", "Other"}
  PROVE  LET p == Answered(q, err)
         IN  /\ p \in Request /\ p.pc = "done" /\ p.ask = q.ask /\ p.wrote = q.wrote
             /\ p.labelLeft = q.labelLeft /\ p.secretLeft = q.secretLeft
             /\ p.code = "2xx" <=> err = "none"
             /\ p.code = "400" => err = "Invalid"
             /\ p.code = "404" => err = "NotFound"
<1> DEFINE code == StatusOf(q.ask.op, err)
<1>1. /\ code \in Codes /\ (code = "2xx" <=> err = "none")
      /\ code = "400" => err = "Invalid"
      /\ code = "404" => err = "NotFound"
  BY DEF StatusOf, Codes
<1> HIDE DEF code
<1>2. LET p == Answered(q, err)
      IN  /\ p \in Request /\ p.pc = "done" /\ p.ask = q.ask /\ p.wrote = q.wrote
          /\ p.labelLeft = q.labelLeft /\ p.secretLeft = q.secretLeft
          /\ p.code = code
  BY <1>1 DEF Answered, Request, Locations, code
<1> QED BY <1>1, <1>2

(* A request is answered with an error. *)
LEMMA AnswerGood ==
  ASSUME SInv, NEW r \in Requests, requests[r].pc \notin {"new", "done"},
         NEW err \in {"Invalid", "NotFound", "AlreadyExists", "Other"}, Answer(r, err),
         UNCHANGED <<stores, secrets, fresh, contended, raced, bound, taken>>,
         requests[r].wrote => /\ err # "Invalid"
                              /\ err = "NotFound" => Name(r) \in contended
  PROVE  \E p : Good(r, p)
<1> DEFINE q == Answered(requests[r], err)
<1>1. /\ requests[r] \in Request /\ requests[r].ask \in Ask /\ fresh \subseteq Requests \X Stores
      /\ FreshThere /\ ~At(r, "new")
  BY AtWork DEF At
<1>2. requests' = [requests EXCEPT ![r] = q]
  BY DEF Answer
<1>3. /\ q \in Request /\ q.pc = "done" /\ q.ask = requests[r].ask
      /\ q.wrote = requests[r].wrote
      /\ q.labelLeft = requests[r].labelLeft /\ q.secretLeft = requests[r].secretLeft
      /\ q.code # "2xx" /\ (q.code = "400" => err = "Invalid") /\ (q.code = "404" => err = "NotFound")
  BY <1>1, AnsweredIs
<1> HIDE DEF q
<1>4. Place(q)
  BY <1>1, <1>3 DEF Place, After
<1>5. Held(stores, secrets, contended, taken, q)
  BY <1>3 DEF Held, After, Before, Name
<1>6. Half(requests[r], Name(r)) => Half(q, Name(r))
  BY <1>3 DEF Half, Name
<1>7. Explains(q, Name(r))
  BY <1>3 DEF Explains, Name
<1>8. Cleared(stores, q) /\ q.pc # "new" /\ q.pc # "dropSecret" /\ FreshThere'
  BY <1>1, <1>3 DEF Cleared, FreshThere
<1> QED BY <1>1, <1>2, <1>3, <1>4, <1>5, <1>6, <1>7, <1>8, MoveGood

LEMMA GetStoreGood ==
  ASSUME SInv, NEW r \in Requests, GetStore(r)
  PROVE  \E q : Good(r, q)
<1>1. /\ requests[r].pc = "get" /\ ~At(r, "new")
      /\ UNCHANGED <<stores, secrets, fresh, contended, raced, bound, taken>>
  BY DEF GetStore, At, SameStores, SameContext
<1>2. /\ requests[r] \in Request /\ requests[r].ask \in Ask /\ Name(r) \in Stores
      /\ requests \in [Requests -> Request] /\ stores \in [Stores -> Store \cup {Absent}]
      /\ fresh \subseteq Requests \X Stores /\ FreshThere
      /\ ~requests[r].wrote /\ requests[r].ask.op # "create"
  BY <1>1, AtWork DEF Place
<1>3. CASE Answer(r, "NotFound")
  BY <1>1, <1>2, <1>3, AnswerGood
<1>4. CASE /\ stores[Name(r)] # Absent
           /\ requests' = [requests EXCEPT ![r].pc = IF Op(r) = "delete" THEN "dropSecret" ELSE "check",
                                           ![r].used = UsesToken(Name(r)),
                                           ![r].account = stores[Name(r)].account]
  <2> DEFINE pc == IF Op(r) = "delete" THEN "dropSecret" ELSE "check"
             used == UsesToken(Name(r))
             account == stores[Name(r)].account
             q == [requests[r] EXCEPT !.pc = pc, !.used = used, !.account = account]
  <2>1. requests' = [requests EXCEPT ![r] = q]
    BY <1>2, <1>4 DEF Request
  <2>2. pc \in Locations /\ used \in BOOLEAN /\ account \in Accounts \cup {Absent}
    BY <1>2, <1>4 DEF Locations, UsesToken, Store
  <2>3. /\ pc = "dropSecret" <=> Op(r) = "delete"
        /\ pc = "check" <=> Op(r) # "delete"
        /\ used <=> stores[Name(r)].auth = "token"
    BY <1>4 DEF UsesToken
  <2> HIDE DEF pc, used, account
  <2>4. /\ q \in Request /\ q.pc = pc /\ q.used = used /\ q.account = account /\ q.ask = requests[r].ask
        /\ q.wrote = requests[r].wrote
        /\ q.labelLeft = requests[r].labelLeft /\ q.secretLeft = requests[r].secretLeft
    BY <1>2, <2>2 DEF Request
  <2> HIDE DEF q
  <2>5. Op(r) \in {"update", "delete"} /\ pc \in {"check", "dropSecret"}
    BY <1>2, <2>3 DEF Op, Ask
  <2>6. Place(q)
    BY <1>2, <2>3, <2>4, <2>5 DEF Place, Op, After
  <2>7. Held(stores, secrets, contended, taken, q)
    BY <1>4, <2>3, <2>4, <2>5 DEF Held, After, Before, Op, Name, account
  <2>8. ~Half(requests[r], Name(r)) /\ (Explains(requests[r], Name(r)) => Explains(q, Name(r)))
    BY <1>1, <2>4, <2>5 DEF Half, Explains, Responsible, After
  <2>9. Cleared(stores, q) /\ q.pc # "new" /\ FreshThere'
    BY <1>1, <1>2, <2>4, <2>5 DEF Cleared, FreshThere
  <2>10. q.pc = "dropSecret" => Op(r) # "update"
    BY <2>3, <2>4
  <2> QED BY <1>1, <1>2, <2>1, <2>4, <2>6, <2>7, <2>8, <2>9, <2>10, MoveGood
<1> QED BY <1>3, <1>4 DEF GetStore

(* A step within the part of a request that has settled nothing yet, or from *)
(* there to where it has.                                                    *)
LEMMA CheckUpdateGood ==
  ASSUME SInv, NEW r \in Requests, CheckUpdate(r)
  PROVE  \E q : Good(r, q)
<1> DEFINE ask == requests[r].ask
<1>1. /\ requests[r].pc = "check" /\ ~At(r, "new")
      /\ UNCHANGED <<stores, secrets, fresh, contended, raced, bound, taken>>
  BY DEF CheckUpdate, At, SameStores, SameContext
<1>2. /\ requests[r] \in Request /\ ask \in Ask /\ Name(r) \in Stores
      /\ requests \in [Requests -> Request] /\ Held(stores, secrets, contended, taken, requests[r])
      /\ fresh \subseteq Requests \X Stores /\ FreshThere
      /\ ~requests[r].wrote /\ ask.op = "update"
  BY <1>1, AtWork DEF Place
<1>3. CASE Answer(r, "Invalid")
  BY <1>1, <1>2, <1>3, AnswerGood
<1> DEFINE pc == IF ask.auth = "token" /\ ask.token THEN "secretGet" ELSE AfterSecret(ask)
<1>4. CASE ~(ask.auth = "token" /\ ~ask.token /\ ~requests[r].used) /\ Goto(r, pc)
  <2> DEFINE q == [requests[r] EXCEPT !.pc = pc]
  <2>1. requests' = [requests EXCEPT ![r] = q]
    BY <1>2, <1>4 DEF Request, Goto
  <2>2. /\ pc \in {"secretGet", "listDefaults", "rvGet"}
        /\ pc = "secretGet" <=> ask.auth = "token" /\ ask.token
        /\ pc = "listDefaults" => ask.isDefault
        /\ pc = "rvGet" => ~ask.isDefault
    BY <1>2 DEF AfterSecret
  <2> HIDE DEF pc
  <2>3. /\ q \in Request /\ q.pc = pc /\ q.used = requests[r].used /\ q.account = requests[r].account
        /\ q.ask = ask /\ q.wrote = requests[r].wrote
        /\ q.labelLeft = requests[r].labelLeft /\ q.secretLeft = requests[r].secretLeft
    BY <1>2, <2>2 DEF Request, Locations
  <2> HIDE DEF q
  <2>4. Place(q)
    BY <1>2, <1>4, <2>2, <2>3 DEF Place, After
  <2>5. Held(stores, secrets, contended, taken, q)
    BY <1>1, <1>2, <2>2, <2>3 DEF Held, After, Before
  <2>6. ~Half(requests[r], Name(r)) /\ (Explains(requests[r], Name(r)) => Explains(q, Name(r)))
    BY <1>1, <2>2, <2>3 DEF Half, Explains, Responsible, After
  <2>7. Cleared(stores, q) /\ q.pc # "new" /\ q.pc # "dropSecret" /\ FreshThere'
    BY <1>1, <1>2, <2>2, <2>3 DEF Cleared, FreshThere
  <2> QED BY <1>1, <1>2, <2>1, <2>3, <2>4, <2>5, <2>6, <2>7, MoveGood
<1> QED BY <1>3, <1>4 DEF CheckUpdate

LEMMA GetSecretGood ==
  ASSUME SInv, NEW r \in Requests, GetSecret(r)
  PROVE  \E q : Good(r, q)
<1> DEFINE found == (secrets[Name(r)] # Absent)
           q == [requests[r] EXCEPT !.pc = "secretPut", !.found = found]
<1>1. /\ requests[r].pc = "secretGet" /\ ~At(r, "new")
      /\ UNCHANGED <<stores, secrets, fresh, contended, raced, bound, taken>>
      /\ requests' = [requests EXCEPT ![r].pc = "secretPut", ![r].found = found]
  BY DEF GetSecret, At, SameStores, SameContext
<1>2. /\ requests[r] \in Request /\ Place(requests[r]) /\ found \in BOOLEAN
      /\ requests \in [Requests -> Request] /\ Held(stores, secrets, contended, taken, requests[r])
      /\ fresh \subseteq Requests \X Stores /\ FreshThere
  BY <1>1, AtWork
<1> HIDE DEF found
<1>3. requests' = [requests EXCEPT ![r] = q]
  BY <1>1, <1>2 DEF Request
<1>4. /\ q \in Request /\ q.pc = "secretPut" /\ q.used = requests[r].used /\ q.account = requests[r].account
      /\ q.ask = requests[r].ask /\ q.wrote = requests[r].wrote
      /\ q.labelLeft = requests[r].labelLeft /\ q.secretLeft = requests[r].secretLeft
  BY <1>2 DEF Request, Locations
<1> HIDE DEF q
<1>5. Place(q)
  BY <1>1, <1>2, <1>4 DEF Place, After
<1>6. Held(stores, secrets, contended, taken, q)
  BY <1>1, <1>2, <1>4 DEF Held, After, Before
<1>7. ~Half(requests[r], Name(r)) /\ (Explains(requests[r], Name(r)) => Explains(q, Name(r)))
  BY <1>1, <1>4 DEF Half, Explains, Responsible, After
<1>8. Cleared(stores, q) /\ q.pc # "new" /\ q.pc # "dropSecret" /\ FreshThere'
  BY <1>1, <1>2, <1>4 DEF Cleared, FreshThere
<1> QED BY <1>1, <1>2, <1>3, <1>4, <1>5, <1>6, <1>7, <1>8, MoveGood

(* RemoveDefaultLabel: what a request knows it still knows afterwards. *)
LEMMA UnlabelMoves ==
  ASSUME SInv, NEW r \in Requests, requests[r].pc \in {"listDefaults", "unlabel"},
         NEW q \in Request, q.pc \in {"unlabel", AfterDefaults(r)}, q.ask = requests[r].ask,
         q.used = requests[r].used, q.account = requests[r].account, requests[r].secretLeft => q.secretLeft,
         NEW st, SameAuth(stores[Name(r)], st[Name(r)])
  PROVE  /\ Place(q) /\ Held(st, secrets, contended, taken, q) /\ q.pc \in {"unlabel", "create", "rvGet"}
         /\ ~Half(requests[r], Name(r)) /\ (Explains(requests[r], Name(r)) => Explains(q, Name(r)))
<1>1. /\ requests[r] \in Request /\ Place(requests[r]) /\ requests[r].ask \in Ask
      /\ Held(stores, secrets, contended, taken, requests[r])
  BY AtWork DEF At
<1>2. /\ requests[r].ask.op \in {"create", "update"} /\ requests[r].ask.isDefault
      /\ q.pc \in {"unlabel", "create", "rvGet"}
      /\ q.pc = "create" => q.ask.op = "create"
      /\ q.pc = "rvGet" => q.ask.op = "update"
  BY <1>1 DEF Place, Ask, AfterDefaults, Op
<1>3. Place(q)
  BY <1>1, <1>2 DEF Place, After
<1>4. Held(st, secrets, contended, taken, q)
  BY <1>1, <1>2 DEF Held, SameAuth, Name, After, Before
<1>5. ~Half(requests[r], Name(r)) /\ (Explains(requests[r], Name(r)) => Explains(q, Name(r)))
  BY <1>2 DEF Half, Explains, Responsible, After
<1> QED BY <1>2, <1>3, <1>4, <1>5

LEMMA ListDefaultsGood ==
  ASSUME SInv, NEW r \in Requests, ListDefaults(r)
  PROVE  \E q : Good(r, q)
<1> DEFINE pc == IF Defaults = {} THEN AfterDefaults(r) ELSE "unlabel"
           q == [requests[r] EXCEPT !.doomed = Defaults, !.pc = pc]
<1>1. /\ requests[r].pc = "listDefaults" /\ ~At(r, "new")
      /\ UNCHANGED <<stores, secrets, contended, raced, bound, taken>> /\ fresh' = fresh \cup ({r} \X Defaults)
      /\ requests' = [requests EXCEPT ![r].doomed = Defaults, ![r].pc = pc]
  BY DEF ListDefaults, At, SameContext
<1>2. /\ requests[r] \in Request /\ Defaults \subseteq Stores /\ pc \in Locations
      /\ requests \in [Requests -> Request] /\ fresh \subseteq Requests \X Stores /\ FreshThere
  BY <1>1, AtWork DEF Defaults, AfterDefaults, Locations
<1>3. pc \in {"unlabel", AfterDefaults(r)} /\ (pc # "unlabel" => Defaults = {})
  BY DEF pc
<1>4. requests' = [requests EXCEPT ![r] = q]
  BY <1>1, <1>2 DEF Request
<1> HIDE DEF pc
<1>5. /\ q \in Request /\ q.pc = pc /\ q.used = requests[r].used /\ q.account = requests[r].account
      /\ q.ask = requests[r].ask
      /\ q.labelLeft = requests[r].labelLeft /\ q.secretLeft = requests[r].secretLeft /\ q.doomed = Defaults
  BY <1>2 DEF Request
<1> HIDE DEF q
<1>6. /\ Place(q) /\ Held(stores, secrets, contended, taken, q) /\ q.pc \in {"unlabel", "create", "rvGet"}
      /\ ~Half(requests[r], Name(r)) /\ (Explains(requests[r], Name(r)) => Explains(q, Name(r)))
  BY <1>1, <1>3, <1>5, SameAuthRefl, UnlabelMoves
<1>7. Cleared(stores, q)
  BY <1>3, <1>5 DEF Cleared, Defs, Defaults
<1>8. fresh' \subseteq Requests \X Stores /\ FreshThere'
  BY <1>1, <1>2 DEF FreshThere, Defaults
<1> QED BY <1>1, <1>4, <1>5, <1>6, <1>7, <1>8, MoveGood

(* The request after n was unlabelled, or not. *)
LEMMA UnlabelledIs ==
  ASSUME SInv, NEW r \in Requests, requests[r].pc = "unlabel", NEW n \in requests[r].doomed,
         NEW failed \in BOOLEAN, Unlabelled(r, n, failed)
  PROVE  \E q \in Request :
           /\ requests' = [requests EXCEPT ![r] = q] /\ q.ask = requests[r].ask
           /\ q.used = requests[r].used /\ q.account = requests[r].account
           /\ q.labelLeft <=> requests[r].labelLeft \/ failed
           /\ q.secretLeft = requests[r].secretLeft
           /\ q.pc \in {"unlabel", AfterDefaults(r)} /\ q.doomed = requests[r].doomed \ {n}
           /\ q.pc # "unlabel" => requests[r].doomed = {n}
<1> DEFINE pc == IF requests[r].doomed = {n} THEN AfterDefaults(r) ELSE requests[r].pc
           wrote == requests[r].wrote \/ ~failed
           left == requests[r].labelLeft \/ failed
           q == [requests[r] EXCEPT !.doomed = requests[r].doomed \ {n}, !.pc = pc, !.wrote = wrote, !.labelLeft = left]
<1>1. requests \in [Requests -> Request] /\ requests[r] \in Request
  BY DEF SInv, StoresTypeOK
<1>2. requests' = [requests EXCEPT ![r] = q]
  BY <1>1 DEF Unlabelled, Request
<1>3. /\ pc \in Locations /\ wrote \in BOOLEAN /\ left \in BOOLEAN
      /\ pc \in {"unlabel", AfterDefaults(r)} /\ (pc # "unlabel" => requests[r].doomed = {n})
      /\ left <=> requests[r].labelLeft \/ failed
  BY <1>1 DEF Request, Locations, AfterDefaults
<1> HIDE DEF pc, wrote, left
<1>4. /\ q \in Request /\ q.ask = requests[r].ask /\ q.used = requests[r].used
      /\ q.account = requests[r].account
      /\ q.labelLeft = left /\ q.secretLeft = requests[r].secretLeft /\ q.pc = pc
      /\ q.doomed = requests[r].doomed \ {n}
  BY <1>1, <1>3 DEF Request
<1> HIDE DEF q
<1> QED BY <1>2, <1>3, <1>4

(* The label stays, because the store has changed or the call failed.  *)
LEMMA UnlabelNotGood ==
  ASSUME SInv, NEW r \in Requests, requests[r].pc = "unlabel", NEW n \in requests[r].doomed,
         NEW failed \in BOOLEAN, Unlabelled(r, n, failed), failed \/ n \notin Defaults,
         UNCHANGED <<stores, secrets, fresh, contended, raced, bound, taken>>
  PROVE  \E q : Good(r, q)
<1>1. PICK q \in Request :
        /\ requests' = [requests EXCEPT ![r] = q] /\ q.ask = requests[r].ask
        /\ q.used = requests[r].used /\ q.account = requests[r].account
        /\ q.labelLeft <=> requests[r].labelLeft \/ failed
        /\ q.secretLeft = requests[r].secretLeft
        /\ q.pc \in {"unlabel", AfterDefaults(r)} /\ q.doomed = requests[r].doomed \ {n}
        /\ q.pc # "unlabel" => requests[r].doomed = {n}
  BY UnlabelledIs
<1>2. /\ Place(q) /\ Held(stores, secrets, contended, taken, q) /\ q.pc \in {"unlabel", "create", "rvGet"}
      /\ ~Half(requests[r], Name(r)) /\ (Explains(requests[r], Name(r)) => Explains(q, Name(r)))
  BY <1>1, SameAuthRefl, UnlabelMoves
<1>3. ~q.labelLeft /\ Cleared(stores, requests[r]) => Cleared(stores, q)
  BY <1>1 DEF Cleared, Defs, Defaults
<1>4. fresh \subseteq Requests \X Stores /\ FreshThere'
  BY DEF SInv, StoresTypeOK, FreshThere
<1> QED BY <1>1, <1>2, <1>3, <1>4, MoveGood

LEMMA UnlabelGood ==
  ASSUME SInv, NEW r \in Requests, Unlabel(r)
  PROVE  \E q : Good(r, q)
<1>1. /\ requests[r].pc = "unlabel" /\ ~At(r, "new") /\ UNCHANGED <<secrets, contended, raced, bound, taken>>
  BY DEF Unlabel, At, SameContext
<1>2. /\ requests[r] \in Request /\ Name(r) \in Stores /\ stores \in [Stores -> Store \cup {Absent}]
      /\ secrets \in [Stores -> SecretOrAbsent] /\ fresh \subseteq Requests \X Stores /\ FreshThere
  BY <1>1, AtWork
<1>3. PICK n \in requests[r].doomed :
        \/ /\ <<r, n>> \in fresh
           /\ PutStore(n, [stores[n] EXCEPT !.isDefault = FALSE])
           /\ Unlabelled(r, n, FALSE)
        \/ Unlabelled(r, n, n \in Defaults) /\ SameStores
  BY DEF Unlabel
<1>4. CASE Unlabelled(r, n, n \in Defaults) /\ SameStores
  <2>1. (n \in Defaults) \in BOOLEAN /\ ((n \in Defaults) \/ n \notin Defaults)
    OBVIOUS
  <2> QED BY <1>1, <1>4, <2>1, UnlabelNotGood DEF SameStores
<1>5. CASE /\ <<r, n>> \in fresh
           /\ PutStore(n, [stores[n] EXCEPT !.isDefault = FALSE])
           /\ Unlabelled(r, n, FALSE)
  <2> DEFINE new == [stores[n] EXCEPT !.isDefault = FALSE]
  <2>1. PICK q \in Request :
          /\ requests' = [requests EXCEPT ![r] = q] /\ q.ask = requests[r].ask
          /\ q.used = requests[r].used /\ q.account = requests[r].account
          /\ q.labelLeft <=> requests[r].labelLeft \/ FALSE
          /\ q.secretLeft = requests[r].secretLeft
          /\ q.pc \in {"unlabel", AfterDefaults(r)} /\ q.doomed = requests[r].doomed \ {n}
          /\ q.pc # "unlabel" => requests[r].doomed = {n}
    BY <1>1, <1>5, UnlabelledIs
  <2>2. n \in Stores /\ stores[n] \in Store /\ stores[n] # Absent
    BY <1>2, <1>5 DEF FreshThere, Request
  <2>3. /\ new \in Store /\ new.auth = stores[n].auth /\ new.account = stores[n].account /\ ~new.isDefault
    BY <2>2 DEF Store
  <2>4. stores' = [stores EXCEPT ![n] = new] /\ fresh' = {p \in fresh : p[2] # n}
    BY <1>5 DEF PutStore
  <2> HIDE DEF new
  <2>5. new # Absent
    BY <2>3, AbsentApart
  <2>6. stores' \in [Stores -> Store \cup {Absent}] /\ \A m \in Stores : SameAuth(stores[m], stores'[m])
    BY <1>2, <2>2, <2>3, <2>4, <2>5 DEF SameAuth
  <2>7. \A m \in Stores : Uses(stores', m) <=> Uses(stores, m)
    BY <2>6 DEF Uses, SameAuth
  <2>8. Defs(stores') = Defs(stores) \ {n}
    BY <1>2, <2>2, <2>3, <2>4 DEF Defs
  <2>9. /\ Place(q) /\ Held(stores', secrets, contended, taken, q) /\ q.pc \in {"unlabel", "create", "rvGet"}
        /\ ~Half(requests[r], Name(r)) /\ (Explains(requests[r], Name(r)) => Explains(q, Name(r)))
    BY <1>1, <1>2, <2>1, <2>6, UnlabelMoves
  <2>10. Spared(r)
    BY <1>1, <2>6 DEF Spared
  <2>11. Tokens(r, q)
    <3>1. TokenHeld(stores, secrets, contended, Name(r)) /\ LeftExplained(stores, secrets, contended, Name(r))
      BY <1>2 DEF SInv
    <3> QED BY <1>1, <1>2, <2>7, <2>9, <3>1 DEF Tokens, TokenHeld, LeftExplained
  <2>12. OneMore(r, q)
    BY <2>1, <2>8, <2>9, <1>1 DEF OneMore, AtMostOne, Cleared
  <2>13. fresh' \subseteq Requests \X Stores /\ FreshThere'
    BY <1>2, <2>2, <2>4, <2>6 DEF FreshThere, SameAuth
  <2>14. Good(r, q)
    BY <1>1, <1>2, <2>1, <2>6, <2>9, <2>10, <2>11, <2>12, <2>13 DEF Good, At
  <2> QED BY <2>14
<1> QED BY <1>3, <1>4, <1>5

LEMMA PutSecretGood ==
  ASSUME SInv, NEW r \in Requests, PutSecret(r)
  PROVE  \E q : Good(r, q)
<1> DEFINE ask == requests[r].ask
           pc == AfterSecret(ask)
           q == [requests[r] EXCEPT !.pc = pc, !.wrote = TRUE]
<1>1. /\ requests[r].pc = "secretPut" /\ ~At(r, "new")
      /\ UNCHANGED <<stores, fresh, contended, raced, bound, taken>>
  BY DEF PutSecret, At, SameStores, SameContext
<1>2. /\ requests[r] \in Request /\ ask \in Ask /\ Name(r) \in Stores /\ requests \in [Requests -> Request]
      /\ stores \in [Stores -> Store \cup {Absent}] /\ secrets \in [Stores -> SecretOrAbsent]
      /\ Held(stores, secrets, contended, taken, requests[r]) /\ Place(requests[r])
      /\ fresh \subseteq Requests \X Stores /\ FreshThere
  BY <1>1, AtWork
<1>3. ~requests[r].wrote /\ ask.op \in {"create", "update"} /\ ask.auth = "token" /\ ask.token
  BY <1>1, <1>2 DEF Place, Ask
<1>4. ASSUME NEW err \in {"AlreadyExists", "NotFound"}, Answer(r, err), UNCHANGED secrets
      PROVE  \E p : Good(r, p)
  BY <1>1, <1>2, <1>3, <1>4, AnswerGood
<1>5. CASE /\ secrets' = [secrets EXCEPT ![Name(r)] = "store"]
           /\ requests' = [requests EXCEPT ![r].pc = pc, ![r].wrote = TRUE]
  <2>1. requests' = [requests EXCEPT ![r] = q]
    BY <1>2, <1>5 DEF Request
  <2>2. /\ pc \in {"listDefaults", "create", "rvGet"}
        /\ pc = "listDefaults" => ask.isDefault
        /\ pc = "create" => ask.op = "create" /\ ~ask.isDefault
        /\ pc = "rvGet" => ask.op = "update" /\ ~ask.isDefault
    BY <1>3 DEF AfterSecret
  <2> HIDE DEF pc
  <2>3. /\ q \in Request /\ q.pc = pc /\ q.used = requests[r].used /\ q.account = requests[r].account
        /\ q.ask = ask /\ q.labelLeft = requests[r].labelLeft /\ q.secretLeft = requests[r].secretLeft
    BY <1>2, <2>2 DEF Request, Locations
  <2> HIDE DEF q
  <2>4. /\ secrets' \in [Stores -> SecretOrAbsent] /\ secrets'[Name(r)] = "store"
        /\ \A m \in Stores \ {Name(r)} : secrets'[m] = secrets[m]
    BY <1>2, <1>5 DEF SecretOrAbsent
  <2>5. Place(q)
    BY <1>2, <1>3, <2>2, <2>3 DEF Place, After
  <2>6. Held(stores', secrets', contended, taken, q)
    BY <1>1, <1>2, <2>2, <2>3, <2>4 DEF Held, After, Before, Name
  <2>7. Spared(r)
    BY <1>1, <2>4, SameAuthRefl DEF Spared
  <2>8. Explains(q, Name(r))
    BY <1>3, <2>2, <2>3 DEF Explains, Responsible, After, Name
  <2>9. Tokens(r, q)
    BY <2>2, <2>3, <2>4, <2>8 DEF Tokens
  <2>10. OneMore(r, q)
    BY <1>1, <2>2, <2>3 DEF OneMore, Cleared
  <2>11. q.pc # "new" /\ FreshThere'
    BY <1>1, <1>2, <2>2, <2>3 DEF FreshThere
  <2>12. Good(r, q)
    BY <1>1, <1>2, <1>3, <2>1, <2>3, <2>4, <2>5, <2>6, <2>7, <2>9, <2>10, <2>11 DEF Good, At
  <2> QED BY <2>12
<1> QED BY <1>4, <1>5 DEF PutSecret

(* The store that is written. *)
LEMMA NewStoreIs ==
  ASSUME SInv, NEW r \in Requests, requests[r].pc \in {"create", "put"}
  PROVE  /\ NewStore(r) \in Store /\ NewStore(r) # Absent
         /\ NewStore(r).auth = requests[r].ask.auth /\ (NewStore(r).isDefault <=> requests[r].ask.isDefault)
         /\ NewStore(r).auth = "kubernetes" => NewStore(r).account = AccountFor(r)
<1>1. requests[r] \in Request /\ requests[r].ask \in Ask
  BY AtWork DEF At
<1>2. requests[r].account \in Accounts \cup {Absent} /\ requests[r].ask.account \in Accounts \cup {Absent}
      /\ requests[r].ask.auth \in {"token", "kubernetes"} /\ requests[r].ask.isDefault \in BOOLEAN
  BY <1>1 DEF Request, Ask
<1>3. AccountFor(r) \in Accounts
  BY <1>2, SecretStoresAssumption DEF AccountFor
<1>4. NewStore(r) \in Store
  BY <1>2, <1>3 DEF NewStore, Store
<1> QED BY <1>2, <1>4, AbsentApart DEF NewStore

(* A store is written, by a create or an update. *)
LEMMA WriteGood ==
  ASSUME SInv, NEW r \in Requests, requests[r].pc \in {"create", "put"},
         PutStore(Name(r), NewStore(r)), UNCHANGED <<secrets, contended, raced, bound, taken>>,
         NEW pc \in {"readBack", "dropSecret"},
         requests' = [requests EXCEPT ![r].pc = pc, ![r].wrote = TRUE],
         pc = "dropSecret" <=> requests[r].pc = "put" /\ DropsToken(requests[r]),
         requests[r].pc = "create" => stores[Name(r)] = Absent
  PROVE  \E q : Good(r, q)
<1> DEFINE ask == requests[r].ask
           n == Name(r)
           q == [requests[r] EXCEPT !.pc = pc, !.wrote = TRUE]
<1>1. /\ requests[r] \in Request /\ ask \in Ask /\ n \in Stores /\ requests \in [Requests -> Request]
      /\ stores \in [Stores -> Store \cup {Absent}] /\ secrets \in [Stores -> SecretOrAbsent]
      /\ Held(stores, secrets, contended, taken, requests[r]) /\ Place(requests[r])
      /\ fresh \subseteq Requests \X Stores /\ FreshThere
  BY AtWork DEF At
<1>2. requests' = [requests EXCEPT ![r] = q]
  BY <1>1 DEF Request
<1>3. /\ q \in Request /\ q.pc = pc /\ q.ask = ask
      /\ q.labelLeft = requests[r].labelLeft /\ q.secretLeft = requests[r].secretLeft
  BY <1>1 DEF Request, Locations
<1> HIDE DEF q
<1>4. /\ NewStore(r) \in Store /\ NewStore(r) # Absent
      /\ NewStore(r).auth = ask.auth /\ (NewStore(r).isDefault <=> ask.isDefault)
  BY NewStoreIs
<1>5. /\ stores' = [stores EXCEPT ![n] = NewStore(r)] /\ fresh' = {p \in fresh : p[2] # n}
      /\ stores' \in [Stores -> Store \cup {Absent}] /\ stores'[n] = NewStore(r)
      /\ \A m \in Stores \ {n} : stores'[m] = stores[m]
  BY <1>1, <1>4 DEF PutStore
<1>6. /\ requests[r].pc = "create" <=> ask.op = "create"
      /\ requests[r].pc = "put" <=> ask.op = "update"
  BY <1>1 DEF Place
<1>7. Place(q)
  BY <1>1, <1>3, <1>6 DEF Place, After, DropsToken
<1>8. Held(stores', secrets', contended, taken, q)
  BY <1>3, <1>4, <1>5 DEF Held, Uses, After, Before, DropsToken, Name
<1>9. Spared(r)
  BY <1>5, SameAuthRefl DEF Spared
<1>10. Uses(stores', n) <=> ask.auth = "token"
  BY <1>4, <1>5 DEF Uses
<1>11. ~Half(requests[r], n)
  BY DEF Half
<1>12. ASSUME n \notin contended, ask.auth = "token"
       PROVE  secrets[n] = "store" \/ n \in taken \/ \E d \in Requests \ {r} : Half(requests[d], n)
  <2>1. CASE ask.token
    BY <1>1, <1>12, <2>1 DEF Held, After, Name
  <2>2. CASE ~ask.token
    <3>1. requests[r].pc = "put" /\ requests[r].used
      BY <1>1, <1>6, <1>12, <2>2 DEF Place, After
    <3>2. Uses(stores, n)
      BY <1>1, <1>6, <1>12, <3>1 DEF Held, Before, Uses, Name
    <3> QED BY <1>1, <1>11, <1>12, <3>2 DEF SInv, TokenHeld
  <2> QED BY <2>1, <2>2
<1>13. ASSUME n \notin contended, pc = "dropSecret"
       PROVE  secrets[n] = "store" \/ n \in taken \/ \E d \in Requests \ {r} : Half(requests[d], n)
  <2>1. Uses(stores, n)
    BY <1>1, <1>6, <1>13 DEF Held, Before, Uses, DropsToken, Name
  <2> QED BY <1>1, <1>11, <1>13, <2>1 DEF SInv, TokenHeld
<1>14. ASSUME n \notin contended, ask.auth # "token", secrets[n] = "store"
       PROVE  Explains(q, n) \/ \E d \in Requests \ {r} : Explains(requests[d], n)
  <2>1. CASE pc = "dropSecret"
    BY <1>3, <1>6, <2>1 DEF Explains, Responsible, Name
  <2>2. CASE pc # "dropSecret"
    <3>1. ~Uses(stores, n)
      BY <1>1, <1>6, <1>14, <2>2 DEF Held, Before, Uses, DropsToken, Name
    <3>2. PICK d \in Requests : Explains(requests[d], n)
      BY <1>1, <1>14, <3>1 DEF SInv, LeftExplained
    <3>3. CASE d = r
      BY <1>3, <1>14, <3>2, <3>3 DEF Explains, Responsible, Name
    <3> QED BY <3>2, <3>3
  <2> QED BY <2>1, <2>2
<1>15. Tokens(r, q)
  BY <1>3, <1>10, <1>12, <1>13, <1>14 DEF Tokens
<1>16. OneMore(r, q)
  <2>1. Defs(stores') \subseteq Defs(stores) \cup {n} /\ (~ask.isDefault => Defs(stores') \subseteq Defs(stores))
    BY <1>1, <1>4, <1>5 DEF Defs
  <2>2. ASSUME AtMostOne(stores), Cleared(stores, requests[r]) PROVE AtMostOne(stores')
    <3>1. CASE ask.isDefault
      BY <2>1, <2>2, <3>1 DEF AtMostOne, Cleared
    <3>2. CASE ~ask.isDefault
      BY <2>1, <2>2, <3>2 DEF AtMostOne
    <3> QED BY <3>1, <3>2
  <2> QED BY <1>3, <2>1, <2>2 DEF OneMore, Cleared
<1>17. fresh' \subseteq Requests \X Stores /\ FreshThere'
  BY <1>1, <1>5 DEF FreshThere
<1>18. Good(r, q)
  BY <1>1, <1>2, <1>3, <1>5, <1>7, <1>8, <1>9, <1>15, <1>16, <1>17 DEF Good
<1> QED BY <1>18

LEMMA CreateStoreGood ==
  ASSUME SInv, NEW r \in Requests, CreateStore(r)
  PROVE  \E q : Good(r, q)
<1>1. requests[r].pc = "create" /\ ~At(r, "new") /\ UNCHANGED <<secrets, contended, raced, bound, taken>>
  BY DEF CreateStore, At, SameContext
<1>2. CASE Answer(r, "AlreadyExists") /\ SameStores
  BY <1>1, <1>2, AnswerGood DEF SameStores
<1>3. CASE /\ stores[Name(r)] = Absent
           /\ PutStore(Name(r), NewStore(r))
           /\ requests' = [requests EXCEPT ![r].pc = "readBack", ![r].wrote = TRUE]
  BY <1>1, <1>3, WriteGood
<1> QED BY <1>2, <1>3 DEF CreateStore

LEMMA UpdateStoreGood ==
  ASSUME SInv, NEW r \in Requests, UpdateStore(r)
  PROVE  \E q : Good(r, q)
<1>1. requests[r].pc = "put" /\ ~At(r, "new") /\ UNCHANGED <<secrets, contended, raced, bound, taken>>
  BY DEF UpdateStore, At, SameContext
<1>2. requests \in [Requests -> Request] /\ Held(stores, secrets, contended, taken, requests[r])
      /\ requests[r].ask.op = "update"
  BY <1>1, AtWork DEF Place
<1>3. CASE Answer(r, IF stores[Name(r)] = Absent THEN "NotFound" ELSE "Other") /\ SameStores
  <2> DEFINE err == IF stores[Name(r)] = Absent THEN "NotFound" ELSE "Other"
  <2>1. err \in {"NotFound", "Other"} /\ (err = "NotFound" => stores[Name(r)] = Absent)
    OBVIOUS
  <2>2. err = "NotFound" => Name(r) \in contended
    BY <1>1, <1>2, <2>1 DEF Held, Before, Name
  <2>3. Answer(r, err)
    BY <1>3
  <2> HIDE DEF err
  <2> QED BY <1>1, <1>3, <2>1, <2>2, <2>3, AnswerGood DEF SameStores
<1> DEFINE pc == IF DropsToken(requests[r]) THEN "dropSecret" ELSE "readBack"
<1>4. CASE /\ PutStore(Name(r), NewStore(r))
           /\ requests' = [requests EXCEPT ![r].wrote = TRUE, ![r].pc = pc]
  <2>1. pc \in {"readBack", "dropSecret"} /\ (pc = "dropSecret" <=> DropsToken(requests[r]))
    OBVIOUS
  <2> HIDE DEF pc
  <2>2. requests' = [requests EXCEPT ![r].pc = pc, ![r].wrote = TRUE]
    BY <1>2, <1>4 DEF Request
  <2> QED BY <1>1, <1>4, <2>1, <2>2, WriteGood
<1> QED BY <1>3, <1>4 DEF UpdateStore

LEMMA GetResourceVersionGood ==
  ASSUME SInv, NEW r \in Requests, GetResourceVersion(r)
  PROVE  \E q : Good(r, q)
<1>1. requests[r].pc = "rvGet" /\ ~At(r, "new") /\ UNCHANGED <<stores, secrets, contended, raced, bound, taken>>
  BY DEF GetResourceVersion, At, SameContext
<1>2. /\ requests[r] \in Request /\ Place(requests[r]) /\ Name(r) \in Stores
      /\ requests \in [Requests -> Request] /\ Held(stores, secrets, contended, taken, requests[r])
      /\ fresh \subseteq Requests \X Stores /\ FreshThere /\ requests[r].ask.op = "update"
  BY <1>1, AtWork DEF Place
<1>3. CASE stores[Name(r)] = Absent /\ Answer(r, "NotFound") /\ UNCHANGED fresh
  <2>1. Name(r) \in contended
    BY <1>1, <1>2, <1>3 DEF Held, Before, Name
  <2> QED BY <1>1, <1>3, <2>1, AnswerGood
<1>4. CASE stores[Name(r)] # Absent /\ Goto(r, "put") /\ fresh' = fresh \cup {<<r, Name(r)>>}
  <2> DEFINE q == [requests[r] EXCEPT !.pc = "put"]
  <2>1. requests' = [requests EXCEPT ![r] = q]
    BY <1>2, <1>4 DEF Request, Goto
  <2>2. /\ q \in Request /\ q.pc = "put" /\ q.used = requests[r].used /\ q.account = requests[r].account
        /\ q.ask = requests[r].ask
        /\ q.labelLeft = requests[r].labelLeft /\ q.secretLeft = requests[r].secretLeft
    BY <1>2 DEF Request, Locations
  <2> HIDE DEF q
  <2>3. Place(q)
    BY <1>1, <1>2, <2>2 DEF Place, After
  <2>4. Held(stores, secrets, contended, taken, q)
    BY <1>1, <1>2, <2>2 DEF Held, After, Before
  <2>5. ~Half(requests[r], Name(r)) /\ (Explains(requests[r], Name(r)) => Explains(q, Name(r)))
    BY <1>1, <2>2 DEF Half, Explains, Responsible, After
  <2>6. Cleared(stores, requests[r]) => Cleared(stores, q)
    BY <1>1, <2>2 DEF Cleared
  <2>7. fresh' \subseteq Requests \X Stores /\ FreshThere'
    BY <1>1, <1>2, <1>4 DEF FreshThere
  <2> QED BY <1>1, <2>1, <2>2, <2>3, <2>4, <2>5, <2>6, <2>7, MoveGood
<1> QED BY <1>3, <1>4 DEF GetResourceVersion

(* The place after the Secret was dropped, or not. *)
LEMMA DropPlace ==
  ASSUME SInv, NEW r \in Requests, requests[r].pc = "dropSecret", NEW se,
         NEW q \in Request, q.pc = AfterDrop(r), q.ask = requests[r].ask,
         se[Name(r)] = "store" => q.secretLeft
  PROVE  Place(q) /\ Held(stores, se, contended, taken, q) /\ q.pc \in {"delete", "readBack"}
<1>1. Place(requests[r]) /\ Held(stores, secrets, contended, taken, requests[r]) /\ requests[r].ask \in Ask
  BY AtWork DEF At
<1>2. /\ q.pc \in {"delete", "readBack"}
      /\ q.pc = "delete" <=> q.ask.op = "delete"
  BY DEF AfterDrop, Op
<1>3. Place(q)
  BY <1>1, <1>2 DEF Place, After
<1>4. Held(stores, se, contended, taken, q)
  BY <1>1, <1>2 DEF Held, After, Before, Name
<1> QED BY <1>2, <1>3, <1>4

LEMMA DropSecretGood ==
  ASSUME SInv, NEW r \in Requests, DropSecret(r)
  PROVE  \E q : Good(r, q)
<1> DEFINE n == Name(r)
           wrote == requests[r].wrote \/ secrets[n] # Absent
           q == [requests[r] EXCEPT !.pc = AfterDrop(r), !.wrote = wrote]
<1>1. /\ requests[r].pc = "dropSecret" /\ ~At(r, "new") /\ UNCHANGED <<stores, fresh, contended, raced, bound, taken>>
      /\ secrets' = [secrets EXCEPT ![n] = Absent]
      /\ requests' = [requests EXCEPT ![r].pc = AfterDrop(r), ![r].wrote = wrote]
  BY DEF DropSecret, At, SameStores, SameContext
<1>2. /\ requests[r] \in Request /\ Place(requests[r]) /\ n \in Stores /\ requests[r].ask \in Ask
      /\ requests \in [Requests -> Request] /\ Held(stores, secrets, contended, taken, requests[r])
      /\ stores \in [Stores -> Store \cup {Absent}] /\ secrets \in [Stores -> SecretOrAbsent]
      /\ fresh \subseteq Requests \X Stores /\ FreshThere
  BY <1>1, AtWork
<1>3. wrote \in BOOLEAN /\ (secrets[n] # Absent => wrote) /\ AfterDrop(r) \in Locations
  BY <1>2 DEF Request, AfterDrop, Locations
<1>4. requests' = [requests EXCEPT ![r] = q]
  BY <1>1, <1>2 DEF Request
<1> HIDE DEF wrote
<1>5. /\ q \in Request /\ q.pc = AfterDrop(r) /\ q.wrote = wrote
      /\ q.ask = requests[r].ask
      /\ q.labelLeft = requests[r].labelLeft /\ q.secretLeft = requests[r].secretLeft
  BY <1>2, <1>3 DEF Request
<1> HIDE DEF q
<1>6. /\ secrets' \in [Stores -> SecretOrAbsent] /\ secrets'[n] # "store"
      /\ \A m \in Stores \ {n} : secrets'[m] = secrets[m]
  BY <1>1, <1>2, SecretStoresAssumption DEF SecretOrAbsent
<1>7. Place(q) /\ Held(stores, secrets', contended, taken, q) /\ q.pc \in {"delete", "readBack"}
  BY <1>1, <1>5, <1>6, DropPlace
<1>8. Spared(r)
  BY <1>1, <1>6, SameAuthRefl DEF Spared
<1>9. ASSUME n \notin contended, Uses(stores, n)
      PROVE  Half(q, n) \/ n \in taken \/ \E d \in Requests \ {r} : Half(requests[d], n)
  <2>1. requests[r].ask.op = "delete"
    BY <1>1, <1>2, <1>9 DEF Place, Held, Name
  <2>2. q.pc = "delete"
    BY <1>5, <2>1 DEF AfterDrop, Op
  <2>3. CASE secrets[n] # Absent
    BY <1>3, <1>5, <2>1, <2>2, <2>3 DEF Half, Name
  <2>4. CASE secrets[n] = Absent
    <3>1. secrets[n] # "store"
      BY <2>4, SecretStoresAssumption
    <3>2. ~Half(requests[r], n)
      BY <1>1 DEF Half
    <3> QED BY <1>2, <1>9, <3>1, <3>2 DEF SInv, TokenHeld
  <2> QED BY <2>3, <2>4
<1>10. Tokens(r, q)
  BY <1>1, <1>6, <1>7, <1>9 DEF Tokens
<1>11. OneMore(r, q)
  BY <1>1, <1>7 DEF OneMore, Cleared
<1>12. q.pc # "new" /\ FreshThere'
  BY <1>1, <1>2, <1>7 DEF FreshThere
<1>13. Good(r, q)
  BY <1>1, <1>2, <1>4, <1>5, <1>6, <1>7, <1>8, <1>10, <1>11, <1>12 DEF Good, At
<1> QED BY <1>13

LEMMA DropSecretFailsGood ==
  ASSUME SInv, NEW r \in Requests, DropSecretFails(r)
  PROVE  \E q : Good(r, q)
<1> DEFINE q == [requests[r] EXCEPT !.pc = AfterDrop(r), !.secretLeft = TRUE]
<1>1. /\ requests[r].pc = "dropSecret" /\ ~At(r, "new")
      /\ UNCHANGED <<stores, secrets, fresh, contended, raced, bound, taken>>
      /\ requests' = [requests EXCEPT ![r].pc = AfterDrop(r), ![r].secretLeft = TRUE]
  BY DEF DropSecretFails, At, SameStores, SameContext
<1>2. /\ requests[r] \in Request /\ requests \in [Requests -> Request] /\ AfterDrop(r) \in Locations
      /\ fresh \subseteq Requests \X Stores /\ FreshThere
  BY <1>1, AtWork DEF AfterDrop, Locations
<1>3. requests' = [requests EXCEPT ![r] = q]
  BY <1>1, <1>2 DEF Request
<1>4. /\ q \in Request /\ q.pc = AfterDrop(r) /\ q.ask = requests[r].ask
      /\ q.secretLeft /\ q.labelLeft = requests[r].labelLeft
  BY <1>2 DEF Request
<1> HIDE DEF q
<1>5. Place(q) /\ Held(stores, secrets, contended, taken, q) /\ q.pc \in {"delete", "readBack"}
  BY <1>1, <1>4, DropPlace
<1>6. ~Half(requests[r], Name(r)) /\ Explains(q, Name(r))
  BY <1>1, <1>4, <1>5 DEF Half, Explains, Name
<1>7. Cleared(stores, q) /\ q.pc # "new" /\ q.pc # "dropSecret" /\ FreshThere'
  BY <1>1, <1>2, <1>5 DEF FreshThere, Cleared
<1> QED BY <1>1, <1>2, <1>3, <1>4, <1>5, <1>6, <1>7, MoveGood

LEMMA ReadBackGood ==
  ASSUME SInv, NEW r \in Requests, ReadBack(r)
  PROVE  \E q : Good(r, q)
<1>1. /\ requests[r].pc = "readBack" /\ ~At(r, "new")
      /\ UNCHANGED <<stores, secrets, fresh, contended, raced, bound, taken>>
      /\ Answer(r, IF stores[Name(r)] = Absent THEN "NotFound" ELSE "none")
  BY DEF ReadBack, At, SameStores, SameContext
<1>2. /\ requests[r] \in Request /\ Held(stores, secrets, contended, taken, requests[r])
      /\ requests[r].ask \in Ask /\ fresh \subseteq Requests \X Stores /\ FreshThere
  BY <1>1, AtWork
<1>3. CASE stores[Name(r)] = Absent
  <2>1. Name(r) \in contended
    BY <1>1, <1>2, <1>3 DEF Held, Name
  <2> QED BY <1>1, <1>3, <2>1, AnswerGood
<1>4. CASE stores[Name(r)] # Absent
  <2> DEFINE q == Answered(requests[r], "none")
  <2>1. requests' = [requests EXCEPT ![r] = q]
    BY <1>1, <1>4 DEF Answer
  <2>2. /\ q \in Request /\ q.pc = "done" /\ q.ask = requests[r].ask
        /\ q.labelLeft = requests[r].labelLeft /\ q.secretLeft = requests[r].secretLeft
        /\ q.code = "2xx"
    BY <1>2, AnsweredIs
  <2> HIDE DEF q
  <2>3. Place(q)
    BY <1>2, <2>2 DEF Place, After
  <2>4. Held(stores, secrets, contended, taken, q)
    BY <2>2 DEF Held, After, Before
  <2>5. ~Half(requests[r], Name(r)) /\ (Explains(requests[r], Name(r)) => Explains(q, Name(r)))
    BY <1>1, <2>2 DEF Half, Explains, Responsible, After
  <2>6. Cleared(stores, q) /\ q.pc # "new" /\ q.pc # "dropSecret" /\ FreshThere'
    BY <1>1, <1>2, <2>2 DEF Cleared, FreshThere
  <2> QED BY <1>1, <1>2, <2>1, <2>2, <2>3, <2>4, <2>5, <2>6, MoveGood
<1> QED BY <1>3, <1>4

LEMMA DeleteStoreGood ==
  ASSUME SInv, NEW r \in Requests, DeleteStore(r)
  PROVE  \E q : Good(r, q)
<1>1. requests[r].pc = "delete" /\ ~At(r, "new") /\ UNCHANGED <<secrets, contended, raced, bound, taken>>
  BY DEF DeleteStore, At, SameContext
<1>2. /\ requests[r] \in Request /\ Held(stores, secrets, contended, taken, requests[r]) /\ Name(r) \in Stores
      /\ requests[r].ask \in Ask /\ fresh \subseteq Requests \X Stores /\ FreshThere
      /\ requests \in [Requests -> Request] /\ requests[r].ask.op = "delete"
      /\ stores \in [Stores -> Store \cup {Absent}] /\ secrets \in [Stores -> SecretOrAbsent]
  BY <1>1, AtWork DEF Place
<1>3. CASE stores[Name(r)] = Absent /\ Answer(r, "NotFound") /\ SameStores
  <2>1. Name(r) \in contended
    BY <1>1, <1>2, <1>3 DEF Held, Name
  <2> QED BY <1>1, <1>3, <2>1, AnswerGood DEF SameStores
<1>4. CASE /\ PutStore(Name(r), Absent)
           /\ requests' = [requests EXCEPT ![r] = Answered([@ EXCEPT !.wrote = TRUE], "none")]
  <2> DEFINE p == [requests[r] EXCEPT !.wrote = TRUE]
             q == Answered(p, "none")
  <2>1. requests' = [requests EXCEPT ![r] = q]
    BY <1>4
  <2>2. /\ p \in Request /\ p.ask = requests[r].ask
        /\ p.labelLeft = requests[r].labelLeft /\ p.secretLeft = requests[r].secretLeft
    BY <1>2 DEF Request
  <2> HIDE DEF p
  <2>3. /\ q \in Request /\ q.pc = "done" /\ q.ask = requests[r].ask
        /\ q.labelLeft = requests[r].labelLeft /\ q.secretLeft = requests[r].secretLeft
        /\ q.code = "2xx"
    BY <2>2, AnsweredIs
  <2> HIDE DEF q
  <2>4. /\ stores' \in [Stores -> Store \cup {Absent}] /\ stores'[Name(r)] = Absent
        /\ \A m \in Stores \ {Name(r)} : stores'[m] = stores[m]
        /\ fresh' = {x \in fresh : x[2] # Name(r)}
    BY <1>2, <1>4 DEF PutStore
  <2>5. Place(q)
    BY <1>2, <2>3 DEF Place, After
  <2>6. Held(stores', secrets', contended, taken, q)
    BY <2>3 DEF Held, After, Before
  <2>7. Spared(r)
    BY <1>1, <2>4, SameAuthRefl DEF Spared
  <2>8. Name(r) \notin contended /\ secrets[Name(r)] = "store" => Explains(q, Name(r))
    BY <1>1, <1>2, <2>3 DEF Held, Explains, Name
  <2>9. Tokens(r, q)
    BY <1>1, <2>3, <2>4, <2>8 DEF Tokens, Uses
  <2>10. OneMore(r, q)
    BY <1>2, <2>3, <2>4 DEF OneMore, AtMostOne, Cleared, Defs
  <2>11. fresh' \subseteq Requests \X Stores /\ FreshThere'
    BY <1>2, <2>4 DEF FreshThere
  <2>12. Good(r, q)
    BY <1>1, <1>2, <2>1, <2>3, <2>4, <2>5, <2>6, <2>7, <2>9, <2>10, <2>11 DEF Good, At
  <2> QED BY <2>12
<1> QED BY <1>3, <1>4 DEF DeleteStore

LEMMA CallFailsGood ==
  ASSUME SInv, NEW r \in Requests, CallFails(r)
  PROVE  \E q : Good(r, q)
<1>1. UNCHANGED <<stores, secrets, fresh, contended, raced, bound, taken>> /\ ~At(r, "new")
  BY DEF CallFails, At, SameStores, SameContext
<1>2. /\ requests[r] \in Request /\ requests \in [Requests -> Request]
      /\ fresh \subseteq Requests \X Stores /\ FreshThere
  BY <1>1, AtWork
<1>3. CASE /\ requests[r].pc \in {"get", "secretGet", "secretPut", "create", "rvGet", "put", "readBack", "delete"}
           /\ Answer(r, "Other")
  BY <1>1, <1>3, AnswerGood
<1>4. CASE /\ At(r, "listDefaults")
           /\ requests' = [requests EXCEPT ![r].pc = AfterDefaults(r), ![r].labelLeft = @ \/ Defaults # {}]
  <2> DEFINE left == requests[r].labelLeft \/ Defaults # {}
             q == [requests[r] EXCEPT !.pc = AfterDefaults(r), !.labelLeft = left]
  <2>1. requests' = [requests EXCEPT ![r] = q]
    BY <1>2, <1>4 DEF Request
  <2>2. /\ left \in BOOLEAN /\ (requests[r].labelLeft => left) /\ (~left => Defaults = {})
        /\ AfterDefaults(r) \in Locations
    BY <1>2 DEF Request, AfterDefaults, Locations
  <2> HIDE DEF left
  <2>3. /\ q \in Request /\ q.pc = AfterDefaults(r) /\ q.used = requests[r].used /\ q.account = requests[r].account
        /\ q.ask = requests[r].ask /\ q.labelLeft = left /\ q.secretLeft = requests[r].secretLeft
    BY <1>2, <2>2 DEF Request
  <2> HIDE DEF q
  <2>4. /\ Place(q) /\ Held(stores, secrets, contended, taken, q) /\ q.pc \in {"unlabel", "create", "rvGet"}
        /\ ~Half(requests[r], Name(r)) /\ (Explains(requests[r], Name(r)) => Explains(q, Name(r)))
    BY <1>4, <2>2, <2>3, SameAuthRefl, UnlabelMoves DEF At
  <2>5. ~q.labelLeft => Cleared(stores, q)
    BY <2>2, <2>3 DEF Cleared, Defs, Defaults, AfterDefaults
  <2>6. FreshThere' /\ requests[r].pc = "listDefaults"
    BY <1>1, <1>2, <1>4 DEF FreshThere, At
  <2> QED BY <1>1, <1>2, <2>1, <2>2, <2>3, <2>4, <2>5, <2>6, MoveGood
<1>5. CASE At(r, "unlabel") /\ \E n \in requests[r].doomed : Unlabelled(r, n, TRUE)
  BY <1>1, <1>5, UnlabelNotGood DEF At
<1> QED BY <1>3, <1>4, <1>5 DEF CallFails

LEMMA StoreStepGood ==
  ASSUME SInv, NEW r \in Requests, StoreStep(r)
  PROVE  \E q : Good(r, q)
  BY GetStoreGood, CheckUpdateGood, GetSecretGood, PutSecretGood, ListDefaultsGood, UnlabelGood,
     CreateStoreGood, GetResourceVersionGood, UpdateStoreGood, ReadBackGood, DropSecretGood,
     DropSecretFailsGood, DeleteStoreGood, CallFailsGood
  DEF StoreStep

-----------------------------------------------------------------------------
(* The other steps: a request comes, or somebody else writes the objects. *)

(* What stays when only the requests that are new may change, the users of   *)
(* the objects do not, and more is contended.                                *)
LEMMA SubmitKeeps ==
  ASSUME SInv, NEW r \in Requests, Submit(r)
  PROVE  SInv'
<1>1. PICK ask \in Asks :
        /\ requests' = [requests EXCEPT ![r] =
             IF RefusedCreate(ask) THEN Answered([requests[r] EXCEPT !.ask = ask], "Invalid")
             ELSE [[requests[r] EXCEPT !.ask = ask] EXCEPT !.pc = FirstStep(ask)]]
        /\ contended' = contended \cup {n \in {ask.name} : \E q \in Active : Name(q) = n}
        /\ raced' = (raced \/ (ask.isDefault /\ \E q \in Active : requests[q].ask.isDefault))
  BY DEF Submit
<1>2. /\ requests[r].pc = "new" /\ requests[r] = NewRequest /\ requests \in [Requests -> Request]
      /\ UNCHANGED <<stores, secrets, bound, fresh, taken>> /\ raced \in BOOLEAN /\ contended \subseteq Stores
  BY DEF Submit, SInv, StoresTypeOK, Place, At
<1>3. /\ ask \in Ask /\ ask.name \in Stores /\ ask.op \in {"create", "update", "delete"}
      /\ ask.auth \in {"token", "kubernetes"} /\ ask.isDefault \in BOOLEAN
      /\ ask.op = "delete" => ~ask.isDefault
  BY SecretStoresAssumption DEF Ask
<1> DEFINE q0 == [requests[r] EXCEPT !.ask = ask]
           pc == FirstStep(ask)
           q == requests'[r]
<1>4. requests[r] \in Request /\ ~requests[r].wrote /\ ~requests[r].labelLeft
  <2>1. ~NewRequest.wrote /\ ~NewRequest.labelLeft
    BY DEF NewRequest
  <2> QED BY <1>2, <2>1
<1>5. q0 \in Request /\ q0.ask = ask /\ ~q0.wrote /\ ~q0.labelLeft
  BY <1>3, <1>4 DEF Request
<1> HIDE DEF q0
<1>6. /\ q \in Request /\ q.ask = ask /\ ~q.wrote /\ ~q.labelLeft /\ q.pc # "new"
      /\ \/ q.pc = "done"
         \/ q.pc = "get" /\ ask.op # "create"
         \/ q.pc = "secretGet" /\ ask.op = "create" /\ ask.auth = "token" /\ ask.token
         \/ q.pc = "listDefaults" /\ ask.op = "create" /\ ask.auth # "token" /\ ask.isDefault
         \/ q.pc = "create" /\ ask.op = "create" /\ ask.auth # "token" /\ ~ask.isDefault
  <2>1. CASE RefusedCreate(ask)
    <3>1. q = Answered(q0, "Invalid")
      BY <1>1, <1>2, <2>1 DEF q0
    <3>2. /\ Answered(q0, "Invalid") \in Request /\ Answered(q0, "Invalid").pc = "done"
          /\ Answered(q0, "Invalid").ask = ask /\ ~Answered(q0, "Invalid").wrote
          /\ ~Answered(q0, "Invalid").labelLeft
      BY <1>5, AnsweredIs
    <3> HIDE DEF q
    <3> QED BY <3>1, <3>2
  <2>2. CASE ~RefusedCreate(ask)
    <3>1. q = [q0 EXCEPT !.pc = pc]
      BY <1>1, <1>2, <2>2 DEF q0
    <3>2. \/ pc = "get" /\ ask.op # "create"
          \/ pc = "secretGet" /\ ask.op = "create" /\ ask.auth = "token" /\ ask.token
          \/ pc = "listDefaults" /\ ask.op = "create" /\ ask.auth # "token" /\ ask.isDefault
          \/ pc = "create" /\ ask.op = "create" /\ ask.auth # "token" /\ ~ask.isDefault
      BY <1>3, <2>2 DEF FirstStep, AfterSecret, RefusedCreate
    <3> HIDE DEF pc
    <3>3. [q0 EXCEPT !.pc = pc] \in Request /\ [q0 EXCEPT !.pc = pc].pc = pc
          /\ [q0 EXCEPT !.pc = pc].ask = ask /\ ~[q0 EXCEPT !.pc = pc].wrote
          /\ ~[q0 EXCEPT !.pc = pc].labelLeft
      BY <1>5, <3>2 DEF Request, Locations
    <3> HIDE DEF q
    <3> QED BY <3>1, <3>2, <3>3
  <2> QED BY <2>1, <2>2
<1>7. \A d \in Requests \ {r} : requests'[d] = requests[d]
  BY <1>1, <1>2
<1>8. requests' \in [Requests -> Request]
  <2>1. requests' = [requests EXCEPT ![r] = q]
    BY <1>1, <1>2
  <2> HIDE DEF q
  <2> QED BY <1>2, <1>6, <2>1
<1> HIDE DEF q
<1>9. contended \subseteq contended' /\ contended' \subseteq Stores /\ raced' \in BOOLEAN /\ (raced => raced')
  BY <1>1, <1>2, <1>3
<1>10. StoresTypeOK' /\ FreshThere'
  BY <1>2, <1>8, <1>9 DEF SInv, StoresTypeOK, FreshThere
<1>11. NoOverlap'
  <2>1. \A d \in Active' : d # r => d \in Active /\ requests'[d] = requests[d]
    BY <1>7 DEF Active, At
  <2>2. requests'[r].ask = ask
    BY <1>6 DEF q
  <2>3. ASSUME NEW d \in Active', d # r
        PROVE  /\ requests'[d].ask.name = ask.name => ask.name \in contended'
               /\ requests'[d].ask.isDefault /\ ask.isDefault => raced'
    BY <1>1, <2>1, <2>3 DEF Name
  <2>4. ASSUME NEW d \in Active', NEW e \in Active', d # e
        PROVE  /\ requests'[d].ask.name = requests'[e].ask.name => requests'[d].ask.name \in contended'
               /\ requests'[d].ask.isDefault /\ requests'[e].ask.isDefault => raced'
    <3>1. CASE d # r /\ e # r
      BY <1>9, <2>1, <2>4, <3>1 DEF SInv, NoOverlap, Name
    <3>2. CASE d = r
      BY <2>2, <2>3, <2>4, <3>2
    <3>3. CASE e = r
      BY <2>2, <2>3, <2>4, <3>3
    <3> QED BY <3>1, <3>2, <3>3
  <2> QED BY <2>4 DEF NoOverlap, Name
<1>12. \A n \in Stores, d \in Requests :
         /\ Half(requests[d], n) => Half(requests'[d], n)
         /\ Explains(requests[d], n) => Explains(requests'[d], n)
  BY <1>2, <1>7 DEF Half, Explains
<1>13. Place(q) /\ Held(stores, secrets, contended', taken, q) /\ Cleared(stores, q) /\ q.pc # "dropSecret"
  BY <1>3, <1>6 DEF Place, Held, Cleared, After, Before
<1>14. DefaultsHeld'
  <2>1. SUFFICES ASSUME ~raced', \A d \in Requests : ~requests'[d].labelLeft
                 PROVE  AtMostOne(stores) /\ \A d \in Requests : Cleared(stores, requests'[d])
    BY <1>2 DEF DefaultsHeld, AtMostOne, Cleared, Defs
  <2>2. ~raced /\ \A d \in Requests : ~requests[d].labelLeft
    BY <1>4, <1>7, <1>9, <2>1
  <2>3. AtMostOne(stores) /\ \A d \in Requests : Cleared(stores, requests[d])
    BY <2>2 DEF SInv, DefaultsHeld
  <2> QED BY <1>7, <1>13, <2>3 DEF q
<1>15. ASSUME NEW n \in Stores
       PROVE  (TokenHeld(stores, secrets, contended, n) /\ LeftExplained(stores, secrets, contended, n))'
  <2>1. TokenHeld(stores, secrets, contended, n) /\ LeftExplained(stores, secrets, contended, n)
    BY DEF SInv
  <2> QED BY <1>2, <1>9, <1>12, <2>1 DEF TokenHeld, LeftExplained, Uses
<1>16. ASSUME NEW d \in Requests
       PROVE  (/\ Place(requests[d]) /\ Held(stores, secrets, contended, taken, requests[d])
               /\ DropHeld(secrets, contended, requests[d]))'
  <2>1. CASE d = r
    BY <1>2, <1>13, <2>1 DEF q, DropHeld
  <2>2. CASE d # r
    <3> DEFINE p == requests[d]
    <3>1. Place(p) /\ Held(stores, secrets, contended, taken, p) /\ DropHeld(secrets, contended, p)
      BY DEF SInv
    <3>2. requests'[d] = p
      BY <1>7, <2>2
    <3> HIDE DEF p
    <3>3. Held(stores, secrets, contended', taken, p)
      BY <1>9, <3>1, SameAuthRefl, HeldElsewhere
    <3>4. p.pc = "dropSecret" /\ p.ask.op = "update" => p.ask.name \in Stores
      BY <3>1 DEF Place, Ask
    <3>5. DropHeld(secrets, contended, requests[d])'
      BY <1>2, <1>9, <1>12, <3>1, <3>2, <3>4 DEF DropHeld
    <3> QED BY <1>2, <3>1, <3>2, <3>3, <3>5
  <2> QED BY <2>1, <2>2
<1> QED BY <1>10, <1>11, <1>14, <1>15, <1>16 DEF SInv

(* The controller and the connection service change no store; a token they   *)
(* take is remembered as taken.                                              *)
Aside ==
  /\ UNCHANGED <<stores, requests, contended, raced>> /\ fresh' \subseteq fresh
  /\ secrets' \in [Stores -> SecretOrAbsent] /\ bound' \subseteq Shared
  /\ taken \subseteq taken' /\ taken' \subseteq Stores
  /\ \A n \in Stores : /\ secrets'[n] = "store" => secrets[n] = "store"
                       /\ secrets[n] = "store" => secrets'[n] = "store" \/ n \in taken'

LEMMA OthersKeep ==
  ASSUME SInv, Aside
  PROVE  SInv'
<1>1. StoresTypeOK' /\ FreshThere' /\ NoOverlap'
  BY DEF Aside, SInv, StoresTypeOK, FreshThere, NoOverlap, Active, At, Name
<1>2. DefaultsHeld'
  BY DEF Aside, SInv, DefaultsHeld, AtMostOne, Cleared, Defs
<1>3. ASSUME NEW n \in Stores
      PROVE  (TokenHeld(stores, secrets, contended, n) /\ LeftExplained(stores, secrets, contended, n))'
  <2>1. TokenHeld(stores, secrets, contended, n) /\ LeftExplained(stores, secrets, contended, n)
    BY DEF SInv
  <2> QED BY <2>1 DEF Aside, TokenHeld, LeftExplained, Uses
<1>4. ASSUME NEW d \in Requests
      PROVE  (/\ Place(requests[d]) /\ Held(stores, secrets, contended, taken, requests[d])
              /\ DropHeld(secrets, contended, requests[d]))'
  <2> DEFINE p == requests[d]
  <2>1. Place(p) /\ Held(stores, secrets, contended, taken, p) /\ DropHeld(secrets, contended, p)
    BY DEF SInv
  <2>2. requests'[d] = p
    BY DEF Aside
  <2> HIDE DEF p
  <2>3. p.pc # "new" => p.ask.name \in Stores
    BY <2>1 DEF Place, Ask
  <2>4. Held(stores, secrets, contended, taken, requests[d])'
    BY <2>1, <2>2, <2>3 DEF Aside, Held, Uses, After, Before
  <2>5. DropHeld(secrets, contended, requests[d])'
    BY <2>1, <2>2, <2>3 DEF Aside, DropHeld
  <2> QED BY <2>1, <2>2, <2>4, <2>5
<1> QED BY <1>1, <1>2, <1>3, <1>4 DEF SInv

LEMMA OtherStepIs ==
  ASSUME SInv, OtherStep
  PROVE  Aside
<1>1. /\ stores \in [Stores -> Store \cup {Absent}] /\ secrets \in [Stores -> SecretOrAbsent]
      /\ bound \subseteq Shared /\ taken \subseteq Stores /\ Shared \subseteq Stores
  BY SecretStoresAssumption DEF SInv, StoresTypeOK
<1>2. ASSUME NEW n \in Stores, ControllerWrites(n) PROVE Aside
  BY <1>1, <1>2 DEF ControllerWrites, PutStore, SameContext, Aside
<1>3. ASSUME NEW n \in Shared, ConnectionWrites(n) PROVE Aside
  <2>1. secrets' = [secrets EXCEPT ![n] = "connection"] /\ secrets[n] # "store" /\ n \in Stores
    BY <1>1, <1>3 DEF ConnectionWrites
  <2>2. /\ secrets' \in [Stores -> SecretOrAbsent]
        /\ \A m \in Stores : secrets'[m] = "store" <=> secrets[m] = "store"
    BY <1>1, <2>1 DEF SecretOrAbsent
  <2> QED BY <1>1, <1>3, <2>2 DEF ConnectionWrites, SameStores, Aside
<1>4. ASSUME NEW n \in Shared, ConnectionDrops(n) PROVE Aside
  <2>1. secrets' = [secrets EXCEPT ![n] = Absent] /\ n \in Stores
    BY <1>1, <1>4 DEF ConnectionDrops
  <2>2. /\ taken \subseteq taken' /\ taken' \subseteq Stores /\ bound' \subseteq Shared
        /\ secrets[n] = "store" => n \in taken'
    BY <1>1, <1>4, <2>1 DEF ConnectionDrops
  <2>3. /\ secrets' \in [Stores -> SecretOrAbsent]
        /\ \A m \in Stores : /\ secrets'[m] = "store" => secrets[m] = "store"
                             /\ secrets[m] = "store" => secrets'[m] = "store" \/ m \in taken'
    BY <1>1, <2>1, <2>2, SecretStoresAssumption DEF SecretOrAbsent
  <2> QED BY <1>4, <2>2, <2>3 DEF ConnectionDrops, SameStores, Aside
<1> QED BY <1>2, <1>3, <1>4 DEF OtherStep

LEMMA InitSInv == StoresInit => SInv
<1> SUFFICES ASSUME StoresInit PROVE SInv
  OBVIOUS
<1>1. NewRequest \in Request
  BY DEF NewRequest, Request, Locations
<1>2. \A r \in Requests : requests[r] = NewRequest
  BY DEF StoresInit
<1>3. stores \in [Stores -> Store \cup {Absent}] /\ secrets \in [Stores -> SecretOrAbsent]
  BY DEF StoresInit, SecretOrAbsent
<1>4. \A n \in Stores : secrets[n] = "store" <=> Uses(stores, n)
  BY SecretStoresAssumption DEF StoresInit, UsesToken, Uses
<1>5. StoresTypeOK /\ FreshThere
  BY <1>1, <1>3 DEF StoresInit, StoresTypeOK, FreshThere
<1>6. NewRequest.pc = "new"
  BY DEF NewRequest
<1>7. NoOverlap
  BY <1>2, <1>6 DEF NoOverlap, Active, At
<1>8. DefaultsHeld
  BY <1>2, <1>6 DEF DefaultsHeld, AtMostOne, Cleared, Defs, StoresInit, Defaults
<1>9. \A n \in Stores : TokenHeld(stores, secrets, contended, n) /\ LeftExplained(stores, secrets, contended, n)
  BY <1>4 DEF TokenHeld, LeftExplained
<1>10. /\ Place(NewRequest) /\ Held(stores, secrets, contended, taken, NewRequest)
       /\ DropHeld(secrets, contended, NewRequest)
  BY <1>6 DEF Place, Held, DropHeld, After
<1> QED BY <1>2, <1>5, <1>7, <1>8, <1>9, <1>10 DEF SInv

LEMMA StorePartKeeps ==
  ASSUME SInv, StorePart
  PROVE  SInv'
<1>1. ASSUME NEW r \in Requests, Submit(r) PROVE SInv'
  BY <1>1, SubmitKeeps
<1>2. ASSUME NEW r \in Requests, StoreStep(r) PROVE SInv'
  BY <1>2, StoreStepGood, GoodKeeps
<1>3. CASE OtherStep
  BY <1>3, OtherStepIs, OthersKeep
<1> QED BY <1>1, <1>2, <1>3 DEF StorePart

LEMMA SameStoresKeep == ASSUME SInv, UNCHANGED storeVars PROVE SInv'
<1>1. Aside
  BY DEF storeVars, SInv, StoresTypeOK, Aside
<1> QED BY <1>1, OthersKeep

-----------------------------------------------------------------------------
(* The external secrets. *)

JInv ==
  /\ externals \in [Externals -> Stores \cup {Absent}] /\ jobs \in [Jobs -> Job]
  /\ esFresh \subseteq Jobs \X Externals /\ removed \subseteq Stores
  /\ RefersToStore /\ \A j \in Jobs : JobHeld(stores, removed, jobs[j])

LEMMA IInvIs == IInv <=> SInv /\ JInv
  BY DEF IInv, SInv, JInv, TypeOK

(* A step of a job as what it makes of the job and of one external secret. *)
JobGood(j, k) ==
  /\ jobs' = [jobs EXCEPT ![j] = k] /\ k \in Job /\ JobHeld(stores, removed, k)
  /\ esFresh' \subseteq Jobs \X Externals
  /\ \/ externals' = externals
     \/ \E e \in Externals, n \in Stores \cup {Absent} :
          /\ externals' = [externals EXCEPT ![e] = n]
          /\ n # Absent => stores[n] # Absent \/ n \in removed

LEMMA JobGoodKeeps ==
  ASSUME JInv, NEW j \in Jobs, NEW k, JobGood(j, k), UNCHANGED <<stores, removed>>
  PROVE  JInv'
<1>1. jobs' \in [Jobs -> Job] /\ \A i \in Jobs : JobHeld(stores, removed, jobs[i])'
  BY DEF JInv, JobGood, JobHeld
<1>2. externals' \in [Externals -> Stores \cup {Absent}]
  BY DEF JInv, JobGood
<1>3. RefersToStore'
  BY DEF JInv, JobGood, RefersToStore
<1> QED BY <1>1, <1>2, <1>3 DEF JInv, JobGood

LEMMA JobStatusIs == \A op, err : JobStatusOf(op, err) \in Codes
  BY DEF JobStatusOf, Codes

Moved(k, pc, c) == [k EXCEPT !.pc = pc, !.code = c]

LEMMA JobMoves ==
  ASSUME JInv, NEW j \in Jobs, NEW pc \in JobLocations \ {"new", "get"}, NEW c \in Codes \cup {Absent},
         ~JobAt(j, "new"),
         pc \in {"store", "create", "rvGet", "put"} => jobs[j].store \in Stores,
         pc \in {"create", "rvGet", "put"} => stores[jobs[j].store] # Absent \/ jobs[j].store \in removed
  PROVE  Moved(jobs[j], pc, c) \in Job /\ JobHeld(stores, removed, Moved(jobs[j], pc, c))
<1>1. jobs[j] \in Job /\ JobHeld(stores, removed, jobs[j])
  BY DEF JInv
<1> DEFINE k == Moved(jobs[j], pc, c)
<1>2. k \in Job /\ k.pc = pc /\ k.op = jobs[j].op /\ k.name = jobs[j].name /\ k.store = jobs[j].store
  BY <1>1 DEF Job, Moved
<1>3. jobs[j].op \in {"create", "update", "delete"} /\ jobs[j].name \in Externals
  BY <1>1 DEF JobHeld, JobAt
<1> HIDE DEF k
<1>4. JobHeld(stores, removed, k)
  BY <1>2, <1>3 DEF JobHeld
<1> QED BY <1>2, <1>4 DEF k

LEMMA JobMoveGood ==
  ASSUME JInv, NEW j \in Jobs, NEW pc \in JobLocations \ {"new", "get"}, ~JobAt(j, "new"), JobGoto(j, pc),
         pc \in {"store", "create", "rvGet", "put"} => jobs[j].store \in Stores,
         pc \in {"create", "rvGet", "put"} => stores[jobs[j].store] # Absent \/ jobs[j].store \in removed
  PROVE  \E k : /\ jobs' = [jobs EXCEPT ![j] = k] /\ k \in Job /\ JobHeld(stores, removed, k)
<1>1. jobs[j] \in Job /\ jobs \in [Jobs -> Job]
  BY DEF JInv
<1> DEFINE c == jobs[j].code
           k == Moved(jobs[j], pc, c)
<1>0. c \in Codes \cup {Absent}
  BY <1>1 DEF Job
<1>3. k = [jobs[j] EXCEPT !.pc = pc]
  BY <1>1 DEF Job, Moved
<1> HIDE DEF c
<1>2. k \in Job /\ JobHeld(stores, removed, k)
  BY <1>0, JobMoves
<1>4. jobs' = [jobs EXCEPT ![j] = [jobs[j] EXCEPT !.pc = pc]]
  BY <1>1 DEF JobGoto
<1> QED BY <1>2, <1>3, <1>4

LEMMA JobAnswerGood ==
  ASSUME JInv, NEW j \in Jobs, NEW err, ~JobAt(j, "new"), JobAnswer(j, err)
  PROVE  \E k : /\ jobs' = [jobs EXCEPT ![j] = k] /\ k \in Job /\ JobHeld(stores, removed, k)
<1> DEFINE c == JobStatusOf(jobs[j].op, err)
           k == Moved(jobs[j], "done", c)
<1>1. c \in Codes
  BY JobStatusIs
<1>2. jobs' = [jobs EXCEPT ![j] = k]
  BY DEF JobAnswer, JInv, Moved
<1> HIDE DEF c
<1>3. k \in Job /\ JobHeld(stores, removed, k)
  BY <1>1, JobMoves DEF JobLocations
<1> QED BY <1>2, <1>3

LEMMA SubmitJobGood ==
  ASSUME JInv, NEW j \in Jobs, SubmitJob(j)
  PROVE  \E k : JobGood(j, k)
<1>1. jobs[j] \in Job /\ jobs \in [Jobs -> Job] /\ UNCHANGED <<externals, esFresh>>
      /\ esFresh \subseteq Jobs \X Externals
  BY DEF JInv, SubmitJob, SameExternals
<1>2. PICK e \in Externals, n \in Stores, v \in BOOLEAN :
       \/ jobs' = [jobs EXCEPT ![j] =
            [jobs[j] EXCEPT !.pc = IF v THEN "store" ELSE "done", !.op = "create", !.name = e, !.store = n,
                      !.valid = v, !.code = IF v THEN Absent ELSE "400"]]
       \/ jobs' = [jobs EXCEPT ![j] =
            [jobs[j] EXCEPT !.pc = "get", !.op = "update", !.name = e, !.store = n, !.valid = v]]
       \/ jobs' = [jobs EXCEPT ![j] = [jobs[j] EXCEPT !.pc = "get", !.op = "delete", !.name = e]]
  BY Zenon DEF SubmitJob
<1>3. ASSUME NEW k, k \in Job, JobHeld(stores, removed, k), jobs' = [jobs EXCEPT ![j] = k]
      PROVE  JobGood(j, k)
  BY <1>1, <1>3 DEF JobGood
<1> DEFINE a == [jobs[j] EXCEPT !.pc = IF v THEN "store" ELSE "done", !.op = "create", !.name = e, !.store = n,
                      !.valid = v, !.code = IF v THEN Absent ELSE "400"]
           b == [jobs[j] EXCEPT !.pc = "get", !.op = "update", !.name = e, !.store = n, !.valid = v]
           c == [jobs[j] EXCEPT !.pc = "get", !.op = "delete", !.name = e]
<1>4. a \in Job /\ a.pc \in {"store", "done"} /\ a.op = "create" /\ a.name = e /\ a.store = n
  BY <1>1 DEF Job, JobLocations, Codes
<1>5. b \in Job /\ b.pc = "get" /\ b.op = "update" /\ b.name = e /\ b.store = n
  BY <1>1 DEF Job, JobLocations
<1>6. c \in Job /\ c.pc = "get" /\ c.op = "delete" /\ c.name = e
  BY <1>1 DEF Job, JobLocations
<1>7. jobs' = [jobs EXCEPT ![j] = a] \/ jobs' = [jobs EXCEPT ![j] = b] \/ jobs' = [jobs EXCEPT ![j] = c]
  BY <1>2
<1> HIDE DEF a, b, c
<1>8. JobHeld(stores, removed, a) /\ JobHeld(stores, removed, b) /\ JobHeld(stores, removed, c)
  BY <1>4, <1>5, <1>6 DEF JobHeld
<1> QED BY <1>3, <1>4, <1>5, <1>6, <1>7, <1>8

LEMMA JobStepGood ==
  ASSUME JInv, NEW j \in Jobs, JobStep(j)
  PROVE  \E k : JobGood(j, k)
<1>1. /\ jobs[j] \in Job /\ JobHeld(stores, removed, jobs[j])
      /\ esFresh \subseteq Jobs \X Externals /\ externals \in [Externals -> Stores \cup {Absent}]
  BY DEF JInv
<1>2. ~JobAt(j, "new")
  BY DEF JobStep, GetExternal, VerifyStore, CreateExternal, GetExternalVersion, UpdateExternal,
         ReadExternalBack, DeleteExternal, JobCallFails, JobAt
<1>3. jobs[j].name \in Externals
  BY <1>1, <1>2 DEF JobHeld, JobAt
<1>4. ASSUME NEW err, JobAnswer(j, err)
      PROVE  \E k : jobs' = [jobs EXCEPT ![j] = k] /\ k \in Job /\ JobHeld(stores, removed, k)
  BY <1>2, <1>4, JobAnswerGood
<1>5. ASSUME NEW k, jobs' = [jobs EXCEPT ![j] = k], k \in Job, JobHeld(stores, removed, k), SameExternals
      PROVE  JobGood(j, k)
  BY <1>1, <1>5 DEF JobGood, SameExternals
<1>6. ASSUME NEW k, jobs' = [jobs EXCEPT ![j] = k], k \in Job, JobHeld(stores, removed, k),
             NEW n \in Stores \cup {Absent}, n # Absent => stores[n] # Absent \/ n \in removed,
             PutExternal(jobs[j].name, n)
      PROVE  JobGood(j, k)
  BY <1>1, <1>3, <1>6 DEF JobGood, PutExternal
<1>7. ASSUME GetExternal(j) PROVE \E k : JobGood(j, k)
  <2>1. CASE \E err : JobAnswer(j, err)
    BY <1>4, <1>5, <1>7, <2>1 DEF GetExternal
  <2>2. CASE JobGoto(j, "delete")
    <3>1. \E k : jobs' = [jobs EXCEPT ![j] = k] /\ k \in Job /\ JobHeld(stores, removed, k)
      BY <1>2, <2>2, JobMoveGood DEF JobLocations
    <3> QED BY <1>5, <1>7, <3>1 DEF GetExternal
  <2>3. CASE jobs[j].op = "update" /\ JobGoto(j, "store")
    <3>1. jobs[j].store \in Stores
      BY <1>1, <1>7, <2>3 DEF JobHeld, GetExternal, JobAt
    <3>2. \E k : jobs' = [jobs EXCEPT ![j] = k] /\ k \in Job /\ JobHeld(stores, removed, k)
      BY <1>2, <2>3, <3>1, JobMoveGood DEF JobLocations
    <3> QED BY <1>5, <1>7, <3>2 DEF GetExternal
  <2> QED BY <1>7, <2>1, <2>2, <2>3 DEF GetExternal
<1>8. ASSUME VerifyStore(j) PROVE \E k : JobGood(j, k)
  <2>1. CASE \E err : JobAnswer(j, err)
    BY <1>4, <1>5, <1>8, <2>1 DEF VerifyStore
  <2>2. ASSUME NEW pc \in {"create", "rvGet"}, JobGoto(j, pc), stores[jobs[j].store] # Absent
        PROVE  \E k : JobGood(j, k)
    <3>1. jobs[j].store \in Stores
      BY <1>1, <1>8 DEF JobHeld, VerifyStore, JobAt
    <3>2. \E k : jobs' = [jobs EXCEPT ![j] = k] /\ k \in Job /\ JobHeld(stores, removed, k)
      BY <1>2, <2>2, <3>1, JobMoveGood DEF JobLocations
    <3> QED BY <1>5, <1>8, <3>2 DEF VerifyStore
  <2> QED BY <1>8, <2>1, <2>2 DEF VerifyStore
<1>9. ASSUME PutExternal(jobs[j].name, jobs[j].store), JobGoto(j, "readBack"),
             jobs[j].pc \in {"create", "put"}
      PROVE  \E k : JobGood(j, k)
  <2>1. jobs[j].store \in Stores /\ (stores[jobs[j].store] # Absent \/ jobs[j].store \in removed)
    BY <1>1, <1>9 DEF JobHeld
  <2>2. \E k : jobs' = [jobs EXCEPT ![j] = k] /\ k \in Job /\ JobHeld(stores, removed, k)
    BY <1>2, <1>9, JobMoveGood DEF JobLocations
  <2> QED BY <1>6, <1>9, <2>1, <2>2
<1>10. ASSUME CreateExternal(j) PROVE \E k : JobGood(j, k)
  BY <1>4, <1>5, <1>9, <1>10 DEF CreateExternal, JobAt
<1>11. ASSUME UpdateExternal(j) PROVE \E k : JobGood(j, k)
  BY <1>4, <1>5, <1>9, <1>11 DEF UpdateExternal, JobAt
<1>12. ASSUME GetExternalVersion(j) PROVE \E k : JobGood(j, k)
  <2>1. esFresh' \subseteq Jobs \X Externals /\ externals' = externals
    BY <1>1, <1>3, <1>12 DEF GetExternalVersion
  <2>2. ASSUME NEW k, jobs' = [jobs EXCEPT ![j] = k], k \in Job, JobHeld(stores, removed, k)
        PROVE  JobGood(j, k)
    BY <2>1, <2>2 DEF JobGood
  <2>3. CASE JobAnswer(j, "NotFound")
    BY <1>4, <2>2, <2>3
  <2>4. CASE JobGoto(j, "put")
    <3>1. jobs[j].store \in Stores /\ (stores[jobs[j].store] # Absent \/ jobs[j].store \in removed)
      BY <1>1, <1>12 DEF JobHeld, GetExternalVersion, JobAt
    <3>2. \E k : jobs' = [jobs EXCEPT ![j] = k] /\ k \in Job /\ JobHeld(stores, removed, k)
      BY <1>2, <2>4, <3>1, JobMoveGood DEF JobLocations
    <3> QED BY <2>2, <3>2
  <2> QED BY <1>12, <2>3, <2>4 DEF GetExternalVersion
<1>13. ASSUME ReadExternalBack(j) \/ JobCallFails(j) PROVE \E k : JobGood(j, k)
  BY <1>4, <1>5, <1>13 DEF ReadExternalBack, JobCallFails
<1>14. ASSUME DeleteExternal(j) PROVE \E k : JobGood(j, k)
  <2>1. CASE PutExternal(jobs[j].name, Absent) /\ JobAnswer(j, "none")
    BY <1>4, <1>6, <2>1
  <2>2. CASE JobAnswer(j, "NotFound") /\ SameExternals
    BY <1>4, <1>5, <2>2
  <2> QED BY <1>14, <2>1, <2>2 DEF DeleteExternal
<1> QED BY <1>7, <1>8, <1>10, <1>11, <1>12, <1>13, <1>14 DEF JobStep

(* A store that goes is remembered as removed. *)
LEMMA StorePartKeepsJobs ==
  ASSUME JInv, StorePart
  PROVE  JInv'
<1>1. /\ UNCHANGED <<externals, jobs, esFresh>> /\ removed \subseteq Stores
      /\ removed' = removed \cup {n \in Stores : stores[n] # Absent /\ stores'[n] = Absent}
  BY DEF JInv, StorePart
<1>2. ASSUME NEW n \in Stores, stores[n] # Absent \/ n \in removed
      PROVE  stores'[n] # Absent \/ n \in removed'
  BY <1>1, <1>2
<1>3. RefersToStore'
  BY <1>1, <1>2 DEF JInv, RefersToStore
<1>4. \A j \in Jobs : JobHeld(stores, removed, jobs[j])'
  BY <1>1, <1>2 DEF JInv, JobHeld
<1> QED BY <1>1, <1>3, <1>4 DEF JInv

LEMMA InitInv == Init => IInv
<1> SUFFICES ASSUME Init PROVE IInv
  OBVIOUS
<1>1. SInv
  BY InitSInv DEF Init
<1>2. NewJob \in Job /\ NewJob.pc = "new"
  BY DEF NewJob, Job, JobLocations
<1>3. \A j \in Jobs : JobHeld(stores, removed, jobs[j])
  BY <1>2 DEF Init, JobHeld
<1>4. RefersToStore
  BY DEF Init, RefersToStore
<1>5. JInv
  BY <1>2, <1>3, <1>4 DEF Init, JInv
<1> QED BY <1>1, <1>5, IInvIs

LEMMA NextInv == IInv /\ [Next]_vars => IInv'
<1> SUFFICES ASSUME IInv, [Next]_vars PROVE IInv'
  OBVIOUS
<1>1. SInv /\ JInv
  BY IInvIs
<1>2. CASE StorePart
  BY <1>1, <1>2, StorePartKeeps, StorePartKeepsJobs, IInvIs DEF IInv, SInv, JInv, TypeOK
<1>3. CASE ExternalPart
  <2>1. UNCHANGED storeVars /\ UNCHANGED <<stores, removed>>
    BY <1>3 DEF ExternalPart, storeVars
  <2>2. PICK j \in Jobs : SubmitJob(j) \/ JobStep(j)
    BY <1>3 DEF ExternalPart
  <2>3. SInv'
    BY <1>1, <2>1, SameStoresKeep
  <2>4. JInv'
    BY <1>1, <2>1, <2>2, SubmitJobGood, JobStepGood, JobGoodKeeps
  <2> QED BY <2>3, <2>4 DEF IInv, SInv, JInv, TypeOK
<1>4. CASE UNCHANGED vars
  <2>1. UNCHANGED storeVars /\ UNCHANGED <<externals, jobs, esFresh, removed, stores>>
    BY <1>4 DEF vars, storeVars, esVars
  <2>2. SInv'
    BY <1>1, <2>1, SameStoresKeep
  <2>3. JInv'
    BY <1>1, <2>1 DEF JInv, RefersToStore, JobHeld
  <2> QED BY <2>2, <2>3 DEF IInv, SInv, JInv, TypeOK
<1> QED BY <1>2, <1>3, <1>4 DEF Next

-----------------------------------------------------------------------------
(* Theorems *)

(* The handlers of both kinds keep the objects and their own locals within   *)
(* their types, however many requests are at work.                           *)
THEOREM TypeCorrect == Spec => []TypeOK
<1>1. IInv => TypeOK
  BY DEF IInv
<1> QED BY <1>1, InitInv, NextInv, PTL DEF Spec

(* verifySecretStoreExists lets no reference through to a store that was     *)
(* never there, whatever is deleted between the check and the write.         *)
THEOREM RefersToStoreHolds == Spec => []RefersToStore
<1>1. IInv => RefersToStore
  BY DEF IInv
<1> QED BY <1>1, InitInv, NextInv, PTL DEF Spec

LEMMA HalfIs ==
  ASSUME SInv, NEW n \in Stores, NEW r \in Requests, Half(requests[r], n)
  PROVE  HalfDeleted(n)
<1>1. requests[r].ask \in Ask
  BY DEF Half, SInv, Place
<1>2. On(r, n)
  BY <1>1, AbsentApart DEF On, Half, Name
<1> QED BY <1>2 DEF HalfDeleted, Half, Op, At

(* A store that authenticates with a token has its token, and at most one    *)
(* store is the default, on the conditions the property names.               *)
THEOREM StoresUsableHolds == Spec => []StoresUsable
<1>1. ASSUME SInv PROVE StoresUsable
  <2>1. TokenStoreHasToken
    <3>1. SUFFICES ASSUME NEW n \in Stores, n \notin contended \cup taken, UsesToken(n), ~HalfDeleted(n)
                   PROVE  secrets[n] = "store"
      BY DEF TokenStoreHasToken
    <3>2. TokenHeld(stores, secrets, contended, n)
      BY <1>1 DEF SInv
    <3> QED BY <1>1, <3>1, <3>2, HalfIs DEF TokenHeld, Uses, UsesToken
  <2>2. OneDefault
    BY <1>1 DEF SInv, DefaultsHeld, OneDefault, AtMostOne, Defs, Defaults
  <2> QED BY <2>1, <2>2 DEF StoresUsable
<1>2. IInv => StoresUsable
  BY <1>1, IInvIs
<1> QED BY <1>2, InitInv, NextInv, PTL DEF Spec

(* A token nobody uses is one a failed or unfinished request explains, and a *)
(* refused request has changed nothing.                                      *)
THEOREM FailuresContainedHolds == Spec => []FailuresContained
<1>1. ASSUME SInv PROVE FailuresContained
  <2>1. NoLeftoverToken
    <3>1. SUFFICES ASSUME NEW n \in Stores, n \notin contended, secrets[n] = "store", ~UsesToken(n)
                   PROVE  \E r \in Requests : On(r, n) /\ (r \in Active \/ Troubled(r))
      BY DEF NoLeftoverToken
    <3>2. LeftExplained(stores, secrets, contended, n)
      BY <1>1 DEF SInv
    <3>3. PICK r \in Requests : Explains(requests[r], n)
      BY <3>1, <3>2 DEF LeftExplained, Uses, UsesToken
    <3>4. requests[r].ask \in Ask
      BY <1>1, <3>3 DEF Explains, SInv, Place
    <3>5. On(r, n)
      BY <3>3, <3>4, AbsentApart DEF On, Explains, Name
    <3>6. r \in Active \/ Troubled(r)
      BY <3>3 DEF Explains, Responsible, After, Active, Troubled, At
    <3> QED BY <3>5, <3>6
  <2>2. RejectedHarmless
    <3>1. SUFFICES ASSUME NEW r \in Requests, At(r, "done"), requests[r].wrote
                   PROVE  /\ requests[r].code # "400"
                          /\ requests[r].code = "404" => Name(r) \in contended
      BY DEF RejectedHarmless
    <3>2. Place(requests[r]) /\ Held(stores, secrets, contended, taken, requests[r])
      BY <1>1 DEF SInv
    <3> QED BY <3>1, <3>2 DEF Place, Held, At, Name
  <2> QED BY <2>1, <2>2 DEF FailuresContained
<1>2. IInv => FailuresContained
  BY <1>1, IInvIs
<1> QED BY <1>2, InitInv, NextInv, PTL DEF Spec

LEMMA StoreActions ==
  ASSUME SInv, [Next]_vars
  PROVE  \/ \E r \in Requests : Submit(r)
         \/ \E r \in Requests : \E q : Good(r, q)
         \/ OtherStep
         \/ UNCHANGED storeVars
<1>1. CASE \E r \in Requests : StoreStep(r)
  BY <1>1, StoreStepGood
<1> QED BY <1>1 DEF Next, StorePart, ExternalPart, vars

(* The write of an update that names no account puts back the one it read,   *)
(* which the store still has when nobody else works on it.                   *)
LEMMA AccountStep ==
  ASSUME SInv, [Next]_vars, NEW n \in Stores, n \notin contended,
         stores[n] # Absent, stores[n].auth = "kubernetes",
         NEW r \in Requests, At(r, "put"), Name(r) = n, requests[r].ask.account = Absent
  PROVE  stores'[n] # Absent /\ (stores'[n].auth = "kubernetes" => stores'[n].account = stores[n].account)
<1>1. stores \in [Stores -> Store \cup {Absent}] /\ r \in Active
  BY DEF SInv, StoresTypeOK, Active, At
<1>2. CASE stores' = stores
  BY <1>2
<1>3. CASE OtherStep
  BY <1>2, <1>3, OtherStepIs DEF Aside
<1>4. ASSUME NEW d \in Requests, NEW q, Good(d, q) PROVE
        stores'[n] # Absent /\ (stores'[n].auth = "kubernetes" => stores'[n].account = stores[n].account)
  <2>1. d \in Active
    BY <1>4 DEF Good, Active, At
  <2>2. CASE d # r
    <3>1. Name(d) # n
      BY <1>1, <2>1, <2>2 DEF SInv, NoOverlap
    <3> QED BY <1>4, <3>1 DEF Good, Spared, SameAuth
  <2>3. CASE d = r
    <3>1. stores' = stores \/ stores' = [stores EXCEPT ![n] = NewStore(r)]
      BY <1>4, <2>3 DEF Good
    <3>2. ~At(r, "new")
      BY DEF At
    <3>3. Place(requests[r]) /\ Held(stores, secrets, contended, taken, requests[r])
      BY DEF SInv
    <3>4. requests[r].ask.op = "update" /\ requests[r].account = stores[n].account
      BY <3>3 DEF Place, Held, At, Name, Before
    <3>5. stores[n].account \in Accounts
      BY <1>1, AbsentApart DEF Store
    <3>6. NewStore(r).auth = "kubernetes" => NewStore(r).account = stores[n].account
      BY <3>4, <3>5, AbsentApart DEF NewStore, AccountFor
    <3>7. NewStore(r) # Absent
      BY NewStoreIs DEF At
    <3> QED BY <1>1, <1>2, <3>1, <3>6, <3>7
  <2> QED BY <2>2, <2>3
<1>5. ASSUME NEW d \in Requests, Submit(d) PROVE stores' = stores
  BY <1>5 DEF Submit
<1>6. UNCHANGED storeVars => stores' = stores
  BY DEF storeVars
<1> QED BY <1>2, <1>3, <1>4, <1>5, <1>6, StoreActions

LEMMA SpareStep ==
  ASSUME SInv, [Next]_vars, NEW n \in Stores, n \notin contended \cup taken,
         secrets[n] = "connection", secrets'[n] # "connection", ~HalfDeleted(n)
  PROVE  \/ requests' = requests
         \/ \E r \in Requests : /\ On(r, n) /\ requests'[r] # requests[r]
                                /\ Op(r) = "delete" \/ requests[r].ask.token
<1>1. requests \in [Requests -> Request]
  BY DEF SInv, StoresTypeOK
<1>2. ASSUME NEW d \in Requests, Submit(d) PROVE FALSE
  BY <1>2 DEF Submit
<1>3. UNCHANGED storeVars => FALSE
  BY DEF storeVars
<1>4. OtherStep => requests' = requests
  BY OtherStepIs DEF Aside
<1>5. ASSUME NEW r \in Requests, NEW q, Good(r, q), requests' # requests
      PROVE  /\ On(r, n) /\ requests'[r] # requests[r]
             /\ Op(r) = "delete" \/ requests[r].ask.token
  <2>1. requests' = [requests EXCEPT ![r] = q] /\ requests[r].pc # "new" /\ Name(r) = n
    BY <1>5 DEF Good, Spared
  <2>2. requests'[r] # requests[r]
    BY <1>1, <1>5, <2>1
  <2>3. requests[r].ask \in Ask /\ Place(requests[r]) /\ DropHeld(secrets, contended, requests[r])
    BY <2>1 DEF SInv, Place
  <2>4. On(r, n)
    BY <2>1, <2>3, AbsentApart DEF On
  <2>5. At(r, "dropSecret") \/ requests[r].ask.token
    BY <1>5, <2>1 DEF Good
  <2>6. At(r, "dropSecret") => Op(r) = "delete"
    <3>1. ~\E e \in Requests : Half(requests[e], n)
      BY HalfIs
    <3> QED BY <2>1, <2>3, <3>1 DEF Place, DropHeld, At, Name, Op
  <2> QED BY <2>2, <2>4, <2>5, <2>6
<1> QED BY <1>2, <1>3, <1>4, <1>5, StoreActions

(* UpdateSecretStore takes neither the ServiceAccount it was not sent nor    *)
(* the credentials of a connection of the same name.                         *)
THEOREM UpdatesTakeNothingHolds == Spec => UpdatesTakeNothing
<1>0. IInv => SInv
  BY IInvIs
<1>1. IInv /\ [Next]_vars =>
        [\A n \in Stores \ contended :
           /\ stores[n] # Absent /\ stores[n].auth = "kubernetes"
           /\ \E r \in Requests : At(r, "put") /\ Name(r) = n /\ requests[r].ask.account = Absent
           => stores'[n] # Absent /\ (stores'[n].auth = "kubernetes" => stores'[n].account = stores[n].account)
        ]_storeVars
  BY <1>0, AccountStep
<1>2. IInv /\ [Next]_vars =>
        [\A n \in Stores \ (contended \cup taken) :
           secrets[n] = "connection" /\ secrets'[n] # "connection" /\ ~HalfDeleted(n)
             => \/ requests' = requests
                \/ \E r \in Requests : /\ On(r, n) /\ requests'[r] # requests[r]
                                       /\ Op(r) = "delete" \/ requests[r].ask.token
        ]_storeVars
  BY <1>0, SpareStep
<1> QED BY <1>1, <1>2, InitInv, NextInv, PTL
        DEF Spec, UpdatesTakeNothing, AccountKept, ConnectionSecretSpared
=============================================================================
