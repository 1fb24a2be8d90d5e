--------------------------- MODULE ExternalSecrets ---------------------------
(***************************************************************************)
(* The external secrets of one project, beside its secret stores:          *)
(* DefaultExternalSecretService reads the store an ExternalSecret names    *)
(* before it writes the ExternalSecret.  Deleting a store looks at no      *)
(* ExternalSecret.  What an ExternalSecret maps to which key is in         *)
(* SecretForms; here it is the store it reads from.                        *)
(***************************************************************************)
EXTENDS SecretStores

CONSTANTS
  Jobs,         \* requests to the external secret handlers
  Externals,    \* names of external secrets
  MaxRequests   \* bound on the requests of both kinds

ASSUME ExternalSecretsAssumption == Absent \notin Stores /\ MaxRequests \in Nat

VARIABLES
  externals,  \* the store each ExternalSecret reads from
  jobs,       \* what each job asks for, and how far it is
  esFresh,    \* who has read the current version of which ExternalSecret
  removed     \* history: stores that were deleted

esVars == <<externals, jobs, esFresh, removed>>
vars == <<storeVars, esVars>>

JobLocations == {"new", "get", "store", "create", "rvGet", "put", "readBack", "delete", "done"}

(* The operation, the ExternalSecret and the store it is to read from, the   *)
(* verdict of validateExternalSecretRequest, and the answer.                 *)
Job ==
  [pc : JobLocations, op : {"create", "update", "delete", Absent},
   name : Externals \cup {Absent}, store : Stores \cup {Absent}, valid : BOOLEAN,
   code : Codes \cup {Absent}]

NewJob == [pc |-> "new", op |-> Absent, name |-> Absent, store |-> Absent, valid |-> TRUE, code |-> Absent]

TypeOK ==
  /\ StoresTypeOK
  /\ externals \in [Externals -> Stores \cup {Absent}]
  /\ jobs \in [Jobs -> Job]
  /\ esFresh \subseteq Jobs \X Externals
  /\ removed \subseteq Stores

Init ==
  /\ StoresInit
  /\ externals \in [Externals -> {n \in Stores : stores[n] # Absent} \cup {Absent}]
  /\ jobs = [j \in Jobs |-> NewJob]
  /\ esFresh = {}
  /\ removed = {}

JobAt(j, pc) == jobs[j].pc = pc
JobGoto(j, pc) == jobs' = [jobs EXCEPT ![j].pc = pc]

(* The answers of the handlers; a create that finds no store is 404 too. *)
JobStatusOf(op, err) ==
  CASE err = "none" -> "2xx"
    [] err = "Invalid" -> "400"
    [] err = "NotFound" -> "404"
    [] err = "AlreadyExists" /\ op = "create" -> "409"
    [] OTHER -> "500"

JobAnswer(j, err) ==
  jobs' = [jobs EXCEPT ![j].pc = "done", ![j].code = JobStatusOf(jobs[j].op, err)]

PutExternal(e, n) ==
  /\ externals' = [externals EXCEPT ![e] = n]
  /\ esFresh' = {p \in esFresh : p[2] # e}

SameExternals == UNCHANGED <<externals, esFresh>>

SubmitJob(j) ==
  /\ JobAt(j, "new")
  /\ \E e \in Externals, n \in Stores, v \in BOOLEAN :
       \/ jobs' = [jobs EXCEPT ![j] =
            [@ EXCEPT !.pc = IF v THEN "store" ELSE "done", !.op = "create", !.name = e, !.store = n,
                      !.valid = v, !.code = IF v THEN Absent ELSE "400"]]
       \/ jobs' = [jobs EXCEPT ![j] =
            [@ EXCEPT !.pc = "get", !.op = "update", !.name = e, !.store = n, !.valid = v]]
       \/ jobs' = [jobs EXCEPT ![j] = [@ EXCEPT !.pc = "get", !.op = "delete", !.name = e]]
  /\ SameExternals

(* Get of an update or a delete; an update validates its body next. *)
GetExternal(j) ==
  /\ JobAt(j, "get")
  /\ \/ externals[jobs[j].name] = Absent /\ JobAnswer(j, "NotFound")
     \/ externals[jobs[j].name] # Absent /\ jobs[j].op = "delete" /\ JobGoto(j, "delete")
     \/ /\ externals[jobs[j].name] # Absent /\ jobs[j].op = "update"
        /\ IF jobs[j].valid THEN JobGoto(j, "store") ELSE JobAnswer(j, "Invalid")
  /\ SameExternals

(* Mutant: only a create looks for the store. *)
VerifyStore_OnCreate(j) ==
  /\ JobAt(j, "store")
  /\ \/ stores[jobs[j].store] = Absent /\ jobs[j].op = "create" /\ JobAnswer(j, "NotFound")
     \/ /\ stores[jobs[j].store] # Absent \/ jobs[j].op = "update"
        /\ JobGoto(j, IF jobs[j].op = "create" THEN "create" ELSE "rvGet")
  /\ SameExternals

VerifyStore(j) ==
  /\ JobAt(j, "store")
  /\ \/ stores[jobs[j].store] = Absent /\ JobAnswer(j, "NotFound")
     \/ /\ stores[jobs[j].store] # Absent
        /\ JobGoto(j, IF jobs[j].op = "create" THEN "create" ELSE "rvGet")
  /\ SameExternals

CreateExternal(j) ==
  /\ JobAt(j, "create")
  /\ \/ /\ externals[jobs[j].name] = Absent
        /\ PutExternal(jobs[j].name, jobs[j].store)
        /\ JobGoto(j, "readBack")
     \/ /\ externals[jobs[j].name] # Absent
        /\ JobAnswer(j, "AlreadyExists") /\ SameExternals

(* As for the stores, the version is read again right before the write. *)
GetExternalVersion(j) ==
  /\ JobAt(j, "rvGet")
  /\ \/ externals[jobs[j].name] = Absent /\ JobAnswer(j, "NotFound") /\ UNCHANGED esFresh
     \/ /\ externals[jobs[j].name] # Absent
        /\ JobGoto(j, "put")
        /\ esFresh' = esFresh \cup {<<j, jobs[j].name>>}
  /\ UNCHANGED externals

UpdateExternal(j) ==
  /\ JobAt(j, "put")
  /\ \/ /\ <<j, jobs[j].name>> \in esFresh
        /\ PutExternal(jobs[j].name, jobs[j].store)
        /\ JobGoto(j, "readBack")
     \/ /\ <<j, jobs[j].name>> \notin esFresh
        /\ JobAnswer(j, IF externals[jobs[j].name] = Absent THEN "NotFound" ELSE "Other")
        /\ SameExternals

ReadExternalBack(j) ==
  /\ JobAt(j, "readBack")
  /\ JobAnswer(j, IF externals[jobs[j].name] = Absent THEN "NotFound" ELSE "none")
  /\ SameExternals

DeleteExternal(j) ==
  /\ JobAt(j, "delete")
  /\ \/ /\ externals[jobs[j].name] # Absent
        /\ PutExternal(jobs[j].name, Absent) /\ JobAnswer(j, "none")
     \/ /\ externals[jobs[j].name] = Absent
        /\ JobAnswer(j, "NotFound") /\ SameExternals

JobCallFails(j) ==
  /\ jobs[j].pc \in {"get", "store", "create", "rvGet", "put", "readBack", "delete"}
  /\ JobAnswer(j, "Other") /\ SameExternals

JobStep(j) ==
  \/ GetExternal(j) \/ VerifyStore(j) \/ CreateExternal(j) \/ GetExternalVersion(j)
  \/ UpdateExternal(j) \/ ReadExternalBack(j) \/ DeleteExternal(j) \/ JobCallFails(j)

Started ==
  Cardinality({r \in Requests : ~At(r, "new")}) + Cardinality({j \in Jobs : ~JobAt(j, "new")})

StorePart ==
  /\ \/ Started < MaxRequests /\ \E r \in Requests : Submit(r)
     \/ \E r \in Requests : StoreStep(r)
     \/ OtherStep
  /\ removed' = removed \cup {n \in Stores : stores[n] # Absent /\ stores'[n] = Absent}
  /\ UNCHANGED <<externals, jobs, esFresh>>

ExternalPart ==
  /\ \/ Started < MaxRequests /\ \E j \in Jobs : SubmitJob(j)
     \/ \E j \in Jobs : JobStep(j)
  /\ UNCHANGED storeVars /\ UNCHANGED removed

Next == StorePart \/ ExternalPart

Spec == Init /\ [][Next]_vars

(* An ExternalSecret without its store is one whose store was deleted: the   *)
(* check of CreateExternalSecret and UpdateExternalSecret never lets a       *)
(* reference through to a store that has not been there.                     *)
RefersToStore ==
  \A e \in Externals : externals[e] # Absent /\ stores[externals[e]] = Absent => externals[e] \in removed
=============================================================================
