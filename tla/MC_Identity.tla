----------------------------- MODULE MC_Identity -----------------------------
(* Identity on a small instance. *)
EXTENDS Identity, TLC

CONSTANT Old  \* the password that creates set

(* Two users and two groups whose bindings may share the name a-b-c. *)
TwoUsers == {<<"a">>, <<"a", "b">>}
TwoGroups == {<<"c">>, <<"b", "c">>}

(* A create sets the one password, an update or an edit the other or none;   *)
(* an edit sends the groups it is shown, a delete sends nothing.             *)
SomeAsks ==
  {a \in Ask : /\ a.op = "create" <=> a.hash = Old
               /\ a.op \in {"edit", "delete"} => a.groups = {}
               /\ a.op = "delete" => a.hash = Absent}

Symmetry == Permutations(Requests)
=============================================================================
