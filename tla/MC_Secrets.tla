----------------------------- MODULE MC_Secrets -----------------------------
(* Secret stores and external secrets on a small instance. *)
EXTENDS ExternalSecrets, TLC

(* An update has one bad body, a create is refused for want of a token;     *)
(* creates name no account, as the stores that are there at the start have  *)
(* every account; a default comes with a token, a kept token or a kept      *)
(* account; and a store that shares its name with no connection is there    *)
(* for being the other default, and for external secrets that read from it. *)
SomeAsks ==
  {a \in Ask : /\ ~a.valid => a.op = "update" /\ a.token
               /\ a.account # Absent => a.account = DefaultAccount /\ a.op = "update"
               /\ a.auth = "token" /\ a.op # "delete" => (a.isDefault <=> (a.token <=> a.op = "create"))
               /\ a.auth = "kubernetes" => (a.isDefault <=> (a.op = "update" /\ a.account = Absent))
               /\ a.name \in Shared \/ a.op = "delete" \/ a.isDefault}

(* The external secret that is there at the start, if any, reads from the   *)
(* store that shares its name with no connection, and is there with it: a   *)
(* job finds it or not, and either store present or not.                    *)
StartsFew ==
  /\ Init
  /\ \A e \in Externals, n \in Stores \ Shared : externals[e] = IF stores[n] = Absent THEN Absent ELSE n

SpecFew == StartsFew /\ [][Next]_vars

Symmetry == Permutations(Requests)
=============================================================================
