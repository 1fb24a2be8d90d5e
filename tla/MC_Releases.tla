----------------------------- MODULE MC_Releases -----------------------------
(* Releases on a small instance. *)
EXTENDS Releases

(* One name extends the other. *)
Jupyter == <<"jupyter">>
JupyterDs == <<"jupyter", "ds">>
OneInstance == {Jupyter}
TwoInstances == {Jupyter, JupyterDs}

(* A user's object and one the chart names after the release. *)
UserAndChart == {<<"alice">>, <<>>}

(* The new version no longer takes the old setting. *)
NoOldSettingOnNew ==
  {s \in [service : Services, tag : Tags, value : Values] : s.tag = "new" => s.value # "old"}
AllSpecs == [service : Services, tag : Tags, value : Values]

(* Every combination of a tag or none and a value or none. *)
AllEdits == [tag : Tags \cup {Absent}, value : Values \cup {Absent}]

Symmetry == Permutations(Requests)
=============================================================================
