--------------------------- MODULE ConnectionForms ---------------------------
(***************************************************************************)
(* What the forms of connections send and what is shown of connections:    *)
(* the normalisation and validation of submitted values against a contract *)
(* descriptor, the values that Create and Update store, the connectivity   *)
(* test up to its probes, and the lists.  Connections has the API calls    *)
(* around them.                                                            *)
(***************************************************************************)
EXTENDS Integers, Sequences, SequencesExt, ServiceView

(* A JSON value: its type and what it is.  values maps field names to them.  *)
Str(x) == [type |-> "string", text |-> x, number |-> 0]
Num(x) == [type |-> "number", text |-> NoText, number |-> x]
Bool(x) == [type |-> "boolean", text |-> x, number |-> 0]
Null == [type |-> "null", text |-> NoText, number |-> 0]

Without(values, names) == [n \in DOMAIN values \ names |-> values[n]]
With(values, name, v) == [n \in DOMAIN values \cup {name} |-> IF n = name THEN v ELSE values[n]]

(* A field of a descriptor; default and showWhen are sets of at most one.    *)
Field(name, type) ==
  [name |-> name, type |-> type, required |-> FALSE, secret |-> FALSE, default |-> {}, options |-> {},
   range |-> {}, showWhen |-> {}, derivedFrom |-> NoText, map |-> <<>>]

(* database-server.json; host and dbName, strings like any other, left out.  *)
DatabaseServer ==
  <<[Field("engine", "enum") EXCEPT !.required = TRUE, !.default = {Str("postgresql")},
                                    !.options = {"postgresql", "mysql"}],
    [Field("driver", "string") EXCEPT !.required = TRUE, !.derivedFrom = "engine",
       !.map = [postgresql |-> "org.postgresql.Driver", mysql |-> "com.mysql.cj.jdbc.Driver"]],
    [Field("port", "number") EXCEPT !.required = TRUE, !.default = {Num(5432)}, !.range = {[min |-> 1, max |-> 65535]}],
    [Field("password", "string") EXCEPT !.required = TRUE, !.secret = TRUE],
    [Field("sslMode", "enum") EXCEPT !.options = {"prefer", "require"}, !.default = {Str("prefer")},
                                     !.showWhen = {[field |-> "engine", value |-> "postgresql"]}],
    [Field("tls", "enum") EXCEPT !.options = {"true", "preferred"},
                                 !.showWhen = {[field |-> "engine", value |-> "mysql"]}]>>

(* s3.json, one field of each shape. *)
S3 ==
  <<[Field("apiUrl", "string") EXCEPT !.required = TRUE],
    [Field("region", "string") EXCEPT !.default = {Str("us-east-1")}],
    [Field("secretKey", "string") EXCEPT !.required = TRUE, !.secret = TRUE],
    [Field("pathStyle", "boolean") EXCEPT !.default = {Bool("true")}]>>

(* validateTypeDescriptor: a contract with fields, named and once each, of   *)
(* the types there are; start-up fails with any other.                       *)
ValidateTypeDescriptor(ct) ==
  /\ ct # <<>>
  /\ \A i \in DOMAIN ct :
       /\ ct[i].name # NoText /\ \A j \in DOMAIN ct : ct[j].name = ct[i].name => j = i
       /\ ct[i].type \in {"string", "number", "boolean", "enum"}
       /\ ct[i].type = "enum" => ct[i].options # {}

FieldNames(ct) == {ct[i].name : i \in DOMAIN ct}
SecretNames(ct) == {f.name : f \in {g \in ToSet(ct) : g.secret}}
TextOf(values, name) == IF name \in DOMAIN values /\ values[name].type = "string" THEN values[name].text ELSE NoText

(* Applies *)
Applies(f, values) == \A c \in f.showWhen : TextOf(values, c.field) = c.value

(* One turn of the loop of Normalize: drop, derive or default a field, by    *)
(* the conditions of its source.                                             *)
NormalizeField(f, out, source) ==
  IF ~Applies(f, source) THEN Without(out, {f.name})
  ELSE IF f.derivedFrom # NoText THEN
    IF TextOf(source, f.derivedFrom) \in DOMAIN f.map
    THEN With(out, f.name, Str(f.map[TextOf(source, f.derivedFrom)])) ELSE out
  ELSE IF f.name \notin DOMAIN out /\ f.default # {} /\ ~f.secret
  THEN With(out, f.name, CHOOSE d \in f.default : TRUE) ELSE out

(* Mutant: conditions and derivations look at what was submitted. *)
Normalize_Submitted(ct, values) == FoldLeft(LAMBDA out, f : NormalizeField(f, out, values), values, ct)

(* Normalize: the fields in their order, each on what the earlier ones made  *)
(* of the values.                                                            *)
Normalize(ct, values) == FoldLeft(LAMBDA out, f : NormalizeField(f, out, out), values, ct)

(* validateFieldValue *)
ValidField(f, v) ==
  CASE f.type = "number" -> v.type = "number" /\ \A b \in f.range : b.min <= v.number /\ v.number <= b.max
    [] f.type = "enum" -> v.type = "string" /\ v.text \in f.options
    [] OTHER -> v.type = f.type

(* validate: Validate requires the credentials, ValidateUpdate does not. *)
Valid(ct, values, requireSecrets) ==
  /\ DOMAIN values \subseteq FieldNames(ct)
  /\ \A i \in DOMAIN ct :
       LET f == ct[i]
           given == f.name \in DOMAIN values /\ values[f.name] \notin {Null, Str(NoText)}
       IN  Applies(f, values) =>
             /\ f.required /\ (requireSecrets \/ ~f.secret) => given
             /\ given => ValidField(f, values[f.name])

(* Mutant: the reference that a client read back is one more field. *)
RequestValues_KeepsRef(ct, values) == Normalize(ct, values)

(* validateRequest: the values to be stored. *)
RequestValues(ct, values) == Without(Normalize(ct, values), {"secretRef"})

(* Whether it accepts them; a request that names an existing Secret is       *)
(* validated like an edit.                                                   *)
Accepted(ct, req) == Valid(ct, RequestValues(ct, req.values), ~req.update /\ req.existing = NoText)

(* splitValues *)
PublicValues(ct, values) == Without(values, SecretNames(ct))
Credentials(ct, values) == {n \in DOMAIN values \cap SecretNames(ct) : TextOf(values, n) # NoText}

(* spec.values as Create, or Update of a connection with the values previous,*)
(* writes them: secretRef is the Secret of others, our own when credentials  *)
(* came, or as it was.                                                       *)
StoredValues(ct, req, previous) ==
  LET values == RequestValues(ct, req.values)
      public == PublicValues(ct, values)
  IN  IF req.existing # NoText THEN With(public, "secretRef", Str(req.existing))
      ELSE IF Credentials(ct, values) # {} THEN With(public, "secretRef", Str("own"))
      ELSE IF "secretRef" \in DOMAIN previous THEN With(public, "secretRef", previous["secretRef"])
      ELSE public

(* Mutant: the test takes the form as it is. *)
TestedValues_Raw(ct, values) == values

(* Test: what it validates and hands to the tester of the contract. *)
TestedValues(ct, values) == Normalize(ct, values)
Tested(ct, values) == Valid(ct, TestedValues(ct, values), TRUE)

-----------------------------------------------------------------------------
(* The lists.  A connection is [name, contract, managed, parent].            *)

(* Mutant: managed connections are listed with the others. *)
ListConnections_All(connections) == {c.name : c \in connections}

(* List, ListInternal and ListSelectable. *)
ListConnections(connections) == {c.name : c \in {d \in connections : ~d.managed}}
ListInternal(connections) == {c.name : c \in {d \in connections : d.managed}}
ListSelectable(connections, contract) ==
  {[name |-> c.name, managed |-> c.managed, type |-> c.contract] :
     c \in {d \in connections : contract \in {NoText, d.contract}}}

(* Mutant: the namespace has to be the project's. *)
ReferencesConnection_Namespaced(refs, project, name) ==
  \E i \in DOMAIN refs : refs[i].name = name /\ refs[i].namespace = project

(* referencesConnection: no namespace is the platform-wide one. *)
ReferencesConnection(refs, project, name) ==
  \E i \in DOMAIN refs : refs[i].name = name /\ refs[i].namespace \in {project, NoText}

(* ListConsumers, the entry of a release: none, or whether it is effective. *)
Consumer(release, project, name) ==
  LET watched == ReferencesConnection(release.watched, project, name)
      effective == ReferencesConnection(release.effective, project, name)
  IN  IF watched \/ effective THEN {[effective |-> effective]} ELSE {}

-----------------------------------------------------------------------------

(* "a driver contradicting its engine, cannot be opened by anything. Neither *)
(* should be storable": in what is stored every field applies to the others, *)
(* a derived field follows its source, what the contract requires of a form  *)
(* with these values is there, and no credential is.                         *)
StoredCoherentIn(ct, req) ==
  Accepted(ct, req) =>
    LET stored == StoredValues(ct, req, <<>>)
    IN  /\ DOMAIN stored \cap SecretNames(ct) = {}
        /\ \A f \in ToSet(ct) :
             /\ f.name \in DOMAIN stored => Applies(f, stored)
             /\ Applies(f, stored) =>
                  /\ f.required /\ ~f.secret => f.name \in DOMAIN stored /\ stored[f.name] \notin {Null, Str(NoText)}
                  /\ f.derivedFrom # NoText => stored[f.name].text = f.map[stored[f.derivedFrom].text]

(* "a client editing what it just read sends it back": saving a connection   *)
(* as it is shown is accepted and changes none of its values, the reference  *)
(* to its credentials included.                                              *)
ConnectionEditUnchangedIn(ct, req) ==
  Accepted(ct, req) =>
    LET stored == StoredValues(ct, req, <<>>)
        again == [update |-> TRUE, existing |-> NoText, values |-> stored]
    IN  Accepted(ct, again) /\ StoredValues(ct, again, stored) = stored

(* "which is to try what will actually be stored": the test accepts a form   *)
(* exactly when creating the connection does, and tries those values.        *)
TestTriesStoredIn(ct, req) ==
  ~req.update /\ req.existing = NoText /\ "secretRef" \notin DOMAIN req.values =>
    /\ Tested(ct, req.values) <=> Accepted(ct, req)
    /\ Accepted(ct, req) =>
         PublicValues(ct, TestedValues(ct, req.values)) = Without(StoredValues(ct, req, <<>>), {"secretRef"})

(* What the form of a deployment offers for a contract is shown in exactly   *)
(* one of the two lists of the project, the one its managed flag says.       *)
OfferedShownOnceIn(connections, contract) ==
  \A o \in ListSelectable(connections, contract) :
    /\ o.managed <=> o.name \in ListInternal(connections)
    /\ ~o.managed <=> o.name \in ListConnections(connections)

(* The page of a connection lists the releases whose own page shows it, and  *)
(* as effective where that shows it resolved; for references of this project *)
(* and of the platform.                                                      *)
ConsumersAgreeIn(release, project) ==
  LET bound == BoundConnections(release)
      names == {(release.effective \o release.watched)[i].name : i \in 1..Len(release.effective \o release.watched)}
  IN  \A n \in names :
        (\A i \in 1..Len(release.effective \o release.watched) :
           (release.effective \o release.watched)[i].namespace \in {project, NoText})
        => Consumer(release, project, n) = {[effective |-> bound[n].resolved]}
=============================================================================
