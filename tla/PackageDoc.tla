------------------------------ MODULE PackageDoc ------------------------------
(***************************************************************************)
(* What the server reads out of a package: the UI hints in the titles of   *)
(* its parameters, the connections it needs, and how its registry is       *)
(* asked.  Text is a sequence of characters, a word being one character    *)
(* such as "a", "true" or "5"; " ", "|", ":", "=" and the quote "q" are    *)
(* the ones that are told apart.                                           *)
(***************************************************************************)
EXTENDS Integers, SequencesExt

(* A string that is not given. *)
Missing == ""

CONSTANT ParamOrder  \* the names of the parameters, in the order of strings

(* strings.SplitN(s, c, n); -1 for n is strings.Split. *)
SplitN(s, c, n) ==
  LET step(acc, x) == IF x = c /\ Len(acc) # n THEN Append(acc, <<>>) ELSE [acc EXCEPT ![Len(acc)] = Append(@, x)]
  IN  FoldLeft(step, << <<>> >>, s)

(* strings.Trim of one character. *)
Trim(s, c) ==
  LET keep == {i \in DOMAIN s : s[i] # c}
  IN  IF keep = {} THEN <<>>
      ELSE SubSeq(s, CHOOSE i \in keep : \A j \in keep : i <= j, CHOOSE i \in keep : \A j \in keep : i >= j)

Fields(s) == SelectSeq(SplitN(s, " ", -1), LAMBDA w : w # <<>>)

Quotes(s) == Len(SelectSeq(s, LAMBDA c : c = "q"))

(* Mutant: an unbalanced quote is taken as it comes. *)
SplitOptions_NoFallback(segment) ==
  LET step(acc, c) ==
        IF c = "q" THEN [acc EXCEPT !.quoted = ~@, !.current = Append(@, c)]
        ELSE IF c = " " /\ ~acc.quoted THEN [acc EXCEPT !.options = Append(@, acc.current), !.current = <<>>]
        ELSE [acc EXCEPT !.current = Append(@, c)]
      end == FoldLeft(step, [options |-> <<>>, current |-> <<>>, quoted |-> FALSE], segment)
  IN  SelectSeq(Append(end.options, end.current), LAMBDA o : o # <<>>)

(* splitOptions: on spaces, except inside quotes; what is empty is dropped. *)
SplitOptions(segment) ==
  LET step(acc, c) ==
        IF c = "q" THEN [acc EXCEPT !.quoted = ~@, !.current = Append(@, c)]
        ELSE IF c = " " /\ ~acc.quoted THEN [acc EXCEPT !.options = Append(@, acc.current), !.current = <<>>]
        ELSE [acc EXCEPT !.current = Append(@, c)]
      end == FoldLeft(step, [options |-> <<>>, current |-> <<>>, quoted |-> FALSE], segment)
  IN  IF Quotes(segment) % 2 # 0 THEN Fields(segment)
      ELSE SelectSeq(Append(end.options, end.current), LAMBDA o : o # <<>>)

(* parseValue: booleans and numbers get their type. *)
ParseValue(s) ==
  [type |-> CASE s \in {<<"true">>, <<"false">>} -> "bool" [] s = <<"5">> -> "number" [] OTHER -> "string", text |-> s]

(* One option of a title: key:value, of which condition:field=value is read  *)
(* further; an option without a colon is skipped.                            *)
WithOption(hints, option) ==
  LET kv == SplitN(option, ":", 2)
      val == Trim(kv[2], "q")
      cond == SplitN(val, "=", 2)
      set(f, x, v) == [y \in DOMAIN f \cup {x} |-> IF y = x THEN v ELSE f[y]]
  IN  IF Len(kv) < 2 THEN hints
      ELSE IF kv[1] # <<"condition">> THEN set(hints, kv[1], [field |-> <<>>, value |-> ParseValue(val)])
      ELSE IF Len(cond) < 2 THEN hints
      ELSE set(hints, kv[1], [field |-> cond[1], value |-> ParseValue(cond[2])])

(* Mutant: the title is split at every bar. *)
ParseTitle_Split(title) ==
  LET parts == [i \in DOMAIN SplitN(title, "|", -1) |-> Trim(SplitN(title, "|", -1)[i], " ")]
      part(i) == IF i <= Len(parts) THEN parts[i] ELSE <<>>
  IN  IF ~\E i \in DOMAIN title : title[i] = "|"
      THEN [group |-> <<>>, title |-> title, widget |-> <<>>, options |-> <<>>]
      ELSE [group |-> part(1), title |-> part(2), widget |-> part(3),
            options |-> FoldLeft(WithOption, <<>>, SplitOptions(part(4)))]

(* parseTitleMetadata for one property; <<>> is a field that is not set.  A  *)
(* title without a bar stays as it is.                                       *)
ParseTitle(title) ==
  LET parts == [i \in DOMAIN SplitN(title, "|", 4) |-> Trim(SplitN(title, "|", 4)[i], " ")]
      part(i) == IF i <= Len(parts) THEN parts[i] ELSE <<>>
  IN  IF ~\E i \in DOMAIN title : title[i] = "|"
      THEN [group |-> <<>>, title |-> title, widget |-> <<>>, options |-> <<>>]
      ELSE [group |-> part(1), title |-> part(2), widget |-> part(3),
            options |-> FoldLeft(WithOption, <<>>, SplitOptions(part(4)))]

-----------------------------------------------------------------------------
(* The connections a package needs.  A document has parameters or not, and   *)
(* its inputs stanza: properties maps each parameter to the contract of its  *)
(* connectionRef marker, "none" without one, Missing for one without it.     *)

(* The turn of a loop that appends what is kept, and what it makes of s.     *)
Keep(S, acc, e) == IF e \in S THEN Append(acc, e) ELSE acc
Among(s, S) == FoldLeft(LAMBDA acc, e : Keep(S, acc, e), <<>>, s)

(* inputsOf: an entry without a contract is skipped; a template names the    *)
(* parameter, or none (Missing).                                             *)
InputsOf(doc) ==
  LET about == Among(doc.inputs, {e \in ToSet(doc.inputs) : e.contract # Missing})
  IN  [i \in DOMAIN about |->
        [alias |-> IF about[i].alias = Missing THEN about[i].contract ELSE about[i].alias,
         contract |-> about[i].contract, parameter |-> about[i].template,
         optional |-> about[i].optional \in {"bool", "text"}]]

(* Mutant: the inputs keep the order of the map. *)
InputsFromMarkers_Unsorted(doc, iteration) ==
  IF ~doc.hasParameters THEN <<>>
  ELSE LET props == doc.properties
           marked == Among(iteration, {n \in DOMAIN props : props[n] \notin {"none", Missing}})
       IN  [i \in DOMAIN marked |->
             [alias |-> marked[i], contract |-> props[marked[i]], parameter |-> marked[i],
              optional |-> marked[i] \notin doc.required]]

(* inputsFromMarkers: iteration is the order in which Go happens to walk the *)
(* map of the properties, and the result is sorted by parameter.             *)
InputsFromMarkers(doc, iteration) ==
  IF ~doc.hasParameters THEN <<>>
  ELSE LET props == doc.properties
           marked == Among(iteration, {n \in DOMAIN props : props[n] \notin {"none", Missing}})
           sorted == Among(ParamOrder, ToSet(marked))
       IN  [i \in DOMAIN sorted |->
             [alias |-> sorted[i], contract |-> props[sorted[i]], parameter |-> sorted[i],
              optional |-> sorted[i] \notin doc.required]]

(* fetchAndCache: without parameters (parametersOf) the package is refused;  *)
(* markers and stanza are both offered.                                      *)
PackageInputs(doc, iteration) ==
  IF ~doc.hasParameters THEN [ok |-> FALSE, inputs |-> <<>>]
  ELSE [ok |-> TRUE, inputs |-> InputsFromMarkers(doc, iteration) \o InputsOf(doc)]

-----------------------------------------------------------------------------
(* A registry: what it challenges with ("open" for one that serves without), *)
(* whether the package is public, whether the challenge names a realm, and   *)
(* the field that holds the token.  A credential is "nil", "right" or        *)
(* "wrong".                                                                  *)

(* The token endpoint of a registry: anonymous tokens for public packages,   *)
(* any token only for a credential it knows.                                 *)
TokenEndpoint(reg, cred) ==
  IF cred = "right" \/ (cred = "nil" /\ reg.public)
  THEN [token |-> reg.tokenField = "token", access_token |-> reg.tokenField = "access_token"]
  ELSE [token |-> FALSE, access_token |-> FALSE]

(* The status of a request for the tags, without authorization, with Basic   *)
(* or with a token.                                                          *)
RegistryStatus(reg, authorization) ==
  IF \/ reg.challenge = "open"
     \/ reg.challenge = "basic" /\ authorization = "basic right"
     \/ reg.challenge = "bearer" /\ authorization = "bearer"
  THEN 200 ELSE 401

(* registryCredentialFor with registryHostOf: the entry of the host that the *)
(* walk of the map meets first; "nil" without one, "error" when it cannot be *)
(* decoded.                                                                  *)
CredentialFor(auths, host) ==
  LET about == {a \in auths : a.host = host}
  IN  IF about = {} THEN {"nil"}
      ELSE {IF a.fields = "undecodable" THEN "error" ELSE a.secret : a \in about}

(* Mutant: only the field of the Docker registries is read. *)
FetchToken_OneField(reg, cred) ==
  reg.challenge = "bearer" /\ reg.realm /\ TokenEndpoint(reg, cred).token

(* fetchToken with parseBearerChallenge: no realm, no token. *)
FetchToken(reg, cred) ==
  LET answer == TokenEndpoint(reg, cred)
  IN  reg.challenge = "bearer" /\ reg.realm /\ (answer.token \/ answer.access_token)

(* registryGet: the request, and after a 401 the one that answers its        *)
(* challenge; 0 is an error of its own.                                      *)
RegistryGet(reg, cred) ==
  IF RegistryStatus(reg, "none") # 401 THEN RegistryStatus(reg, "none")
  ELSE IF reg.challenge = "basic"
       THEN IF cred = "nil" THEN 0 ELSE RegistryStatus(reg, IF cred = "right" THEN "basic right" ELSE "basic wrong")
  ELSE IF FetchToken(reg, cred) THEN RegistryStatus(reg, "bearer") ELSE 0

(* listOCITags: a credentials file that cannot be used is an error, and so   *)
(* is every status but 200.                                                  *)
ListOCITags(reg, cred) == cred # "error" /\ RegistryGet(reg, cred) = 200

(* GetServiceVersions: an override of the catalog wins; on an error the      *)
(* default version is all there is, if there is one.                         *)
ServiceVersions(svc, defaultRepo, reg, cred) ==
  [repository |-> IF svc.repository # Missing THEN svc.repository ELSE defaultRepo,
   versions |-> IF ListOCITags(reg, cred) THEN {"tags"}
                ELSE IF svc.default = Missing THEN {} ELSE {svc.default}]

-----------------------------------------------------------------------------

(* "cuts the option segment of a title on spaces, except inside double       *)
(* quotes" and "an unbalanced quote would swallow every option after it":    *)
(* the options are the runs of characters between the spaces that are        *)
(* outside quotes, which is every space when the quotes do not match.        *)
OptionsAreRunsIn(segment) ==
  LET n == Len(segment)
      cut(i) == segment[i] = " " /\ (Quotes(SubSeq(segment, 1, i)) % 2 = 0 \/ Quotes(segment) % 2 = 1)
      runs == {r \in (1..n) \X (1..n) :
                 /\ r[1] <= r[2] /\ \A i \in r[1]..r[2] : ~cut(i)
                 /\ r[1] > 1 => cut(r[1] - 1)
                 /\ r[2] < n => cut(r[2] + 1)}
      inOrder == SetToSortSeq(runs, LAMBDA a, b : a[1] < b[1])
  IN  SplitOptions(segment) = [i \in DOMAIN inOrder |-> SubSeq(segment, inOrder[i][1], inOrder[i][2])]

(* A title written as the format says, with the values that hold a space in  *)
(* quotes, gives back the group, label, widget and options it was written    *)
(* from, bars and colons in a value included.                                *)
TitleRoundTripIn(meta) ==
  LET quoted(v) == IF \E i \in DOMAIN v : v[i] = " " THEN <<"q">> \o v \o <<"q">> ELSE v
      option(o) == <<" ">> \o o.key \o <<":">> \o quoted(o.value)
      title == meta.group \o <<" ", "|", " ">> \o meta.title \o <<" ", "|">> \o meta.widget \o <<"|">>
                 \o FlattenSeq([i \in DOMAIN meta.options |-> option(meta.options[i])])
      parsed == ParseTitle(title)
  IN  /\ parsed.group = meta.group /\ parsed.title = meta.title /\ parsed.widget = meta.widget
      /\ DOMAIN parsed.options = {meta.options[i].key : i \in DOMAIN meta.options}
      /\ \A i \in DOMAIN meta.options :
           parsed.options[meta.options[i].key].value.text =
             IF meta.options[i].key = <<"condition">> THEN SplitN(meta.options[i].value, "=", 2)[2]
             ELSE meta.options[i].value

(* What the form offers of a package does not depend on how Go walks a map,  *)
(* and each connectionRef with a contract is offered under its own name, as  *)
(* mandatory exactly when the parameters require it.                         *)
InputsDeterminedIn(doc) ==
  LET orders == {o \in [1..Len(ParamOrder) -> ToSet(ParamOrder)] : ToSet(o) = ToSet(ParamOrder)}
      offered == PackageInputs(doc, ParamOrder)
      named(n) == {i \in DOMAIN offered.inputs : offered.inputs[i].alias = n}
  IN  /\ \A o \in orders : PackageInputs(doc, o) = offered
      /\ offered.ok => \A n \in DOMAIN doc.properties :
           doc.properties[n] \notin {"none", Missing} =>
             \E i \in named(n) : /\ offered.inputs[i].contract = doc.properties[n]
                                 /\ offered.inputs[i].optional = (n \notin doc.required)

(* "some registries issue [a challenge] even for public repositories": with  *)
(* the credential of the host, or none where there is none, the tags of a    *)
(* package are listed exactly when some authorization that can be had would  *)
(* be served; otherwise the default version is all that is offered.          *)
ReadableListedIn(world) ==
  LET reg == world.registry
      tokens(cred) == LET a == TokenEndpoint(reg, cred) IN reg.realm /\ (a.token \/ a.access_token)
      usable(cred) == {"none"} \cup (IF tokens(cred) \/ tokens("nil") THEN {"bearer"} ELSE {})
                        \cup (IF cred = "right" THEN {"basic right"} ELSE {})
      fallback == IF world.service.default = Missing THEN {} ELSE {world.service.default}
  IN  \A cred \in CredentialFor(world.auths, "host") \ {"wrong"} :
        ServiceVersions(world.service, "host", reg, cred).versions =
          IF cred # "error" /\ \E a \in usable(cred) : RegistryStatus(reg, a) = 200 THEN {"tags"} ELSE fallback
=============================================================================
