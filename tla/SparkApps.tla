------------------------------ MODULE SparkApps ------------------------------
(***************************************************************************)
(* Spark applications: SubmitApp, SubmitAppYAML, UpdateApp and DeleteApp   *)
(* on one SparkApplication of a project, beside the Spark operator.  A     *)
(* setting of its sparkConf comes from the user or from the server; the    *)
(* time to live is defaulted in the same way and left out.                 *)
(***************************************************************************)
EXTENDS Naturals

CONSTANTS
  AppRequests,  \* requests to .../spark-apps
  UserConfs,    \* sets of settings a user may send
  NoApp         \* no application

(* ui: the settings of the UI; proxyUrl: where it is reached; eventLog: that *)
(* and where events are logged; the volume of driver and executor is named   *)
(* by a claim and mounted at a path.                                         *)
Settings == {"ui", "proxyUrl", "eventLog", "driverClaim", "driverMount", "execClaim", "execMount"}

ASSUME SparkAppsAssumption ==
  /\ UserConfs \subseteq SUBSET Settings
  /\ NoApp \notin {"user", "default"}

VARIABLES
  app,         \* the SparkApplication
  appRequests  \* how far each request is

appVars == <<app, appRequests>>

(* image stands for the fields an edit may change.  extra: a field of the    *)
(* YAML that crd.SparkApplication does not have.  asked: history, the        *)
(* settings last sent.                                                       *)
App == [conf : [Settings -> {"unset", "user", "default"}], image : {"v1", "v2"},
        extra : BOOLEAN, asked : SUBSET Settings]

(* fresh: no write to the application since the request read it. *)
AppRequest ==
  [pc : {"ready", "create", "get", "update", "delete", "done"},
   kind : {"none", "form", "yaml", "edit", "delete"},
   confs : SUBSET (SUBSET Settings), image : BOOLEAN, spec : BOOLEAN,
   read : App \cup {NoApp}, fresh : BOOLEAN,
   code : {"none", "201", "200", "204", "404", "409", "500"}]

SparkTypeOK ==
  /\ app \in App \cup {NoApp}
  /\ appRequests \in [AppRequests -> AppRequest]

AppAt(r, pc) == appRequests[r].pc = pc
AppAnswer(r, code) == [appRequests EXCEPT ![r].pc = "done", ![r].code = code]
AllStale(rs) == [r \in AppRequests |-> [rs[r] EXCEPT !.fresh = FALSE]]

(* A setting that nobody sent gets its default. *)
Defaulted(conf, keys) == [k \in Settings |-> IF k \in keys /\ conf[k] = "unset" THEN "default" ELSE conf[k]]

(* Mutant: the volume is mounted whatever the user says. *)
InjectVolume_Always(conf, claim, mount) == [conf EXCEPT ![claim] = "default", ![mount] = "default"]

(* injectEventLogVolumeConf, driver or executor: without a claim of the      *)
(* user's, the claim and the path are both the server's.                     *)
InjectVolume(conf, claim, mount) ==
  IF conf[claim] = "unset" THEN [conf EXCEPT ![claim] = "default", ![mount] = "default"] ELSE conf

(* Mutant: only the driver gets the volume. *)
WithDefaults_DriverOnly(conf, suffix, pvc) ==
  LET shown == Defaulted(conf, {"ui"} \cup (IF suffix THEN {"proxyUrl"} ELSE {}))
  IN  IF pvc THEN InjectVolume(Defaulted(shown, {"eventLog"}), "driverClaim", "driverMount") ELSE shown

(* The defaults of SubmitApp and SubmitAppYAML, when an ingress suffix and   *)
(* the volume of the history server are found; a look-up that fails finds    *)
(* nothing.                                                                  *)
WithDefaults(conf, suffix, pvc) ==
  LET shown == Defaulted(conf, {"ui"} \cup (IF suffix THEN {"proxyUrl"} ELSE {}))
  IN  IF pvc THEN InjectVolume(InjectVolume(Defaulted(shown, {"eventLog"}), "driverClaim", "driverMount"),
                               "execClaim", "execMount")
      ELSE shown

Sent(keys) == [k \in Settings |-> IF k \in keys THEN "user" ELSE "unset"]

(* The handlers bind the body: confs holds the settings sent, if any; a YAML *)
(* of another kind or without a name is an error before any call.            *)
SubmitAppRequest(r) ==
  /\ AppAt(r, "ready")
  /\ \E kind \in {"form", "yaml", "edit", "delete"}, c \in UserConfs, has, image, spec \in BOOLEAN :
       /\ kind \in {"form", "yaml"} => has /\ ~image
       /\ kind = "delete" => ~has /\ ~image
       /\ ~spec => kind = "yaml" /\ c = {}
       /\ appRequests' = [appRequests EXCEPT ![r] =
            [@ EXCEPT !.kind = kind, !.image = image, !.spec = spec, !.confs = IF has THEN {c} ELSE {},
                      !.pc = CASE kind = "edit" -> "get" [] kind = "delete" -> "delete" [] OTHER -> "create"]]
  /\ UNCHANGED app

(* The application a submission stores: a YAML without a spec gets nothing. *)
NewApp(q, suffix, pvc) ==
  LET keys == CHOOSE c \in q.confs : TRUE
  IN  [conf |-> IF q.spec THEN WithDefaults(Sent(keys), suffix, pvc) ELSE Sent({}),
       image |-> "v1", extra |-> q.kind = "yaml", asked |-> keys]

(* One application has been submitted. *)
SparkInit ==
  /\ app = NewApp([kind |-> "form", spec |-> TRUE, confs |-> {{}}], TRUE, FALSE)
  /\ appRequests = [r \in AppRequests |->
       [pc |-> "ready", kind |-> "none", confs |-> {}, image |-> FALSE, spec |-> TRUE,
        read |-> NoApp, fresh |-> FALSE, code |-> "none"]]

CreateApp(r) ==
  /\ AppAt(r, "create")
  /\ IF app = NoApp
       THEN /\ \E suffix, pvc \in BOOLEAN : app' = NewApp(appRequests[r], suffix, pvc)
            /\ appRequests' = AllStale(AppAnswer(r, "201"))
       ELSE UNCHANGED app /\ appRequests' = AppAnswer(r, "409")

(* Get, through the Go struct. *)
GetApp(r) ==
  /\ AppAt(r, "get")
  /\ appRequests' = IF app = NoApp THEN AppAnswer(r, "404")
                    ELSE [appRequests EXCEPT ![r].pc = "update", ![r].read = app, ![r].fresh = TRUE]
  /\ UNCHANGED app

(* Mutant: the write does not depend on the version read. *)
EditApp_Blind(r) ==
  LET q == appRequests[r]
      given == IF q.confs = {} THEN q.read ELSE
               LET keys == CHOOSE c \in q.confs : TRUE IN [q.read EXCEPT !.conf = Sent(keys), !.asked = keys]
  IN  /\ AppAt(r, "update")
      /\ IF app = NoApp THEN UNCHANGED app /\ appRequests' = AppAnswer(r, "404")
         ELSE /\ app' = [given EXCEPT !.extra = FALSE, !.image = IF q.image THEN "v2" ELSE @]
              /\ appRequests' = AllStale(AppAnswer(r, "200"))

(* UpdateApp writes the struct back: the fields sent replace the read ones,  *)
(* a sparkConf as a whole; what the struct does not have is gone.            *)
EditApp(r) ==
  LET q == appRequests[r]
      given == IF q.confs = {} THEN q.read ELSE
               LET keys == CHOOSE c \in q.confs : TRUE IN [q.read EXCEPT !.conf = Sent(keys), !.asked = keys]
  IN  /\ AppAt(r, "update")
      /\ CASE app = NoApp -> UNCHANGED app /\ appRequests' = AppAnswer(r, "404")
           [] app # NoApp /\ ~q.fresh -> UNCHANGED app /\ appRequests' = AppAnswer(r, "500")
           [] OTHER -> /\ app' = [given EXCEPT !.extra = FALSE, !.image = IF q.image THEN "v2" ELSE @]
                       /\ appRequests' = AllStale(AppAnswer(r, "200"))

DeleteApp(r) ==
  /\ AppAt(r, "delete")
  /\ IF app = NoApp THEN UNCHANGED app /\ appRequests' = AppAnswer(r, "404")
     ELSE app' = NoApp /\ appRequests' = AllStale(AppAnswer(r, "204"))

AppCallFails(r) ==
  /\ appRequests[r].pc \in {"create", "get", "update", "delete"}
  /\ appRequests' = AppAnswer(r, "500")
  /\ UNCHANGED app

(* The operator writes the status, or removes an application whose time to   *)
(* live is over: reads from before are stale.                                *)
OperatorWrites ==
  /\ app # NoApp
  /\ app' \in {app, NoApp}
  /\ appRequests' = AllStale(appRequests)

SparkStep(r) ==
  SubmitAppRequest(r) \/ CreateApp(r) \/ GetApp(r) \/ EditApp(r) \/ DeleteApp(r) \/ AppCallFails(r)

SparkNext == (\E r \in AppRequests : SparkStep(r)) \/ OperatorWrites

SparkSpec == SparkInit /\ [][SparkNext]_appVars

-----------------------------------------------------------------------------

(* A setting the user sent has the user's value, in the form and in YAML,    *)
(* until another sparkConf is sent; the one exception is a mount path sent   *)
(* without its claim, which injectEventLogVolumeConf overwrites.             *)
UserSettingsKept ==
  app # NoApp => \A k \in app.asked :
    \/ app.conf[k] = "user"
    \/ k = "driverMount" /\ app.conf["driverClaim"] = "default"
    \/ k = "execMount" /\ app.conf["execClaim"] = "default"

(* An edit changes what it sends and nothing else that another accepted      *)
(* request has written since, or that a new application of the name has.     *)
EditsCompose ==
  [][\A r \in AppRequests : AppAt(r, "update") /\ appRequests'[r].code = "200" =>
       /\ ~appRequests[r].image => app'.image = app.image
       /\ appRequests[r].confs = {} => app'.conf = app.conf]_appVars

(* When the server turned on the event log of an application, driver and     *)
(* executor both have a volume for it.                                       *)
EventLogMounted ==
  app # NoApp /\ app.conf["eventLog"] = "default"
    => app.conf["driverClaim"] # "unset" /\ app.conf["execClaim"] # "unset"

(* SubmitApp, SubmitAppYAML and UpdateApp: the defaults of the server        *)
(* complete what the user sent and do not replace it.                        *)
DefaultsComplete == UserSettingsKept /\ EventLogMounted
=============================================================================
