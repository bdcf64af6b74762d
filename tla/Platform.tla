------------------------------ MODULE Platform ------------------------------
(***************************************************************************)
(* Installing the platform from an offline bundle, and its add-ons.  The   *)
(* offline command imports the images, keeps or writes the platform's      *)
(* Secret, makes sure that a default MinIO runs, installs the platform,    *)
(* and then registers that MinIO through the platform's own API: a login,  *)
(* an environment, a connection test, an adoption.  It can fail, be killed *)
(* and be run again, while an administrator already uses the platform.     *)
(***************************************************************************)
EXTENDS RegistryImport, Addons

CONSTANTS
  Attempts,     \* runs of the command, each a caller of the API as well
  Scenarios     \* bound: what is looked at together

Command == "deploy"
Manual == "manual"

ASSUME PlatformAssumption ==
  /\ Attempts \subseteq Callers
  /\ Importers = {Command, Manual}
  /\ \A s \in Scenarios :
       /\ s.requests \in Nat /\ s.faults \in Nat /\ s.installed \in BOOLEAN
       /\ s.projects \subseteq Projects /\ s.names \subseteq Names

VARIABLES
  scenario,   \* the operations an administrator may ask for; it never changes
  deploy,     \* the current run of the command
  platform,   \* the platform's release, and whether its password was changed
  faults

deployVars == <<deploy, platform>>
vars == <<registryVars, addonVars, deployVars, scenario, faults>>

DeployStages == {"idle", "importing", "inspect", "application", "minio", "minio_chart", "chart", "login",
                 "environments", "register", "test", "adopt", "adopting", "unregistered", "complete", "failed"}
NoDeploy == [attempt |-> "none", stage |-> "idle", fresh |-> FALSE, skip |-> FALSE,
             brings |-> FALSE, target |-> 0, registered |-> FALSE]

\* What an administrator does and how often, into which projects images go, which
\* names profiles get, how many faults there are (bounds), and the state it starts
\* from: with or without the images, with or without a platform and its stored profiles.
Scenario(operations, requests, projects, names, maxFaults, images, installed) ==
  [operations |-> operations, requests |-> requests, projects |-> projects, names |-> names,
   faults |-> maxFaults, images |-> images, installed |-> installed]

PlatformTypeOK ==
  /\ RegistryTypeOK /\ AddonsTypeOK
  /\ scenario \in Scenarios
  /\ deploy \in [attempt : Attempts \cup {"none"}, stage : DeployStages, fresh : BOOLEAN, skip : BOOLEAN,
                 brings : BOOLEAN, target : 0..MaxEnvironments, registered : BOOLEAN]
  /\ platform \in [release : BOOLEAN, changed : BOOLEAN]
  /\ faults \in 0..scenario.faults

Init ==
  /\ scenario \in Scenarios
  /\ RegistryInit(scenario.images)
  /\ deploy = NoDeploy
  /\ platform = [release |-> scenario.installed, changed |-> FALSE]
  /\ masterKey = IF scenario.installed THEN "first" ELSE "none"
  /\ environment = IF scenario.installed THEN [version |-> 1, status |-> "CONNECTED"]
                   ELSE [version |-> 0, status |-> "absent"]
  /\ rows = [type \in AddonTypes |-> NoRow]
  /\ vault = [c \in Ids |-> IF scenario.installed /\ c \in Stored
                            THEN [key |-> "external", seal |-> "first"] ELSE NoCredential]
  /\ profiles = IF scenario.installed THEN {[id |-> c, credential |-> c, place |-> c, name |-> c] : c \in Stored}
                 ELSE {}
  /\ minio = [release |-> FALSE, secret |-> "none", running |-> "none"]
  /\ velero \in [server : IF scenario.installed THEN {"none", "foreign"} ELSE {"none"},
                 secret : {"none"}, location : {"none"}, available : {FALSE}, unrecorded : {FALSE}]
  /\ request = [c \in Callers |-> NoRequest]
  /\ overlapped = {} /\ faults = 0

Fault == faults < scenario.faults /\ faults' = faults + 1

(***************************************************************************)
(* The deploy command.                                                     *)
(***************************************************************************)
GoesOn(stage) == deploy' = [deploy EXCEPT !.stage = stage]
IsRunning == deploy.stage \notin {"idle", "complete", "failed"}
Unattempted == {a \in Attempts : request[a].at = "unused" /\ a # deploy.attempt}

StartDeploy(skip, brings) ==
  /\ ~IsRunning
  /\ "deploy" \in scenario.operations /\ (skip \/ "register" \in scenario.operations)
  /\ \E a \in Unattempted :
       deploy' = [NoDeploy EXCEPT !.attempt = a, !.stage = "importing", !.skip = skip, !.brings = brings]
  /\ \E project \in scenario.projects : ImportAll(Command, project)
  /\ UNCHANGED <<addonVars, platform, scenario, faults>>

ImagesImported ==
  /\ deploy.stage = "importing" /\ importer[Command].stage = "imported"
  /\ GoesOn("inspect")
  /\ UNCHANGED <<registryVars, addonVars, platform, scenario, faults>>

\* platformInstallationExists
InspectPlatform ==
  /\ deploy.stage = "inspect"
  /\ deploy' = [deploy EXCEPT !.stage = "application", !.fresh = ~platform.release]
  /\ UNCHANGED <<registryVars, addonVars, platform, scenario, faults>>

\* ensureApplicationSecret keeps the Secret that a first run has written.
KeptMasterKey == IF masterKey = "none" THEN deploy.attempt ELSE masterKey

EnsureApplicationSecret ==
  /\ deploy.stage = "application"
  /\ masterKey' = KeptMasterKey
  /\ GoesOn(IF deploy.skip THEN "chart" ELSE "minio")
  /\ UNCHANGED <<registryVars, tableVars, clusterVars, request, overlapped, platform, scenario, faults>>

\* ensureDefaultMinIO keeps a MinIO with its Secret, or the Secret alone; a MinIO
\* without a Secret is refused.
EnsureDefaultMinIO ==
  /\ deploy.stage = "minio"
  /\ minio.release => minio.secret # "none"
  /\ minio' = [minio EXCEPT !.secret = IF @ = "none" THEN deploy.attempt ELSE @]
  /\ GoesOn(IF minio.release THEN "chart" ELSE "minio_chart")
  /\ UNCHANGED <<registryVars, tableVars, velero, masterKey, request, overlapped, platform, scenario, faults>>

InstallDefaultMinIO ==
  /\ deploy.stage = "minio_chart"
  /\ minio' = InstalledMinio
  /\ GoesOn("chart")
  /\ UNCHANGED <<registryVars, tableVars, velero, masterKey, request, overlapped, platform, scenario, faults>>

InstallPlatform ==
  /\ deploy.stage = "chart"
  /\ platform' = [platform EXCEPT !.release = TRUE]
  /\ GoesOn(IF deploy.skip THEN "complete" ELSE "login")
  /\ UNCHANGED <<registryVars, addonVars, scenario, faults>>

\* registerDefaultObjectStorage: platformLogin, then one request after another.
CanLogIn == ~platform.changed \/ deploy.brings

PlatformLogin ==
  /\ deploy.stage = "login"
  /\ GoesOn(IF CanLogIn THEN "environments" ELSE "unregistered")
  /\ UNCHANGED <<registryVars, addonVars, platform, scenario, faults>>

\* The target environment is looked for, and registered when there is none, unless
\* another has been registered since.
Targets(version, stage) == deploy' = [deploy EXCEPT !.target = version, !.stage = stage]

ListEnvironments ==
  /\ deploy.stage = "environments"
  /\ IF environment.status = "absent" THEN GoesOn("register") ELSE Targets(environment.version, "test")
  /\ UNCHANGED <<registryVars, addonVars, platform, scenario, faults>>

RegisterEnvironment ==
  /\ deploy.stage = "register"
  /\ IF environment.status = "absent"
     THEN CreateEnvironment /\ Targets(environment'.version, "test")
     ELSE GoesOn("unregistered") /\ UNCHANGED addonVars
  /\ UNCHANGED <<registryVars, platform, scenario, faults>>

IsRegistered == environment.status # "absent" /\ environment.version = deploy.target

TestEnvironment ==
  /\ deploy.stage = "test"
  /\ IF IsRegistered
     THEN GoesOn("adopt") /\ TestConnection("CONNECTED")
     ELSE GoesOn("unregistered") /\ UNCHANGED addonVars
  /\ UNCHANGED <<registryVars, platform, scenario, faults>>

RequestAdoption ==
  /\ deploy.stage = "adopt"
  /\ IF IsRegistered /\ CanAdopt
     THEN Adopt(deploy.attempt, "managed") /\ GoesOn("adopting")
     ELSE GoesOn("unregistered") /\ UNCHANGED addonVars
  /\ UNCHANGED <<registryVars, platform, scenario, faults>>

AdoptionAnswers ==
  /\ deploy.stage = "adopting" /\ request[deploy.attempt].at \in EndsOfRequests
  /\ deploy' = IF request[deploy.attempt].at = "ok"
               THEN [deploy EXCEPT !.stage = "complete", !.registered = TRUE]
               ELSE [deploy EXCEPT !.stage = "unregistered"]
  /\ UNCHANGED <<registryVars, addonVars, platform, scenario, faults>>

\* A run that found no platform fails; one that found it warns and completes.
OnlyWarns == "complete"
FailsClosed == IF deploy.fresh THEN "failed" ELSE "complete"

EndUnregistered ==
  /\ deploy.stage = "unregistered"
  /\ GoesOn(FailsClosed)
  /\ UNCHANGED <<registryVars, addonVars, platform, scenario, faults>>

\* A call of the command fails: during the registration the command goes on
\* without it; before the registration, where it reads the administrator's password
\* from its Secret unless it was given, it ends.
Registering == deploy.stage \in {"login", "environments", "register", "test", "adopt", "adopting"}
ReadsPassword == deploy.stage = "login" /\ ~deploy.brings

DeployFails ==
  /\ IsRunning /\ deploy.stage \notin {"importing", "unregistered"}
  /\ Fault
  /\ \/ Registering /\ GoesOn("unregistered")
     \/ (Registering => ReadsPassword) /\ GoesOn("failed")
  /\ UNCHANGED <<registryVars, addonVars, platform, scenario>>

DeployIsKilled ==
  /\ IsRunning /\ deploy.stage # "importing"
  /\ Fault
  /\ GoesOn("failed")
  /\ UNCHANGED <<registryVars, addonVars, platform, scenario>>

DeployStep ==
  \/ ImagesImported \/ InspectPlatform \/ EnsureApplicationSecret
  \/ EnsureDefaultMinIO \/ InstallDefaultMinIO \/ InstallPlatform
  \/ PlatformLogin \/ ListEnvironments \/ RegisterEnvironment \/ TestEnvironment
  \/ RequestAdoption \/ AdoptionAnswers \/ EndUnregistered

(***************************************************************************)
(* Imports, by the command and by hand.                                    *)
(***************************************************************************)
ImportByHand ==
  /\ "import" \in scenario.operations /\ importer[Manual].stage = "idle"
  /\ \E project \in scenario.projects : ImportAll(Manual, project) \/ ImportOne(Manual, project)
  /\ UNCHANGED <<addonVars, deployVars, scenario, faults>>

ImportOn(p) == ImportStep(p) /\ UNCHANGED <<addonVars, deployVars, scenario, faults>>

ImportFails(p) ==
  /\ ImportEnds(p)
  /\ IF Corrupt(p) THEN UNCHANGED faults ELSE Fault
  /\ IF p = Command THEN GoesOn("failed") ELSE UNCHANGED deploy
  /\ UNCHANGED <<addonVars, platform, scenario>>

FileChanges(image, d) ==
  /\ "import" \in scenario.operations
  /\ Spoil(image, d) /\ Fault
  /\ UNCHANGED <<addonVars, deployVars, scenario>>

(***************************************************************************)
(* What the administrator does with a platform that is up.                 *)
(***************************************************************************)
May(operation) == platform.release /\ operation \in scenario.operations

\* The handlers of the API: each hands one operation to its service and answers.
BootstrapHandler(c) == May("bootstrap") /\ \E name \in scenario.names : Bootstrap(c, name)
AdoptHandler(c) == May("adopt") /\ \E name \in scenario.names : Adopt(c, name)
ConnectExternalHandler(c) ==
  May("external") /\ \E place \in Stored, name \in scenario.names : ConnectExternal(c, place, name)
InstallAddonHandler(c) == May("install") /\ \E profile \in Ids : Install(c, profile)
ReuseVeleroHandler(c) == May("reuse") /\ \E profile \in Ids : Reuse(c, profile)
UninstallAddonHandler(c) == May("uninstall") /\ Uninstall(c)

Ask(c) ==
  \/ BootstrapHandler(c) \/ AdoptHandler(c) \/ ConnectExternalHandler(c)
  \/ InstallAddonHandler(c) \/ ReuseVeleroHandler(c) \/ UninstallAddonHandler(c)

Request(c) ==
  /\ c \notin Attempts
  /\ Cardinality({d \in Callers \ Attempts : request[d].at # "unused"}) < scenario.requests
  /\ Ask(c)
  /\ UNCHANGED <<registryVars, deployVars, scenario, faults>>

RequestGoesOn(c) ==
  /\ RequestStep(c)
  /\ UNCHANGED <<registryVars, deployVars, scenario, faults>>

RequestFails(c) ==
  /\ CallFails(c)
  /\ IF Passes(c) THEN Fault ELSE UNCHANGED faults
  /\ UNCHANGED <<registryVars, deployVars, scenario>>

\* The probe of the cluster succeeds or fails.
Probed(status, failure) == IF status = failure THEN Fault ELSE UNCHANGED faults

CreateEnvironmentHandler == May("environment") /\ CreateEnvironment /\ UNCHANGED faults
TestEnvironmentHandler ==
  May("environment") /\ \E status \in {"CONNECTED", "DISCONNECTED"} :
    TestConnection(status) /\ Probed(status, "DISCONNECTED")
RefreshCapabilitiesHandler ==
  May("environment") /\ \E status \in {"CONNECTED", "ERROR"} :
    RefreshCapabilities(status) /\ Probed(status, "ERROR")
DeleteEnvironmentHandler == May("delete") /\ DeleteEnvironment /\ UNCHANGED faults

ChangeEnvironment ==
  /\ \/ CreateEnvironmentHandler \/ TestEnvironmentHandler
     \/ RefreshCapabilitiesHandler \/ DeleteEnvironmentHandler
  /\ UNCHANGED <<registryVars, deployVars, scenario>>

ChangePassword ==
  /\ May("password") /\ ~platform.changed
  /\ platform' = [platform EXCEPT !.changed = TRUE]
  /\ UNCHANGED <<registryVars, addonVars, deploy, scenario, faults>>

Crash ==
  /\ ApiCrashes /\ Fault
  /\ UNCHANGED <<registryVars, deployVars, scenario>>

Reschedule ==
  /\ May("reschedule") /\ PodRestarts
  /\ UNCHANGED <<registryVars, deployVars, scenario, faults>>

Validate ==
  /\ VeleroValidates
  /\ UNCHANGED <<registryVars, deployVars, scenario, faults>>

Next ==
  \/ \E skip, brings \in BOOLEAN : StartDeploy(skip, brings)
  \/ DeployStep \/ DeployFails \/ DeployIsKilled
  \/ ImportByHand
  \/ \E p \in Importers : ImportOn(p) \/ ImportFails(p)
  \/ \E image \in LockedImages, d \in Descriptors : FileChanges(image, d)
  \/ \E c \in Callers : Request(c) \/ RequestGoesOn(c) \/ RequestFails(c)
  \/ ChangeEnvironment \/ ChangePassword \/ Crash \/ Reschedule \/ Validate

Spec == Init /\ [][Next]_vars
-----------------------------------------------------------------------------
\* A run of the command that found no platform and was not told to skip MinIO
\* completes only with a managed object storage whose credential can be opened,
\* and one that reports a registration does so as well: whatever failed before, and
\* whatever the administrator does at the same time.
FreshInstallHasStorage ==
  deploy.stage = "complete" /\ ~deploy.skip /\ (deploy.fresh \/ deploy.registered) =>
    \E p \in profiles : IsManaged(p) /\ Resolvable(p.credential)
=============================================================================
