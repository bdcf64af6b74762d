------------------------------- MODULE Addons -------------------------------
(***************************************************************************)
(* The add-ons of a target cluster.  objectstorage.Service bootstraps or   *)
(* adopts the MinIO that the platform manages, or connects to an object    *)
(* storage outside; velero.Service installs, reuses or uninstalls Velero.  *)
(* A request is a sequence of separate changes to the platform's database, *)
(* to Secrets and to Helm releases of the cluster, and nothing serializes  *)
(* two requests.  A request that its guard would refuse is not modelled as *)
(* a step: it answers an error and changes nothing.                        *)
(***************************************************************************)
EXTENDS Naturals, FiniteSets

CONSTANTS
  Callers,          \* requests; a caller's name stands for the ids and keys it draws
  Stored,           \* external profiles that were connected before
  Names,            \* names of profiles; a stored one has its own
  MaxEnvironments   \* bound: how often the environment is created

Ids == Callers \cup Stored

ASSUME AddonAssumption ==
  /\ Callers \cap Stored = {} /\ "none" \notin Ids /\ Stored \cup {"managed"} \subseteq Names
  /\ MaxEnvironments \in Nat \ {0}

Keys == Ids \cup {"none", "external", "wrong"}
MasterKeys == Ids \cup {"none", "first"}

VARIABLES
  environment,   \* the target cluster's row: which creation, and its status
  rows,          \* addon_installations of that environment
  vault,         \* credentials: the key pair, and the master key that sealed it
  profiles,      \* object_storage_profiles
  masterKey,     \* the master key in the platform's Secret
  minio,         \* the managed MinIO: its release, its Secret, the keys it runs with
  velero,        \* Velero, its credential Secret and its BackupStorageLocation
  request,       \* what each caller asked for and how far it is
  overlapped     \* history: the add-ons that two requests have changed at once

clusterVars == <<minio, velero>>
tableVars == <<environment, rows, vault, profiles>>
addonVars == <<tableVars, clusterVars, masterKey, request, overlapped>>

AddonTypes == {"MINIO", "VELERO"}
Statuses == {"PENDING", "INSTALLING", "READY", "FAILED", "REMOVED"}
NoRow == [status |-> "absent", profile |-> "none", managed |-> FALSE]
NoCredential == [key |-> "none", seal |-> "none"]

MinioOps == {"bootstrap", "adopt", "external"}
VeleroOps == {"install", "reuse", "uninstall"}
AddonOf(op) == IF op \in VeleroOps THEN "VELERO" ELSE "MINIO"
NoRequest == [op |-> "none", at |-> "unused", environment |-> 0, profile |-> "none",
              place |-> "managed", name |-> "managed", ready |-> FALSE]
EndsOfRequests == {"ok", "failed"}
Calls == {"upsert", "test", "store", "secret", "helm", "location", "wait", "restart", "profile",
          "ready", "failing", "unstoring"}

\* Where the storage of a profile is: the managed MinIO or one outside.
Places == {"managed"} \cup Stored
IsManaged(p) == p.place = "managed"

AddonsTypeOK ==
  /\ environment \in [version : 0..MaxEnvironments,
                      status : {"absent", "PENDING", "CONNECTED", "DISCONNECTED", "ERROR"}]
  /\ rows \in [AddonTypes -> [status : Statuses \cup {"absent"}, profile : Ids \cup {"none"}, managed : BOOLEAN]]
  /\ vault \in [Ids -> [key : Keys, seal : MasterKeys]]
  /\ profiles \subseteq [id : Ids, credential : Ids, place : Places, name : Names]
  /\ masterKey \in MasterKeys
  /\ minio \in [release : BOOLEAN, secret : Keys, running : Keys]
  /\ velero \in [server : {"none", "managed", "foreign"}, secret : Keys, location : Ids \cup {"none"},
                 available : BOOLEAN, unrecorded : BOOLEAN]
  /\ request \in [Callers -> [op : MinioOps \cup VeleroOps \cup {"none"},
                    at : Calls \cup EndsOfRequests \cup {"unused"}, environment : 0..MaxEnvironments,
                    profile : Ids \cup {"none"},
                    place : Places, name : Names, ready : BOOLEAN]]
  /\ overlapped \subseteq AddonTypes

ProfileOf(id) == CHOOSE p \in profiles : p.id = id
IsStored(id) == \E p \in profiles : p.id = id
IsFreeName(name) == \A p \in profiles : p.name # name

Connected == environment.status = "CONNECTED"

\* The vault opens what the platform's master key has sealed.
Resolvable(id) == vault[id].key # "none" /\ vault[id].seal = masterKey
KeyOf(profile) == vault[profile.credential].key

\* WriteProbe and VerifyProbe against the storage of a profile.
ProbePasses(place, key) == IF place = "managed" THEN minio.release /\ key = minio.running
                           ELSE key = "external"
AnyProbe(place, key) == key # "none"
Probe(place, key) == ProbePasses(place, key)

Executing(c) == request[c].at \in Calls
At(c, op, at) == request[c].op = op /\ request[c].at = at
Goes(c, at) == request' = [request EXCEPT ![c].at = at]

(***************************************************************************)
(* A request begins.  It meets whoever changes the same add-on.            *)
(***************************************************************************)
Meets(c, op) == \E d \in Callers \ {c} : Executing(d) /\ AddonOf(request[d].op) = AddonOf(op)

Begin(c, op, at, profile, place, name) ==
  /\ request[c].at = "unused"
  /\ request' = [request EXCEPT ![c] =
       [op |-> op, at |-> at, environment |-> environment.version, profile |-> profile,
        place |-> place, name |-> name, ready |-> rows[AddonOf(op)].status = "READY"]]
  /\ overlapped' = IF Meets(c, op) THEN overlapped \cup {AddonOf(op)} ELSE overlapped

(***************************************************************************)
(* The tables.                                                             *)
(***************************************************************************)
\* Whether the row says that the release is the platform's own; it is read of
\* Velero only.
IsManaging(c) == request[c].op \in {"install", "uninstall"}

\* The CHECK constraint of the schema, which names no REMOVED.
AllowedStatuses == Statuses \ {"REMOVED"}

CanUpsert(c, status) ==
  /\ environment.status # "absent" /\ environment.version = request[c].environment
  /\ status \in AllowedStatuses

Upsert(type, status, profile, managed) ==
  rows' = [rows EXCEPT ![type] = [status |-> status, profile |-> profile, managed |-> managed]]

Store(c, key) == vault' = [vault EXCEPT ![c] = [key |-> key, seal |-> masterKey]]

\* Neither an id nor a name may be taken.
CanCreateProfile(id, name) == ~IsStored(id) /\ IsFreeName(name)
CreateProfile(id, credential, place, name) ==
  profiles' = profiles \cup {[id |-> id, credential |-> credential, place |-> place, name |-> name]}

\* A credential that a profile refers to is not deleted.
Referenced(c) == \E p \in profiles : p.credential = c

(***************************************************************************)
(* What each call needs to succeed, beside the network.                    *)
(***************************************************************************)
LocationWorks ==
  /\ velero.server # "none" /\ velero.location # "none"
  /\ Probe(ProfileOf(velero.location).place, velero.secret)

StatusOf(c) == IF request[c].at = "upsert" THEN "INSTALLING"
               ELSE IF request[c].op = "uninstall" THEN "REMOVED" ELSE "READY"
PlaceOf(c) == request[c].place

Passes(c) ==
  LET op == request[c].op
      at == request[c].at
      profile == ProfileOf(request[c].profile)
  IN CASE at \in {"upsert", "ready"} -> CanUpsert(c, StatusOf(c))
       [] at = "test" -> Resolvable(profile.credential) /\ Probe("managed", KeyOf(profile))
       [] at = "store" -> op = "adopt" => minio.secret # "none"
       [] at = "restart" /\ op = "bootstrap" -> Probe("managed", vault[c].key)
       [] at = "restart" /\ op = "adopt" -> minio.release
       [] at = "profile" -> /\ Probe(PlaceOf(c), vault[c].key)
                            /\ CanCreateProfile(request[c].profile, request[c].name)
       [] at = "secret" /\ op = "install" -> velero.server # "foreign" /\ Resolvable(profile.credential)
       [] at = "secret" /\ op = "reuse" -> velero.server # "none" /\ Resolvable(profile.credential)
       [] at = "helm" /\ op = "uninstall" -> velero.server = "managed"
       [] at = "wait" -> velero.available
       [] OTHER -> TRUE

(***************************************************************************)
(* Where a call that fails leads: a message in the row, the removal of the *)
(* credential the request has stored, or only an error.                    *)
(***************************************************************************)
RecordsFailure(c) ==
  \/ request[c].op = "bootstrap" /\ request[c].at \in {"store", "secret", "helm", "restart", "profile"}
  \/ request[c].op = "install" /\ request[c].at \in {"secret", "helm", "location", "wait"}
RemovesCredential(c) ==
  /\ request[c].op \in {"adopt", "external"} /\ request[c].at \in {"restart", "profile", "ready"}
  /\ vault[c].key # "none"

AfterFailure(c) ==
  CASE RecordsFailure(c) -> "failing"
    [] RemovesCredential(c) -> "unstoring"
    [] OTHER -> "failed"

\* A check does not pass, or the call itself fails.
CallFails(c) ==
  /\ Executing(c) /\ request[c].at # "failing" /\ request[c].at # "unstoring"
  /\ Goes(c, AfterFailure(c))
  /\ UNCHANGED <<tableVars, clusterVars, masterKey, overlapped>>

RecordFailure(c) ==
  /\ request[c].at = "failing"
  /\ IF CanUpsert(c, "FAILED")
     THEN Upsert(AddonOf(request[c].op), "FAILED", request[c].profile, IsManaging(c))
     ELSE UNCHANGED rows
  /\ Goes(c, "failed")
  /\ UNCHANGED <<environment, vault, profiles, clusterVars, masterKey, overlapped>>

RemoveCredential(c) ==
  /\ request[c].at = "unstoring"
  /\ vault' = IF Referenced(c) THEN vault ELSE [vault EXCEPT ![c] = NoCredential]
  /\ Goes(c, "failed")
  /\ UNCHANGED <<environment, rows, profiles, clusterVars, masterKey, overlapped>>

\* The process of the API dies: what it was doing is never finished.
ApiCrashes ==
  /\ \E c \in Callers : Executing(c)
  /\ request' = [c \in Callers |-> IF Executing(c) THEN [request[c] EXCEPT !.at = "failed"] ELSE request[c]]
  /\ UNCHANGED <<tableVars, clusterVars, masterKey, overlapped>>

(***************************************************************************)
(* objectstorage.Service.  Bootstrap generates keys, writes them to the    *)
(* vault and to the Secret, installs or upgrades MinIO, and probes it      *)
(* before and after a restart.                                             *)
(***************************************************************************)
CanBootstrap == rows["MINIO"].status \in {"absent", "FAILED", "REMOVED"}

Bootstrap(c, name) ==
  /\ Connected /\ CanBootstrap
  /\ Begin(c, "bootstrap", "upsert", c, "managed", name)
  /\ UNCHANGED <<tableVars, clusterVars, masterKey>>

\* Adopt takes over the MinIO it finds.  The id of the profile is the one in the row.
ProfileIdAsRecorded(c) == rows["MINIO"].profile
ProfileIdFromInstallation(c) ==
  IF rows["MINIO"].profile = "none" THEN c ELSE rows["MINIO"].profile

CanAdopt == Connected /\ rows["MINIO"].status \notin {"PENDING", "INSTALLING"}

Adopt(c, name) ==
  /\ CanAdopt
  /\ Begin(c, "adopt", IF IsStored(ProfileIdFromInstallation(c)) THEN "test" ELSE "store",
           ProfileIdFromInstallation(c), "managed", name)
  /\ UNCHANGED <<tableVars, clusterVars, masterKey>>

ConnectExternal(c, place, name) ==
  /\ Begin(c, "external", "store", c, place, name)
  /\ UNCHANGED <<tableVars, clusterVars, masterKey>>

MarkInstalling(c) ==
  /\ request[c].at = "upsert" /\ Passes(c)
  /\ Upsert(AddonOf(request[c].op), "INSTALLING", request[c].profile, IsManaging(c))
  /\ Goes(c, IF request[c].op = "bootstrap" THEN "store" ELSE "secret")
  /\ UNCHANGED <<environment, vault, profiles, clusterVars, masterKey, overlapped>>

\* The keys are generated, read from the Secret, or given by the administrator.
KeysFor(c) == CASE request[c].op = "bootstrap" -> {c}
                [] request[c].op = "adopt" -> {minio.secret}
                [] request[c].op = "external" -> {"external", "wrong"}

StoreCredential(c) ==
  /\ request[c].at = "store" /\ Passes(c)
  /\ \E key \in KeysFor(c) : Store(c, key)
  /\ Goes(c, CASE request[c].op = "bootstrap" -> "secret"
               [] request[c].op = "adopt" -> "restart"
               [] OTHER -> "profile")
  /\ UNCHANGED <<environment, rows, profiles, clusterVars, masterKey, overlapped>>

PutMinioSecret(c) ==
  /\ At(c, "bootstrap", "secret")
  /\ minio' = [minio EXCEPT !.secret = vault[c].key]
  /\ Goes(c, "helm")
  /\ UNCHANGED <<tableVars, velero, masterKey, overlapped>>

\* A new release starts with the Secret; an upgrade leaves the pod's keys as they
\* are until it restarts.
InstalledMinio == [minio EXCEPT !.release = TRUE, !.running = IF minio.release THEN @ ELSE minio.secret]

InstallMinio(c) ==
  /\ At(c, "bootstrap", "helm")
  /\ minio' = InstalledMinio
  /\ Goes(c, "restart")
  /\ UNCHANGED <<tableVars, velero, masterKey, overlapped>>

Restarted == [minio EXCEPT !.running = minio.secret]

RestartMinio(c) ==
  /\ At(c, "bootstrap", "restart") /\ Passes(c)
  /\ minio' = Restarted
  /\ Goes(c, "profile")
  /\ UNCHANGED <<tableVars, velero, masterKey, overlapped>>

\* Adopt restarts MinIO once after a probe that fails, because of the keys or of
\* the network, and probes again.
ReloadCredential(c) ==
  /\ At(c, "adopt", "restart") /\ Passes(c)
  /\ \/ Probe("managed", vault[c].key) /\ UNCHANGED minio /\ Goes(c, "profile")
     \/ /\ minio' = Restarted
        /\ Goes(c, IF minio.secret = vault[c].key THEN "profile" ELSE "unstoring")
  /\ UNCHANGED <<tableVars, velero, masterKey, overlapped>>

SaveProfile(c) ==
  /\ request[c].at = "profile" /\ Passes(c)
  /\ CreateProfile(request[c].profile, c, PlaceOf(c), request[c].name)
  /\ Goes(c, IF request[c].op = "external" THEN "ok" ELSE "ready")
  /\ UNCHANGED <<environment, rows, vault, clusterVars, masterKey, overlapped>>

\* Test answers for Adopt; a row that is READY is left as it is.
TestProfile(c) ==
  /\ At(c, "adopt", "test") /\ Passes(c)
  /\ Goes(c, IF request[c].ready THEN "ok" ELSE "ready")
  /\ UNCHANGED <<tableVars, clusterVars, masterKey, overlapped>>

MarkReady(c) ==
  /\ request[c].at = "ready" /\ Passes(c)
  /\ Upsert(AddonOf(request[c].op), StatusOf(c), request[c].profile, IsManaging(c))
  /\ velero' = IF AddonOf(request[c].op) = "VELERO" THEN [velero EXCEPT !.unrecorded = FALSE] ELSE velero
  /\ Goes(c, "ok")
  /\ UNCHANGED <<environment, vault, profiles, minio, masterKey, overlapped>>

(***************************************************************************)
(* velero.Service.                                                         *)
(***************************************************************************)
Install(c, profile) ==
  /\ Connected /\ IsStored(profile)
  /\ Begin(c, "install", "upsert", profile, "managed", "managed")
  /\ UNCHANGED <<tableVars, clusterVars, masterKey>>

Reuse(c, profile) ==
  /\ Connected /\ IsStored(profile)
  /\ Begin(c, "reuse", "secret", profile, "managed", "managed")
  /\ UNCHANGED <<tableVars, clusterVars, masterKey>>

Uninstall(c) ==
  /\ environment.status # "absent"
  /\ rows["VELERO"].status \notin {"absent", "REMOVED"} /\ rows["VELERO"].managed
  /\ Begin(c, "uninstall", "helm", rows["VELERO"].profile, "managed", "managed")
  /\ UNCHANGED <<tableVars, clusterVars, masterKey>>

\* Reuse changes the cluster under a row that still tells of the last success.
PutVeleroSecret(c) ==
  /\ request[c].op \in {"install", "reuse"} /\ request[c].at = "secret" /\ Passes(c)
  /\ velero' = [velero EXCEPT !.secret = KeyOf(ProfileOf(request[c].profile)),
                              !.unrecorded = @ \/ request[c].op = "reuse"]
  /\ Goes(c, IF request[c].op = "install" THEN "helm" ELSE "location")
  /\ UNCHANGED <<tableVars, minio, masterKey, overlapped>>

InstallVelero(c) ==
  /\ At(c, "install", "helm")
  /\ velero' = [velero EXCEPT !.server = "managed"]
  /\ Goes(c, "location")
  /\ UNCHANGED <<tableVars, minio, masterKey, overlapped>>

\* EnsureBackupStorageLocation creates the location or replaces what it finds,
\* whose status stays until Velero has validated it again.
OnlyCreated(location, profile) == IF location = "none" THEN profile ELSE location
Ensured(location, profile) == profile

EnsureBackupStorageLocation(c) ==
  /\ request[c].at = "location"
  /\ velero' = [velero EXCEPT !.location = Ensured(@, request[c].profile),
                              !.available = @ /\ velero.location # "none"]
  /\ Goes(c, "wait")
  /\ UNCHANGED <<tableVars, minio, masterKey, overlapped>>

\* The status may be of before the change.
WaitForLocation(c) ==
  /\ request[c].at = "wait" /\ Passes(c)
  /\ Goes(c, "ready")
  /\ UNCHANGED <<tableVars, clusterVars, masterKey, overlapped>>

UninstallVelero(c) ==
  /\ At(c, "uninstall", "helm") /\ Passes(c)
  /\ velero' = [velero EXCEPT !.server = "none", !.unrecorded = TRUE]
  /\ Goes(c, "ready")
  /\ UNCHANGED <<tableVars, minio, masterKey, overlapped>>

(***************************************************************************)
(* environment.Service, for the target cluster.  Deleting an environment   *)
(* deletes its add-on rows with it and leaves profiles and cluster alone.  *)
(***************************************************************************)
CreateEnvironment ==
  /\ environment.status = "absent" /\ environment.version < MaxEnvironments
  /\ environment' = [version |-> environment.version + 1, status |-> "PENDING"]
  /\ UNCHANGED <<rows, vault, profiles, clusterVars, masterKey, request, overlapped>>

TestConnection(status) ==
  /\ environment.status # "absent"
  /\ environment' = [environment EXCEPT !.status = status]
  /\ UNCHANGED <<rows, vault, profiles, clusterVars, masterKey, request, overlapped>>

RefreshCapabilities(status) ==
  /\ environment.status # "absent"
  /\ environment' = [environment EXCEPT !.status = status]
  /\ UNCHANGED <<rows, vault, profiles, clusterVars, masterKey, request, overlapped>>

DeleteEnvironment ==
  /\ environment.status # "absent"
  /\ environment' = [environment EXCEPT !.status = "absent"]
  /\ rows' = [type \in AddonTypes |-> NoRow]
  /\ UNCHANGED <<vault, profiles, clusterVars, masterKey, request, overlapped>>

\* The pod of MinIO is rescheduled and reads its Secret again.
PodRestarts ==
  /\ minio.release /\ minio.running # minio.secret
  /\ minio' = Restarted
  /\ UNCHANGED <<tableVars, velero, masterKey, request, overlapped>>

\* Velero writes into the status whether it can use the location.
VeleroValidates ==
  /\ velero.server # "none" /\ velero.location # "none"
  /\ velero.available # LocationWorks
  /\ velero' = [velero EXCEPT !.available = LocationWorks]
  /\ UNCHANGED <<tableVars, minio, masterKey, request, overlapped>>

RequestStep(c) ==
  \/ RecordFailure(c) \/ RemoveCredential(c)
  \/ MarkInstalling(c) \/ StoreCredential(c) \/ PutMinioSecret(c) \/ InstallMinio(c)
  \/ RestartMinio(c) \/ ReloadCredential(c) \/ SaveProfile(c) \/ TestProfile(c) \/ MarkReady(c)
  \/ PutVeleroSecret(c) \/ InstallVelero(c) \/ EnsureBackupStorageLocation(c) \/ WaitForLocation(c)
  \/ UninstallVelero(c)
-----------------------------------------------------------------------------
\* A READY row of MinIO tells of an object storage that works: its profile exists,
\* its credential can be opened and is what MinIO runs with and will restart with;
\* after every sequence of bootstraps, adoptions, failures and retries that did not
\* overlap (Bootstrap and Adopt probe before they write READY).
ReadyStorageWorks ==
  rows["MINIO"].status = "READY" /\ "MINIO" \notin overlapped =>
    \E p \in profiles :
      /\ p.id = rows["MINIO"].profile
      /\ Resolvable(p.credential)
      /\ minio.release /\ KeyOf(p) = minio.running /\ KeyOf(p) = minio.secret

\* A READY row of Velero names the profile whose storage and keys Velero uses,
\* unless a reuse or an uninstallation has changed the cluster and not the row,
\* or two requests overlapped.
ReadyVeleroUsesItsProfile ==
  rows["VELERO"].status = "READY" /\ ~velero.unrecorded /\ "VELERO" \notin overlapped =>
    /\ velero.server # "none"
    /\ velero.location = rows["VELERO"].profile
    /\ velero.secret = KeyOf(ProfileOf(velero.location))
=============================================================================
