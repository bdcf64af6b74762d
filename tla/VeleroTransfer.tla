--------------------------- MODULE VeleroTransfer ---------------------------
(***************************************************************************)
(* How VeleroExecutor moves a Kubernetes application: backups of the source*)
(* cluster through a repository that the target cluster shares, staging    *)
(* pods for volumes that nothing mounts, a ConfigMap of StorageClass       *)
(* mappings that all restores to a cluster share, the restore, and the     *)
(* validation of the target.  Each handler is a sequence of calls; Velero  *)
(* works on its objects in between.                                        *)
(***************************************************************************)
EXTENDS StepHandlers

VARIABLES
  up,         \* whether the workloads of each run's source run
  staging,    \* volumes that a staging pod of the run mounts in the source
  backups,    \* Velero Backup objects of the source cluster, by name and stage
  synced,     \* the target cluster's copies of final backups, by name
  restores,   \* Velero Restore objects of the target cluster, by name
  config,     \* the ConfigMap: annotations of the runs that own entries, and its data
  target,     \* the target namespace of each run: what it was restored from and
              \* with which mappings, whether its workloads were scaled up,
              \* restored staging pods, the admission level
  unwound     \* history: runs whose staging pods the handler of a backup removed as a
              \* ghost, or while the backup or a ghost needed them

veleroVars == <<up, staging, backups, synced, restores, config, target, unwound>>

(***************************************************************************)
(* kind     - whole:    one run from the beginning                         *)
(*            mappings: two runs with finished backups meet at the target  *)
(*            names:    two runs whose ids begin with the same 12 digits   *)
(* fsb      - volumes are copied from pods that mount them (VolumeFSBackup)*)
(*            or as snapshots (VolumeCSIDataMover)                         *)
(* shared   - both clusters use one repository                             *)
(* mover    - both clusters have a working data mover                      *)
(* checks   - the plan has HTTP or TCP checks                              *)
(* profiles - the StorageClass mappings of each run's profile              *)
(***************************************************************************)
Whole(fsb, shared, mover, checks, profile) ==
  [kind |-> "whole", fsb |-> fsb, shared |-> shared, mover |-> mover,
   checks |-> checks, profiles |-> [r \in Runs |-> profile]]

Meeting(kind, profiles) ==
  [kind |-> kind, fsb |-> FALSE, shared |-> TRUE, mover |-> TRUE,
   checks |-> FALSE, profiles |-> profiles]

\* A profile maps a class to one target.
IsProfile(pairs) == \A x, y \in pairs : x[1] = y[1] => x = y

First == CHOOSE r \in Runs : TRUE

Backup(phase, owner, volumes, stopped) ==
  [phase |-> phase, owner |-> owner, volumes |-> volumes, stopped |-> stopped]
NoBackup == Backup("absent", First, {}, FALSE)

Restore(phase, owner, of, mapped) == [phase |-> phase, owner |-> owner, of |-> of, mapped |-> mapped]
NoRestore == Restore("absent", First, NoBackup, {})

NoConfig == [owners |-> {}, data |-> {}]

BackupStages == {"presync", "final"}
Phases == {"absent", "New", "InProgress", "Completed", "PartiallyFailed", "Failed"}

\* backupName and restoreName: the first 12 digits of the run's id.
BackupName(r) == IF setting.kind = "names" THEN First ELSE r

BackupStates(phases) == [phase : phases, owner : Runs, volumes : SUBSET Volumes, stopped : BOOLEAN]
RestoreStates == [phase : Phases, owner : Runs, of : BackupStates(Phases), mapped : SUBSET Classes]
TargetStates == [of : BackupStates(Phases), mapped : SUBSET Classes, scaled : BOOLEAN,
                 staging : SUBSET Volumes, admission : {"none", "restricted"}]

VeleroTypeOK ==
  /\ up \in [Runs -> BOOLEAN]
  /\ staging \in [Runs -> SUBSET Volumes]
  /\ backups \in [Runs -> [BackupStages -> BackupStates(Phases)]]
  /\ synced \in [Runs -> BackupStates({"absent", "Completed", "PartiallyFailed"})]
  /\ restores \in [Runs -> RestoreStates]
  /\ config \in [owners : SUBSET (Runs \X Classes), data : SUBSET Classes]
  /\ target \in [Runs -> TargetStates]
  /\ unwound \subseteq Runs

\* In "mappings" the runs have a final backup each, which was synced.
VeleroInit(chosen) ==
  LET meets == chosen.kind = "mappings"
      complete == [r \in Runs |-> Backup("Completed", r, Volumes, TRUE)]
  IN  /\ up = [r \in Runs |-> chosen.kind = "whole"]
      /\ staging = [r \in Runs |-> {}]
      /\ backups = [r \in Runs |-> [stage \in BackupStages |->
                      IF meets /\ stage = "final" THEN complete[r] ELSE NoBackup]]
      /\ synced = IF meets THEN complete ELSE [r \in Runs |-> NoBackup]
      /\ restores = [r \in Runs |-> NoRestore]
      /\ config = NoConfig
      /\ target = [r \in Runs |-> [of |-> NoBackup, mapped |-> {}, scaled |-> FALSE,
                                    staging |-> {}, admission |-> "none"]]
      /\ unwound = {}

FirstStep(kind) ==
  CASE kind = "whole"    -> [r \in Runs |-> IF r = First THEN "PREFLIGHT" ELSE "ABSENT"]
    [] kind = "mappings" -> [r \in Runs |-> "TRANSFORM"]
    [] kind = "names"    -> [r \in Runs |-> "FINAL_BACKUP"]

FirstCall(step) ==
  CASE step = "PREFLIGHT"    -> "preflight"
    [] step = "PRESYNC"      -> "list_pods"
    [] step = "QUIESCE"      -> "quiesce"
    [] step = "FINAL_BACKUP" -> "list_pods"
    [] step = "TRANSFER"     -> "verify_transfer"
    [] step = "TRANSFORM"    -> "read_mappings"
    [] step = "RESTORE"      -> "await_sync"
    [] step = "VALIDATION"   -> "validate_namespace"

(***************************************************************************)
(* PREFLIGHT.  Clusters with different repositories, or without a working  *)
(* data mover, are refused, because Velero would never finish.             *)
(***************************************************************************)
AnyRepository == TRUE
SameBackupRepository == setting.shared
DataMoverReady == setting.mover \/ setting.fsb

VeleroPreflight(r, s) ==
  /\ IsAt(r, s, "preflight")
  /\ IF SameBackupRepository /\ DataMoverReady THEN Succeed(r, s) ELSE Refuse(r, s)
  /\ UNCHANGED veleroVars

(***************************************************************************)
(* PRESYNC and FINAL_BACKUP.                                               *)
(***************************************************************************)
StageOf(r, s) == IF handler[r][s].step = "PRESYNC" THEN "presync" ELSE "final"

BackupOf(r, s) == backups[BackupName(r)][StageOf(r, s)]

\* Workloads that run mount every volume but one; those that were stopped, none.
AppVolumes(r) == IF up[r] THEN Volumes \ {CHOOSE v \in Volumes : TRUE} ELSE {}

ListPods(r, s) ==
  /\ IsAt(r, s, "list_pods")
  /\ GoOn(r, s, IF setting.fsb
                  THEN [At(handler[r][s].step, "stage") EXCEPT !.todo = Volumes \ AppVolumes(r)]
                  ELSE At(handler[r][s].step, "create_backup"))
  /\ UNCHANGED veleroVars

\* A pod of the same name was created by an earlier attempt of the run.
CreateStagingPod(r, s, v) ==
  /\ IsAt(r, s, "stage") /\ IsNext(v, handler[r][s].todo)
  /\ staging' = [staging EXCEPT ![r] = @ \cup {v}]
  /\ GoOn(r, s, [handler[r][s] EXCEPT !.pc = "await_pod"])
  /\ UNCHANGED <<up, backups, synced, restores, config, target, unwound>>

\* There is no deadline, and a pod that was deleted is waited for as well.
AwaitStagingPod(r, s, v) ==
  /\ IsAt(r, s, "await_pod") /\ IsNext(v, handler[r][s].todo)
  /\ v \in staging[r]
  /\ GoOn(r, s, [handler[r][s] EXCEPT !.pc = "stage", !.todo = @ \ {v}])
  /\ UNCHANGED veleroVars

StagingIsReady(r, s) ==
  /\ IsAt(r, s, "stage") /\ handler[r][s].todo = {}
  /\ ProceedTo(r, s, "create_backup")
  /\ UNCHANGED veleroVars

\* What the handler does on its way out if it does not return nil.
Unwinds(r, s) == setting.fsb /\ handler[r][s].pc \in {"create_backup", "poll_backup", "delete_staging"}

Unwind(r, s) == IF Unwinds(r, s) THEN ProceedTo(r, s, "unwind") ELSE Refuse(r, s)

AnyIdentity(backup, r) == TRUE
SameBackupIdentity(backup, r) == backup.owner = r

CreateBackup(r, s) ==
  LET existing == BackupOf(r, s)
  IN  /\ IsAt(r, s, "create_backup")
      /\ \/ /\ existing.phase = "absent"
            /\ backups' = [backups EXCEPT ![BackupName(r)][StageOf(r, s)] = Backup("New", r, {}, FALSE)]
            /\ ProceedTo(r, s, "poll_backup")
         \/ /\ existing.phase # "absent" /\ SameBackupIdentity(existing, r)
            /\ ProceedTo(r, s, "poll_backup") /\ UNCHANGED backups
         \/ /\ existing.phase # "absent" /\ ~SameBackupIdentity(existing, r)
            /\ Unwind(r, s) /\ UNCHANGED backups
      /\ UNCHANGED <<up, staging, synced, restores, config, target, unwound>>

HasFailed(phase) == phase \in {"PartiallyFailed", "Failed"}

PollBackup(r, s) ==
  /\ IsAt(r, s, "poll_backup")
  /\ \/ BackupOf(r, s).phase = "Completed" /\ ProceedTo(r, s, "delete_staging")
     \/ HasFailed(BackupOf(r, s).phase) /\ Unwind(r, s)
     \/ BackupOf(r, s).phase = "absent" /\ Unwind(r, s)
  /\ UNCHANGED veleroVars

\* A backup that has not read the volumes needs the pods, and so does a ghost
\* that may still create one.
StagingIsNeeded(r, s) ==
  \/ BackupOf(r, s).phase = "New"
  \/ BackupOf(r, s).phase = "absent" /\ Works(r, "ghost")

\* DeletePVCStaging selects the pods by the label of the run.
RemoveStaging(r, s) ==
  /\ staging' = [staging EXCEPT ![r] = {}]
  /\ unwound' = IF s = "ghost" \/ StagingIsNeeded(r, s) THEN unwound \cup {r} ELSE unwound

DeleteStaging(r, s) ==
  /\ IsAt(r, s, "delete_staging")
  /\ RemoveStaging(r, s)
  /\ Succeed(r, s)
  /\ UNCHANGED <<up, backups, synced, restores, config, target>>

UnwindStaging(r, s) ==
  /\ IsAt(r, s, "unwind")
  /\ RemoveStaging(r, s)
  /\ Refuse(r, s)
  /\ UNCHANGED <<up, backups, synced, restores, config, target>>

(***************************************************************************)
(* QUIESCE and ROLLBACK, of which SourceWorkloads has the details.         *)
(***************************************************************************)
VeleroQuiesce(r, s) ==
  /\ IsAt(r, s, "quiesce")
  /\ up' = [up EXCEPT ![r] = FALSE]
  /\ Succeed(r, s)
  /\ UNCHANGED <<staging, backups, synced, restores, config, target, unwound>>

\* The staging pods are removed after the workloads run, and whether they were is
\* not looked at.  Bound: the attempts are one; if the last of them fails it does
\* so before the workloads run or after it.
VeleroRollback(r) ==
  /\ job[r].step = "ROLLBACK"
  /\ \/ /\ up' = [up EXCEPT ![r] = TRUE]
        /\ staging' = [staging EXCEPT ![r] = {}]
        /\ UNCHANGED failures
     \/ /\ Fault
        /\ up' = [up EXCEPT ![r] = TRUE]
        /\ \E left \in {{}, staging[r]} : staging' = [staging EXCEPT ![r] = left]
     \/ Fault /\ UNCHANGED <<up, staging>>
  /\ job' = [job EXCEPT ![r].step = "FAILED"]
  /\ UNCHANGED <<setting, handler>>
  /\ UNCHANGED <<backups, synced, restores, config, target, unwound>>

(***************************************************************************)
(* TRANSFER.  The status is read by name.                                  *)
(***************************************************************************)
VerifyTransfer(r, s) ==
  /\ IsAt(r, s, "verify_transfer")
  /\ IF backups[BackupName(r)].final.phase = "Completed" THEN Succeed(r, s) ELSE Refuse(r, s)
  /\ UNCHANGED veleroVars

(***************************************************************************)
(* TRANSFORM.  One ConfigMap serves all restores to the cluster: every run *)
(* annotates it with its own mappings and its data is the merge of all. An *)
(* object that somebody wrote in between is read again, one that somebody  *)
(* deleted in between is an error of the call.  (The code gives up after   *)
(* five conflicts, more than the runs here can cause.)                     *)
(***************************************************************************)
Profile(r) == setting.profiles[r]

OwnersWith(owners, r) == {o \in owners : o[1] # r} \cup {<<r, pair>> : pair \in Profile(r)}
OwnersWithout(owners, r) == {o \in owners : o[1] # r}
AsAnnotated(owners) == owners
Merged(owners) == {o[2] : o \in owners}

ReadMappings(r, s) ==
  /\ IsAt(r, s, "read_mappings")
  /\ IF Profile(r) = {} THEN Succeed(r, s)
     ELSE GoOn(r, s, [At(handler[r][s].step, "write_mappings")
                        EXCEPT !.copy = config.owners, !.fresh = TRUE])
  /\ UNCHANGED veleroVars

\* Nobody has written the object since it was read, or there is none to create
\* it again.
AnyVersion(r, s) == TRUE
IsFresh(r, s) == handler[r][s].fresh \/ (handler[r][s].copy = {} /\ config = NoConfig)

WasDeleted(r, s) == ~IsFresh(r, s) /\ config = NoConfig

\* A write of the ConfigMap, after which nobody else's copy is fresh; "done" is
\* the call that comes next, if there is one.
WriteConfig(r, s, owners, done) ==
  /\ config' = IF owners = {} THEN NoConfig ELSE [owners |-> owners, data |-> Merged(owners)]
  /\ LET stale == [q \in Runs |-> [t \in Slots |-> [handler[q][t] EXCEPT !.fresh = FALSE]]]
         next == IF done = "none" THEN Idle ELSE At(handler[r][s].step, done)
     IN  handler' = [stale EXCEPT ![r][s] = next]
  /\ job' = IF done # "none" \/ s = "ghost" THEN job
            ELSE [job EXCEPT ![r] = [step |-> NextStep(job[r].step), attempt |-> 0]]
  /\ UNCHANGED <<setting, failures>>
  /\ UNCHANGED <<up, staging, backups, synced, restores, target, unwound>>

EnsureMappings(r, s) ==
  LET owners == OwnersWith(handler[r][s].copy, r)
  IN  /\ IsAt(r, s, "write_mappings")
      /\ \/ ~IsProfile(Merged(owners)) /\ Refuse(r, s) /\ UNCHANGED veleroVars
         \/ IsProfile(Merged(owners)) /\ IsFresh(r, s) /\ WriteConfig(r, s, owners, "none")
         \/ IsProfile(Merged(owners)) /\ WasDeleted(r, s) /\ Refuse(r, s) /\ UNCHANGED veleroVars
         \/ /\ IsProfile(Merged(owners)) /\ ~IsFresh(r, s) /\ ~WasDeleted(r, s)
            /\ ProceedTo(r, s, "read_mappings") /\ UNCHANGED veleroVars

(***************************************************************************)
(* RESTORE.                                                                *)
(***************************************************************************)
\* There is no deadline: the copy has not come yet, or never will.
AwaitSync(r, s) ==
  /\ IsAt(r, s, "await_sync")
  /\ synced[BackupName(r)].phase # "absent"
  /\ IF synced[BackupName(r)].phase = "Completed"
       THEN ProceedTo(r, s, "create_restore") ELSE Refuse(r, s)
  /\ UNCHANGED veleroVars

RestoreOf(r) == restores[BackupName(r)]

\* What enforces an admission level is removed.
EnsureMigrationNamespace(r) == [target EXCEPT ![r].admission = "none"]

CreateRestore(r, s) ==
  /\ IsAt(r, s, "create_restore")
  /\ target' = EnsureMigrationNamespace(r)
  /\ \/ /\ RestoreOf(r).phase = "absent"
        /\ restores' = [restores EXCEPT ![BackupName(r)] = Restore("New", r, NoBackup, {})]
        /\ ProceedTo(r, s, "poll_restore")
     \/ /\ RestoreOf(r).phase # "absent" /\ RestoreOf(r).owner = r
        /\ ProceedTo(r, s, "poll_restore") /\ UNCHANGED restores
     \/ /\ RestoreOf(r).phase # "absent" /\ RestoreOf(r).owner # r
        /\ Refuse(r, s) /\ UNCHANGED restores
  /\ UNCHANGED <<up, staging, backups, synced, config, unwound>>

\* A Completed restore is followed by ApplyPostRestoreMappings, which changes
\* fields of the restored objects only.
PollRestore(r, s) ==
  /\ IsAt(r, s, "poll_restore")
  /\ \/ RestoreOf(r).phase = "Completed" /\ ProceedTo(r, s, "read_owners")
     \/ RestoreOf(r).phase \in {"PartiallyFailed", "Failed", "absent"} /\ Refuse(r, s)
  /\ UNCHANGED veleroVars

ReadOwners(r, s) ==
  /\ IsAt(r, s, "read_owners")
  /\ IF config = NoConfig THEN ProceedTo(r, s, "delete_target_staging")
     ELSE GoOn(r, s, [At(handler[r][s].step, "delete_mappings")
                        EXCEPT !.copy = config.owners, !.fresh = TRUE])
  /\ UNCHANGED veleroVars

\* Who finds nothing to delete is content, who finds nothing to update is not.
DeleteMappings(r, s) ==
  LET owners == OwnersWithout(handler[r][s].copy, r)
  IN  /\ IsAt(r, s, "delete_mappings")
      /\ \/ IsFresh(r, s) /\ WriteConfig(r, s, owners, "delete_target_staging")
         \/ /\ WasDeleted(r, s) /\ owners = {}
            /\ ProceedTo(r, s, "delete_target_staging") /\ UNCHANGED veleroVars
         \/ WasDeleted(r, s) /\ owners # {} /\ Refuse(r, s) /\ UNCHANGED veleroVars
         \/ /\ ~IsFresh(r, s) /\ ~WasDeleted(r, s)
            /\ ProceedTo(r, s, "read_owners") /\ UNCHANGED veleroVars

\* The staging pods of the source were restored with their volumes.
DeleteTargetStaging(r, s) ==
  /\ IsAt(r, s, "delete_target_staging")
  /\ target' = [target EXCEPT ![r].staging = {}]
  /\ ProceedTo(r, s, "scale_target")
  /\ UNCHANGED <<up, staging, backups, synced, restores, config, unwound>>

ScaleTarget(r, s) ==
  /\ IsAt(r, s, "scale_target")
  /\ target' = [target EXCEPT ![r].scaled = TRUE]
  /\ Succeed(r, s)
  /\ UNCHANGED <<up, staging, backups, synced, restores, config, unwound>>

(***************************************************************************)
(* VALIDATION.                                                             *)
(***************************************************************************)
IsReady(r) == target[r].scaled

\* waitForNamespaceValidation ends with the readiness of the namespace or, as a
\* failed call, with its deadline.
ValidateNamespace(r, s) ==
  /\ IsAt(r, s, "validate_namespace")
  /\ IsReady(r)
  /\ ProceedTo(r, s, "validate_endpoints")
  /\ UNCHANGED veleroVars

\* ValidateEndpoints prepares the namespace for its helper pods with
\* EnsureNamespace, which enforces the level "restricted".
ValidateEndpoints(r, s) ==
  /\ IsAt(r, s, "validate_endpoints")
  /\ target' = [target EXCEPT ![r].admission = IF setting.checks THEN "restricted" ELSE @]
  /\ Succeed(r, s)
  /\ UNCHANGED <<up, staging, backups, synced, restores, config, unwound>>

VeleroHandler(r, s) ==
  \/ VeleroPreflight(r, s)
  \/ ListPods(r, s) \/ StagingIsReady(r, s)
  \/ (\E v \in Volumes : CreateStagingPod(r, s, v) \/ AwaitStagingPod(r, s, v))
  \/ CreateBackup(r, s) \/ PollBackup(r, s) \/ DeleteStaging(r, s) \/ UnwindStaging(r, s)
  \/ VeleroQuiesce(r, s) \/ VerifyTransfer(r, s)
  \/ ReadMappings(r, s) \/ EnsureMappings(r, s)
  \/ AwaitSync(r, s) \/ CreateRestore(r, s) \/ PollRestore(r, s)
  \/ ReadOwners(r, s) \/ DeleteMappings(r, s) \/ DeleteTargetStaging(r, s) \/ ScaleTarget(r, s)
  \/ ValidateNamespace(r, s) \/ ValidateEndpoints(r, s)

\* A call fails, or the context of a ghost has been cancelled: the handler
\* returns the error, after what it has deferred.
VeleroCallFails(r, s) ==
  /\ Works(r, s)
  /\ FaultOf(s)
  /\ IF Unwinds(r, s)
       THEN /\ handler' = [handler EXCEPT ![r][s] = At(handler[r][s].step, "unwind")]
            /\ UNCHANGED <<setting, job>>
       ELSE ReturnError(r, s)
  /\ UNCHANGED veleroVars

(***************************************************************************)
(* The clusters.                                                           *)
(***************************************************************************)
\* Pods that mount volumes when the backup reads them; snapshots need none.
Captured(r) == IF setting.fsb THEN AppVolumes(r) \cup staging[r] ELSE Volumes

SetBackup(name, stage, value) ==
  /\ backups' = [backups EXCEPT ![name][stage] = value]
  /\ UNCHANGED <<handlerVars, up, staging, synced, restores, config, target, unwound>>

VeleroStartsBackup(name, stage) ==
  LET owner == backups[name][stage].owner
  IN  /\ backups[name][stage].phase = "New"
      /\ SetBackup(name, stage, Backup("InProgress", owner, Captured(owner), ~up[owner]))

VeleroEndsBackup(name, stage) ==
  /\ backups[name][stage].phase = "InProgress"
  /\ setting.fsb \/ setting.mover
  /\ SetBackup(name, stage, [backups[name][stage] EXCEPT !.phase = "Completed"])

VeleroFailsBackup(name, stage, phase) ==
  /\ backups[name][stage].phase = "InProgress"
  /\ Fault
  /\ backups' = [backups EXCEPT ![name][stage].phase = phase, ![name][stage].volumes = {}]
  /\ UNCHANGED <<setting, job, handler, up, staging, synced, restores, config, target, unwound>>

\* The target's Velero finds what the repository has; only finished backups are there.
VeleroSyncs(name) ==
  /\ setting.shared /\ synced[name].phase = "absent"
  /\ backups[name].final.phase \in {"Completed", "PartiallyFailed"}
  /\ synced' = [synced EXCEPT ![name] = backups[name].final]
  /\ UNCHANGED <<handlerVars, up, staging, backups, restores, config, target, unwound>>

SetRestore(name, value) ==
  /\ restores' = [restores EXCEPT ![name] = value]
  /\ UNCHANGED <<handlerVars, up, staging, backups, synced, config, unwound>>

\* The restore of a backup maps the classes that the ConfigMap has at that time.
\* One whose backup or data was deleted fails.
VeleroStartsRestore(name) ==
  /\ restores[name].phase = "New"
  /\ SetRestore(name, [restores[name] EXCEPT
       !.phase = IF synced[name].phase = "absent" \/ backups[name].final.phase = "absent"
                 THEN "Failed" ELSE "InProgress",
       !.of = synced[name], !.mapped = config.data])
  /\ UNCHANGED target

VeleroEndsRestore(name) ==
  LET owner == restores[name].owner
  IN  /\ restores[name].phase = "InProgress"
      /\ SetRestore(name, [restores[name] EXCEPT !.phase = "Completed"])
      /\ target' = [target EXCEPT ![owner].of = restores[name].of, ![owner].mapped = restores[name].mapped,
           ![owner].staging = IF setting.fsb THEN restores[name].of.volumes ELSE {}]

VeleroFailsRestore(name) ==
  /\ restores[name].phase = "InProgress"
  /\ Fault
  /\ restores' = [restores EXCEPT ![name].phase = "PartiallyFailed"]
  /\ UNCHANGED <<setting, job, handler, up, staging, backups, synced, config, target, unwound>>

(***************************************************************************)
(* ArtifactCleanupService: objects with the label of an ended run are      *)
(* removed.  In the source cluster the service only requests it of Velero, *)
(* which deletes a backup and its data some time later, if it does not work*)
(* on it; in the target cluster the objects are deleted at once, and Velero*)
(* finds there again what the repository still has.                        *)
(***************************************************************************)
IsOf(object, r) == object.phase # "absent" /\ object.owner = r

\* Bound: nobody cleans up where two runs have one name.
CanClean(r) == Ended(r) /\ setting.kind # "names"

\* A request needs no state of its own: who could make it before still can.
VeleroDeletesBackup(name, stage) ==
  /\ backups[name][stage].phase \notin {"absent", "InProgress"}
  /\ CanClean(backups[name][stage].owner)
  /\ SetBackup(name, stage, NoBackup)

CleanTarget(r) ==
  /\ CanClean(r)
  /\ restores' = [name \in Runs |-> IF IsOf(restores[name], r) THEN NoRestore ELSE restores[name]]
  /\ synced' = [name \in Runs |-> IF IsOf(synced[name], r) THEN NoBackup ELSE synced[name]]
  /\ UNCHANGED <<handlerVars, up, staging, backups, config, target, unwound>>

\* What Velero does with the objects of one name, whatever becomes of the others.
Velero(name) ==
  \/ \E stage \in BackupStages : VeleroStartsBackup(name, stage) \/ VeleroEndsBackup(name, stage)
  \/ VeleroSyncs(name) \/ VeleroStartsRestore(name) \/ VeleroEndsRestore(name)

VeleroNext ==
  \/ \E r \in Runs, s \in Slots : VeleroHandler(r, s) \/ VeleroCallFails(r, s)
  \/ \E r \in Runs : VeleroRollback(r) \/ CleanTarget(r)
  \/ \E name \in Runs, stage \in BackupStages : VeleroDeletesBackup(name, stage)
  \/ \E name \in Runs : Velero(name)
  \/ \E name \in Runs, stage \in BackupStages, phase \in {"PartiallyFailed", "Failed"} :
       VeleroFailsBackup(name, stage, phase)
  \/ \E name \in Runs : VeleroFailsRestore(name)
-----------------------------------------------------------------------------
(***************************************************************************)
(* Safety.                                                                 *)
(***************************************************************************)
HasOwner(r) == \E o \in config.owners : o[1] = r

\* The ConfigMap is always the merge of its owners' mappings and maps no class
\* twice, and a run that has prepared its transform keeps its mappings until its
\* own restore is complete, which has mapped all of its classes, whatever the
\* other runs write or delete; unless the run has ended, after which its objects
\* may be cleaned up and a handler that lost its lease restores once more
\* (EnsureVeleroStorageClassMappings, DeleteVeleroStorageClassMappings).
MappingsAreKept ==
  /\ config.data = Merged(config.owners) /\ IsProfile(config.data)
  /\ \A r \in Runs :
       /\ job[r].step = "RESTORE" /\ RestoreOf(r).phase # "Completed" => Profile(r) \subseteq config.data
       /\ target[r].of # NoBackup => Profile(r) \subseteq target[r].mapped \/ Ended(r)

\* What a run starts in the target namespace was restored from the run's own
\* final backup, taken of a stopped source, with all volumes in it, although
\* backups are found by their names and every step can be repeated; unless the
\* staging pods of the run were removed while they were needed.
RestoredFromOwnFinalBackup ==
  \A r \in Runs : target[r].scaled =>
    /\ target[r].of.owner = r /\ target[r].of.phase = "Completed" /\ target[r].of.stopped
    /\ target[r].of.volumes = Volumes \/ r \in unwound

(***************************************************************************)
(* What the two rest on: inductive with the types.                         *)
(***************************************************************************)
BackupCalls == {"list_pods", "stage", "await_pod", "create_backup", "poll_backup", "delete_staging", "unwind"}
\* The calls of a RESTORE that has polled a completed restore.
CallsAfterRestore == {"read_owners", "delete_mappings", "delete_target_staging", "scale_target"}

VeleroCalls ==
  [ABSENT |-> {"none"}, PREFLIGHT |-> {"preflight"}, PRESYNC |-> BackupCalls, QUIESCE |-> {"quiesce"},
   FINAL_BACKUP |-> BackupCalls, TRANSFER |-> {"verify_transfer"},
   TRANSFORM |-> {"read_mappings", "write_mappings"},
   RESTORE |-> {"await_sync", "create_restore", "poll_restore"} \cup CallsAfterRestore,
   VALIDATION |-> {"validate_namespace", "validate_endpoints"}]

StepsBeforeBackup == {"ABSENT", "PREFLIGHT", "PRESYNC", "QUIESCE"}
StepsAfterBackup == {"TRANSFER", "TRANSFORM", "RESTORE", "VALIDATION"}

Reached(r) == job[r].step \notin StepsBeforeBackup
Over(r) == job[r].step \in Ends \cup {"ROLLBACK"}

Final(r) == backups[BackupName(r)].final
Synced(r) == synced[BackupName(r)]

HasAll(backup, r) == backup.volumes = Volumes \/ r \in unwound
Valid(backup, r) == backup.phase = "Completed" /\ backup.owner = r /\ backup.stopped /\ HasAll(backup, r)

\* A final backup is stopped and complete, or of a run that does not need it.
Staged(r, todo) == setting.fsb => Volumes \subseteq staging[r] \cup todo \/ r \in unwound \/ Over(r)

BackupIsSound(name) ==
  LET b == backups[name].final
  IN  b.phase # "absent" =>
        /\ b.owner \in Runs /\ BackupName(b.owner) = name /\ Reached(b.owner)
        /\ b.phase = "New" => Staged(b.owner, {})
        /\ b.phase \in {"InProgress", "Completed"} => Over(b.owner) \/ (b.stopped /\ HasAll(b, b.owner))

\* A handler of the final backup has staged what its loop has visited, unless the
\* backup has been read; one that has created it, or found it, polls its own.
BackupHandlerIsSound(r, s, h) ==
  h.step = "FINAL_BACKUP" =>
    /\ Reached(r)
    /\ Final(r).phase \in {"absent", "New"} =>
         /\ h.pc \in {"stage", "await_pod"} => Staged(r, h.todo)
         /\ h.pc = "create_backup" => Staged(r, {})
    /\ h.pc = "poll_backup" =>
         IF Final(r).phase = "absent" THEN setting.kind # "names" ELSE Final(r).owner = r
    /\ h.pc = "delete_staging" /\ s = "current" => Final(r).phase = "Completed" /\ Final(r).owner = r

\* A run has ended and its final backup was deleted: nothing can create it again.
Gone(r) ==
  setting.kind # "names" /\ Ended(r) /\ Final(r).phase = "absent" /\ handler[r].ghost.step # "FINAL_BACKUP"

\* The target cluster's copy of a valid backup was deleted; Velero may find it again.
Dropped(r) ==
  /\ setting.kind # "names" /\ Ended(r) /\ handler[r].ghost.step # "FINAL_BACKUP"
  /\ Valid(Final(r), r) /\ Synced(r).phase = "absent"

\* A restore of the run starts from a valid backup, or fails.
Restorable(r) == Valid(Synced(r), r) \/ Gone(r) \/ Dropped(r)

IsAfterBackup(r) ==
  job[r].step \in StepsAfterBackup \/ \E s \in Slots : handler[r][s].step \in StepsAfterBackup

TransferIsSound(r) ==
  /\ job[r].step \in StepsAfterBackup \cup {"FINAL_BACKUP", "COMPLETED"} => ~up[r]
  /\ IsAfterBackup(r) => /\ Valid(Final(r), r) \/ Gone(r)
                         /\ Synced(r).phase # "absent" => Valid(Synced(r), r)

SyncIsSound(name) ==
  LET b == synced[name]
  IN  b.phase # "absent" =>
        /\ b.owner \in Runs /\ BackupName(b.owner) = name
        /\ b = backups[name].final \/ (setting.kind # "names" /\ Ended(b.owner))

RestoreIsSound(name) ==
  LET x == restores[name]
  IN  x.phase # "absent" =>
        /\ x.owner \in Runs /\ BackupName(x.owner) = name
        /\ x.phase = "New" => Restorable(x.owner)
        /\ x.phase = "InProgress" =>
             Valid(x.of, x.owner) /\ (Profile(x.owner) \subseteq x.mapped \/ Ended(x.owner))
        /\ x.phase = "Completed" => Valid(target[x.owner].of, x.owner)

Restored(r) == RestoreOf(r).phase = "Completed" /\ RestoreOf(r).owner = r

RestoreHandlerIsSound(r, h) ==
  /\ h.pc = "create_restore" => Restorable(r)
  /\ h.pc = "poll_restore" =>
       IF RestoreOf(r).phase = "absent" THEN setting.kind # "names" ELSE RestoreOf(r).owner = r
  /\ h.pc \in {"read_owners", "delete_mappings"} => Restored(r) \/ CanClean(r)
  /\ h.pc \in CallsAfterRestore => Valid(target[r].of, r)

\* What a handler relies on; a copy of the ConfigMap that is fresh has its owners.
HandlerIsSound(r, s, h) ==
  /\ BackupHandlerIsSound(r, s, h) /\ RestoreHandlerIsSound(r, h)
  /\ h.fresh => h.copy = config.owners

TargetIsSound(r) ==
  /\ target[r].of # NoBackup =>
       Valid(target[r].of, r) /\ (Profile(r) \subseteq target[r].mapped \/ Ended(r))
  /\ target[r].scaled => Valid(target[r].of, r)

\* The ConfigMap has the mappings of every run that restores, until its restore
\* is complete.
Annotated(r) == \A pair \in Profile(r) : <<r, pair>> \in config.owners
Restores(r) ==
  \/ job[r].step = "RESTORE" \/ \E s \in Slots : handler[r][s].step = "RESTORE"
  \/ RestoreOf(r).phase # "absent" /\ RestoreOf(r).owner = r

ConfigIsSound ==
  /\ config.data = Merged(config.owners) /\ IsProfile(config.data)
  /\ \A r \in Runs : Restores(r) => Annotated(r) \/ Restored(r) \/ CanClean(r)

VeleroInvariant ==
  /\ \A r \in Runs, s \in Slots : HandlerIsSound(r, s, handler[r][s])
  /\ \A r \in Runs : TransferIsSound(r) /\ TargetIsSound(r)
  /\ \A name \in Runs : BackupIsSound(name) /\ SyncIsSound(name) /\ RestoreIsSound(name)
  /\ ConfigIsSound
=============================================================================
