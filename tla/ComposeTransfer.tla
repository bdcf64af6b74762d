-------------------------- MODULE ComposeTransfer --------------------------
(***************************************************************************)
(* How ComposeExecutor moves a Docker Compose project: Kompose converts its*)
(* definition in a job of the target cluster, helper containers on the     *)
(* source host take Kopia snapshots of its volumes, and jobs in the target *)
(* namespace restore them into claims before the workloads are started.    *)
(* What was done is remembered in the run's event log alone.               *)
(***************************************************************************)
EXTENDS StepHandlers

VARIABLES
  project,    \* whether the services of each run's project run
  log,        \* the run's events that handlers read again
  snapshots,  \* COMPOSE_KOPIA_SNAPSHOT events: what the last one for a volume holds
  helpers,    \* helper containers on the source host: what each has copied
  kompose,    \* whether the conversion job of the run exists
  namespace,  \* the target namespace: its objects, replicas, admission level
  claims,     \* what each claim holds
  kopia,      \* the restore job of each claim
  disturbed   \* history: runs on which a ghost has restored volumes or started
              \* the workloads

composeVars ==
  <<project, log, snapshots, helpers, kompose, namespace, claims, kopia, disturbed>>

\* What is copied from a volume: nothing, the data of a project that runs, or
\* of one that is stopped; a claim can hold a part of a snapshot.
Copies == {"none", "running", "stopped"}
SnapshotPhases == {"presync", "final"}

ComposeEvents == {"COMPOSE_IMAGES_MIRRORED", "COMPOSE_SOURCE_STOPPED", "COMPOSE_MANIFESTS_APPLIED"}

(***************************************************************************)
(* data      - the services mount volumes or paths                         *)
(* overwrite - the plan overwrites objects that exist in the target        *)
(* mirror    - images are published to the migration registry              *)
(***************************************************************************)
Project(data, overwrite, mirror, checks) ==
  [kind |-> "compose", data |-> data, overwrite |-> overwrite, mirror |-> mirror, checks |-> checks,
   profiles |-> [r \in Runs |-> {}]]

HasComposeData == setting.data

ComposeTypeOK ==
  /\ project \in [Runs -> BOOLEAN]
  /\ log \in [Runs -> SUBSET ComposeEvents]
  /\ snapshots \in [Runs -> [SnapshotPhases -> [Volumes -> Copies]]]
  /\ helpers \in [Runs -> [SnapshotPhases -> [Volumes -> Copies]]]
  /\ kompose \in [Runs -> BOOLEAN]
  /\ namespace \in [Runs -> [objects : SUBSET {"claims", "workloads"}, started : BOOLEAN,
                             admission : {"none", "restricted", "privileged"}]]
  /\ claims \in [Runs -> [Volumes -> Copies \cup {"partial"}]]
  /\ kopia \in [Runs -> [Volumes -> {"absent", "active", "complete", "failed"}]]
  /\ disturbed \subseteq Runs

ComposeInit ==
  /\ project = [r \in Runs |-> TRUE]
  /\ log = [r \in Runs |-> {}]
  /\ snapshots = [r \in Runs |-> [phase \in SnapshotPhases |-> [v \in Volumes |-> "none"]]]
  /\ helpers = snapshots
  /\ kompose = [r \in Runs |-> FALSE]
  /\ namespace = [r \in Runs |-> [objects |-> {}, started |-> FALSE, admission |-> "none"]]
  /\ claims = [r \in Runs |-> [v \in Volumes |-> "none"]]
  /\ kopia = [r \in Runs |-> [v \in Volumes |-> "absent"]]
  /\ disturbed = {}

\* Every step but VALIDATION converts the definition, if there is anything to do.
ComposeFirstCall(step) ==
  CASE step = "PREFLIGHT"  -> "publish_images"
    [] step = "VALIDATION" -> "validate_workloads"
    [] step \in {"PRESYNC", "QUIESCE", "FINAL_BACKUP", "TRANSFER"} ->
         IF HasComposeData THEN "start_kompose" ELSE "stateless"
    [] step \in {"TRANSFORM", "RESTORE"} -> "start_kompose"

\* What follows the conversion.
AfterKompose(step) ==
  CASE step \in {"PREFLIGHT", "TRANSFORM"} -> "record"
    [] step = "PRESYNC"      -> "list_snapshots"
    [] step = "QUIESCE"      -> "stop_project"
    [] step = "FINAL_BACKUP" -> "check_stopped"
    [] step = "TRANSFER"     -> "count_snapshots"
    [] step = "RESTORE"      -> "prepare_namespace"

Recorded(r, event) == event \in log[r]

\* An event that nothing reads, the last call of a step.
RecordsOnly == {"record", "stateless"}

Record(r, s) ==
  /\ handler[r][s].pc \in RecordsOnly
  /\ Succeed(r, s)
  /\ UNCHANGED composeVars

(***************************************************************************)
(* PREFLIGHT publishes images unless an earlier attempt recorded that.     *)
(***************************************************************************)
PublishImages(r, s) ==
  /\ IsAt(r, s, "publish_images")
  /\ ProceedTo(r, s, "start_kompose")
  /\ log' = IF setting.mirror THEN [log EXCEPT ![r] = @ \cup {"COMPOSE_IMAGES_MIRRORED"}] ELSE log
  /\ UNCHANGED <<project, snapshots, helpers, kompose, namespace, claims, kopia, disturbed>>

(***************************************************************************)
(* The conversion.  The job has the name of the run: a handler replaces the*)
(* job of another one, waits for whichever has the name, and deletes it.   *)
(***************************************************************************)
SetKompose(r, exists) ==
  /\ kompose' = [kompose EXCEPT ![r] = exists]
  /\ UNCHANGED <<project, log, snapshots, helpers, namespace, claims, kopia, disturbed>>

StartKompose(r, s) ==
  /\ IsAt(r, s, "start_kompose")
  /\ SetKompose(r, TRUE)
  /\ ProceedTo(r, s, "await_kompose")

AwaitKompose(r, s) ==
  /\ IsAt(r, s, "await_kompose")
  /\ SetKompose(r, FALSE)
  /\ IF kompose[r] THEN ProceedTo(r, s, AfterKompose(handler[r][s].step)) ELSE Refuse(r, s)

(***************************************************************************)
(* QUIESCE, of which SourceWorkloads has the details.                      *)
(***************************************************************************)
StopProject(r, s) ==
  /\ IsAt(r, s, "stop_project")
  /\ IF Recorded(r, "COMPOSE_SOURCE_STOPPED")
       THEN Succeed(r, s) /\ UNCHANGED project
       ELSE /\ project' = [project EXCEPT ![r] = FALSE]
            /\ ProceedTo(r, s, "record_stopped")
  /\ UNCHANGED <<log, snapshots, helpers, kompose, namespace, claims, kopia, disturbed>>

RecordStopped(r, s) ==
  /\ IsAt(r, s, "record_stopped")
  /\ log' = [log EXCEPT ![r] = @ \cup {"COMPOSE_SOURCE_STOPPED"}]
  /\ Succeed(r, s)
  /\ UNCHANGED <<project, snapshots, helpers, kompose, namespace, claims, kopia, disturbed>>

ComposeRollback(r) ==
  /\ job[r].step = "ROLLBACK"
  /\ project' = [project EXCEPT ![r] = @ \/ Recorded(r, "COMPOSE_SOURCE_STOPPED")]
  /\ job' = [job EXCEPT ![r].step = "FAILED"]
  /\ UNCHANGED <<setting, handler, failures>>
  /\ UNCHANGED <<log, snapshots, helpers, kompose, namespace, claims, kopia, disturbed>>

(***************************************************************************)
(* PRESYNC and FINAL_BACKUP: snapshotVolumes.                              *)
(***************************************************************************)
PhaseOf(r, s) == IF handler[r][s].step = "PRESYNC" THEN "presync" ELSE "final"
SharedHelper(r, s) == "presync"
HelperOf(r, s) == PhaseOf(r, s)

CheckStopped(r, s) ==
  /\ IsAt(r, s, "check_stopped")
  /\ IF Recorded(r, "COMPOSE_SOURCE_STOPPED")
       THEN ProceedTo(r, s, "list_snapshots") ELSE Refuse(r, s)
  /\ UNCHANGED composeVars

\* Volumes with an event of this phase are skipped.
ListSnapshots(r, s) ==
  /\ IsAt(r, s, "list_snapshots")
  /\ GoOn(r, s, [At(handler[r][s].step, "snapshot") EXCEPT
                   !.todo = {v \in Volumes : snapshots[r][PhaseOf(r, s)][v] = "none"}])
  /\ UNCHANGED composeVars

\* A helper container of the same identity, left by a worker that died, is
\* waited for instead of starting another one.
RunHelper(r, s, v) ==
  /\ IsAt(r, s, "snapshot") /\ IsNext(v, handler[r][s].todo)
  /\ helpers' = [helpers EXCEPT ![r][HelperOf(r, s)][v] =
       IF @ # "none" THEN @ ELSE IF project[r] THEN "running" ELSE "stopped"]
  /\ GoOn(r, s, [handler[r][s] EXCEPT !.pc = "await_helper"])
  /\ UNCHANGED <<project, log, snapshots, kompose, namespace, claims, kopia, disturbed>>

\* The container has ended and is removed, its output gives the id of the
\* snapshot, which is recorded.  Another handler can have removed it before.
AwaitHelper(r, s, v) ==
  LET held == helpers[r][HelperOf(r, s)][v]
  IN  /\ IsAt(r, s, "await_helper") /\ IsNext(v, handler[r][s].todo)
      /\ helpers' = [helpers EXCEPT ![r][HelperOf(r, s)][v] = "none"]
      /\ IF held = "none" THEN Refuse(r, s) /\ UNCHANGED snapshots
         ELSE \/ /\ snapshots' = [snapshots EXCEPT ![r][PhaseOf(r, s)][v] = held]
                 /\ GoOn(r, s, [handler[r][s] EXCEPT !.pc = "snapshot", !.todo = @ \ {v}])
              \/ \* the snapshot is taken, but its event cannot be written
                 /\ FaultOf(s) /\ ReturnError(r, s) /\ UNCHANGED snapshots
      /\ UNCHANGED <<project, log, kompose, namespace, claims, kopia, disturbed>>

SnapshotsEnd(r, s) ==
  /\ IsAt(r, s, "snapshot") /\ handler[r][s].todo = {}
  /\ Succeed(r, s)
  /\ UNCHANGED composeVars

(***************************************************************************)
(* TRANSFER.                                                               *)
(***************************************************************************)
\* The events of snapshots that were taken of the stopped project.
FinalSnapshots(r) == snapshots[r].final

CountSnapshots(r, s) ==
  /\ IsAt(r, s, "count_snapshots")
  /\ IF \A v \in Volumes : FinalSnapshots(r)[v] # "none" THEN Succeed(r, s) ELSE Refuse(r, s)
  /\ UNCHANGED composeVars

(***************************************************************************)
(* RESTORE.                                                                *)
(***************************************************************************)
PublishedImages(r) == Recorded(r, "COMPOSE_IMAGES_MIRRORED")

SetNamespace(r, value) ==
  /\ namespace' = [namespace EXCEPT ![r] = value]
  /\ UNCHANGED <<project, snapshots, helpers, kompose, claims, kopia, disturbed>>

\* With images of the migration registry the namespace gets their pull secret.
PrepareNamespace(r, s) ==
  /\ IsAt(r, s, "prepare_namespace")
  /\ ProceedTo(r, s, "apply_claims")
  /\ SetNamespace(r, [namespace[r] EXCEPT !.admission =
       IF PublishedImages(r) THEN "none" ELSE @])
  /\ UNCHANGED log

Overwrites(r) == setting.overwrite \/ Recorded(r, "COMPOSE_MANIFESTS_APPLIED")

\* ApplyManifests: claims come before workloads, which are paused: they have no
\* replicas if there are volumes to restore.  Without "overwrite" an object that
\* exists ends the step, even one of an earlier attempt.
Apply(r, s, kind, next) ==
  LET allowed == kind \notin namespace[r].objects \/ Overwrites(r)
  IN  /\ IF allowed THEN ProceedTo(r, s, next) ELSE Refuse(r, s)
      /\ SetNamespace(r, [namespace[r] EXCEPT
           !.admission = "restricted",
           !.objects = IF allowed THEN @ \cup {kind} ELSE @,
           !.started = IF allowed /\ kind = "workloads" THEN ~HasComposeData ELSE @])
      /\ UNCHANGED log

ApplyClaims(r, s) == IsAt(r, s, "apply_claims") /\ Apply(r, s, "claims", "apply_workloads")

ApplyWorkloads(r, s) == IsAt(r, s, "apply_workloads") /\ Apply(r, s, "workloads", "record_applied")

AfterApplying == IF HasComposeData THEN "restore" ELSE "record"

RecordApplied(r, s) ==
  /\ IsAt(r, s, "record_applied")
  /\ log' = [log EXCEPT ![r] = @ \cup {"COMPOSE_MANIFESTS_APPLIED"}]
  /\ GoOn(r, s, [At(handler[r][s].step, AfterApplying) EXCEPT !.todo = Volumes])
  /\ UNCHANGED <<project, snapshots, helpers, kompose, namespace, claims, kopia, disturbed>>

DisturbedBy(r, s) == disturbed' = IF s = "ghost" THEN disturbed \cup {r} ELSE disturbed

\* RunKopiaRestoreJob: the namespace must admit privileged pods, and a job of the
\* same name is replaced, although it may be at work.
StartRestore(r, s, v) ==
  /\ IsAt(r, s, "restore") /\ IsNext(v, handler[r][s].todo)
  /\ IF FinalSnapshots(r)[v] = "none"
       THEN Refuse(r, s) /\ UNCHANGED composeVars
       ELSE /\ kopia' = [kopia EXCEPT ![r][v] = "active"]
            /\ claims' = [claims EXCEPT ![r][v] = "partial"]
            /\ namespace' = [namespace EXCEPT ![r].admission = "privileged"]
            /\ GoOn(r, s, [handler[r][s] EXCEPT !.pc = "await_restore"])
            /\ DisturbedBy(r, s)
            /\ UNCHANGED <<project, log, snapshots, helpers, kompose>>

\* waitForBatchJob tells a job that has failed from one that is complete.
JobEnded(state) == state # "absent"
JobSucceeded(state) == state = "complete"

AwaitRestore(r, s, v) ==
  /\ IsAt(r, s, "await_restore") /\ IsNext(v, handler[r][s].todo)
  /\ kopia[r][v] # "active"
  /\ kopia' = [kopia EXCEPT ![r][v] = "absent"]
  /\ IF JobSucceeded(kopia[r][v])
       THEN GoOn(r, s, [handler[r][s] EXCEPT !.pc = "restore", !.todo = @ \ {v}])
       ELSE Refuse(r, s)
  /\ UNCHANGED <<project, log, snapshots, helpers, kompose, namespace, claims, disturbed>>

VolumesRestored(r, s) ==
  /\ IsAt(r, s, "restore") /\ handler[r][s].todo = {}
  /\ ProceedTo(r, s, "start_workloads")
  /\ UNCHANGED composeVars

StartWorkloads(r, s) ==
  /\ IsAt(r, s, "start_workloads")
  /\ namespace' = [namespace EXCEPT ![r].started = TRUE]
  /\ ProceedTo(r, s, "record")
  /\ DisturbedBy(r, s)
  /\ UNCHANGED <<project, log, snapshots, helpers, kompose, claims, kopia>>

(***************************************************************************)
(* VALIDATION.                                                             *)
(***************************************************************************)
\* Workloads that a ghost has paused again are waited for until the deadline.
ValidateWorkloads(r, s) ==
  /\ IsAt(r, s, "validate_workloads")
  /\ \/ /\ namespace[r].started
        /\ SetNamespace(r, [namespace[r] EXCEPT
             !.admission = IF setting.checks THEN "restricted" ELSE @])
        /\ Succeed(r, s)
        /\ UNCHANGED log
     \/ ~namespace[r].started /\ Refuse(r, s) /\ UNCHANGED composeVars

ComposeHandler(r, s) ==
  \/ Record(r, s) \/ PublishImages(r, s) \/ StartKompose(r, s) \/ AwaitKompose(r, s)
  \/ StopProject(r, s) \/ RecordStopped(r, s) \/ CheckStopped(r, s)
  \/ ListSnapshots(r, s) \/ SnapshotsEnd(r, s) \/ CountSnapshots(r, s)
  \/ PrepareNamespace(r, s) \/ ApplyClaims(r, s) \/ ApplyWorkloads(r, s) \/ RecordApplied(r, s)
  \/ VolumesRestored(r, s) \/ StartWorkloads(r, s) \/ ValidateWorkloads(r, s)
  \/ \E v \in Volumes :
       RunHelper(r, s, v) \/ AwaitHelper(r, s, v) \/ StartRestore(r, s, v) \/ AwaitRestore(r, s, v)

\* A call fails, or the context of a ghost has been cancelled.  A handler that
\* waits for a job deletes it on its way out; the helper container goes on.
ComposeCallFails(r, s) ==
  /\ Works(r, s)
  /\ FaultOf(s) /\ ReturnError(r, s)
  /\ kompose' = [kompose EXCEPT ![r] = @ /\ ~IsAt(r, s, "await_kompose")]
  /\ kopia' = [kopia EXCEPT ![r] = [v \in Volumes |->
       IF IsAt(r, s, "await_restore") /\ IsNext(v, handler[r][s].todo) THEN "absent" ELSE @[v]]]
  /\ UNCHANGED <<project, log, snapshots, helpers, namespace, claims, disturbed>>

\* The restore job of a claim copies the final snapshot and removes all else.
KopiaJobEnds(r, v) ==
  /\ kopia[r][v] = "active"
  /\ kopia' = [kopia EXCEPT ![r][v] = "complete"]
  /\ claims' = [claims EXCEPT ![r][v] = FinalSnapshots(r)[v]]
  /\ UNCHANGED <<handlerVars, project, log, snapshots, helpers, kompose, namespace, disturbed>>

KopiaJobFails(r, v) ==
  /\ kopia[r][v] = "active"
  /\ Fault
  /\ kopia' = [kopia EXCEPT ![r][v] = "failed"]
  /\ UNCHANGED <<setting, job, handler>>
  /\ UNCHANGED <<project, log, snapshots, helpers, kompose, namespace, claims, disturbed>>

ComposeNext ==
  \/ \E r \in Runs, s \in Slots : ComposeHandler(r, s) \/ ComposeCallFails(r, s)
  \/ \E r \in Runs : ComposeRollback(r)
  \/ \E r \in Runs, v \in Volumes : KopiaJobEnds(r, v) \/ KopiaJobFails(r, v)
-----------------------------------------------------------------------------
(***************************************************************************)
(* Safety.                                                                 *)
(***************************************************************************)
\* A snapshot that is recorded as final was taken of the stopped project, even if
\* it comes from a helper container that an earlier worker had started; until the
\* run is rolled back, when an overtaken handler can still be taking snapshots
\* (ComposeExecutor.snapshotVolumes).
FinalSnapshotsAreConsistent ==
  \A r \in Runs, v \in Volumes :
    job[r].step \notin {"ROLLBACK", "FAILED"} => snapshots[r].final[v] # "running"

\* The workloads of the target are not started before every claim holds its
\* complete final snapshot, through restores that are interrupted and repeated;
\* unless an overtaken handler has done so as well.
StartedOnRestoredVolumes ==
  \A r \in Runs : namespace[r].started /\ HasComposeData /\ r \notin disturbed =>
    \A v \in Volumes : claims[r][v] = "stopped"

(***************************************************************************)
(* What the two rest on: inductive with the types.                         *)
(***************************************************************************)
CopyCalls == {"list_snapshots", "snapshot", "await_helper"}

ComposeCalls ==
  LET convert == {"start_kompose", "await_kompose"}
  IN  [ABSENT |-> {"none"}, PREFLIGHT |-> convert \cup {"publish_images", "record"},
       PRESYNC |-> convert \cup CopyCalls \cup {"stateless"},
       QUIESCE |-> convert \cup {"stateless", "stop_project", "record_stopped"},
       FINAL_BACKUP |-> convert \cup CopyCalls \cup {"stateless", "check_stopped"},
       TRANSFER |-> convert \cup {"stateless", "count_snapshots"},
       TRANSFORM |-> convert \cup {"record"},
       RESTORE |-> convert \cup {"prepare_namespace", "apply_claims", "apply_workloads", "record_applied",
                                "restore", "await_restore", "start_workloads", "record"},
       VALIDATION |-> {"validate_workloads"}]

Failed(r) == job[r].step = "FAILED"

\* A claim that no job will change holds its final snapshot.
IsRestored(r, v) == claims[r][v] = "stopped" /\ kopia[r][v] # "active"

\* A project that was recorded as stopped runs again only when its run has failed.
\* A helper can outlive the handler that started it, and a restore job too.
ProjectIsSound(r) ==
  /\ Recorded(r, "COMPOSE_SOURCE_STOPPED") => ~project[r] \/ Failed(r)
  /\ \A v \in Volumes :
       /\ helpers[r].final[v] = "running" \/ snapshots[r].final[v] = "running" => Failed(r)
       /\ kopia[r][v] = "active" => snapshots[r].final[v] # "none"
       /\ kopia[r][v] = "complete" => claims[r][v] = "stopped" \/ Failed(r)

\* Final snapshots are taken once the project was recorded as stopped.
CopierIsSound(r, h) ==
  /\ h.pc = "record_stopped" => ~project[r] \/ Failed(r)
  /\ h.step = "FINAL_BACKUP" /\ h.pc \in CopyCalls => Recorded(r, "COMPOSE_SOURCE_STOPPED")

\* While their volumes are restored the workloads are paused, and what the loop has
\* visited is restored.
Undisturbed(r) == HasComposeData /\ r \notin disturbed

RestorerIsSound(r, h) ==
  Undisturbed(r) =>
    /\ h.pc \in {"record_applied", "restore", "await_restore"} => ~namespace[r].started
    /\ h.pc \in {"restore", "await_restore"} => \A v \in Volumes \ h.todo : IsRestored(r, v)
    /\ h.pc = "start_workloads" => \A v \in Volumes : IsRestored(r, v)

ComposeIsSound(r) ==
  /\ ProjectIsSound(r)
  /\ Undisturbed(r) /\ namespace[r].started => \A v \in Volumes : IsRestored(r, v)
  /\ \A s \in Slots : CopierIsSound(r, handler[r][s])
  /\ RestorerIsSound(r, handler[r].current)

ComposeInvariant == \A r \in Runs : ComposeIsSound(r)
=============================================================================
