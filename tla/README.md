# TLA+ models of the migration centre

The program migrates applications from Kubernetes clusters or Docker Compose hosts into a target
cluster. An HTTP server schedules *migration runs* of *migration plans* in PostgreSQL; worker
processes lease the jobs of a run one step at a time and execute them against the source, the
target and an object store. These modules model the parts where concurrency, crashes and retries
matter: the run state machine, the job queue and the workers; what the handlers do to the source and
how they move it to the target; what the console shows of it; and how the platform itself and its
add-ons are installed. Paths below are relative to `src/`.

## 1. Inventory

| component | state | operations | what makes it correct | modelled in |
|---|---|---|---|---|
| run and step state machine (`internal/domain/migration/model.go`) | none | table of transitions, status of a step, need of a rollback | statuses follow the table; a run that may have stopped its source ends through a rollback | `MigrationDomain`, `RunProgram` |
| RunService (`internal/migration/run_service.go`) | none | Start, Retry, Cancel, Rollback, RestoreSource, ConfirmCutover, Delete, Report | one run of a plan at a time; nothing completes unconfirmed; a report is complete | `MigrationJobs`, `EventStream` |
| migration repository (`internal/repository/postgres/migration*.go`) | plans, runs, steps, confirmations, jobs, events | one transaction per operation, row locks | run, steps, jobs and plan agree after every transaction | `MigrationJobs`, `EventStream` |
| job queue (`internal/repository/postgres/jobs.go`) | `job_leases` | Claim, Heartbeat, Complete, Retry, Fail | at most one job per run; no job is lost, poisoned, or executed for an ended run; a stale worker changes nothing | `MigrationJobs` |
| worker runner (`internal/worker/runner.go`, `cmd/worker`) | the lease in hand | claim, run the handler beside a heartbeat goroutine, report | a lost lease cancels the handler; crashes only delay | `MigrationJobs`, `StepHandlers` |
| dispatcher, Velero and Compose executors (`internal/migration/`) | replica snapshots, event log, the source itself | ten step handlers each | the source is stopped before the final copy and restored to what ran before; what starts in the target is that copy | `SourceWorkloads`, `VeleroTransfer`, `ComposeTransfer`, `Transfer` |
| Velero client, cleanup, staging pods, StorageClass mappings, Kompose and Kopia jobs (`internal/adapter/velero`, `internal/adapter/kubernetes`, `artifact_cleanup.go`) | Velero objects, a shared ConfigMap, jobs | create by a deterministic name, poll, delete | retries find what they created; parallel runs keep apart | `VeleroTransfer`, `ComposeTransfer` |
| workload scaling, Compose commands (`internal/adapter/kubernetes/execution.go`, `ssh/compose.go`) | the cluster, the host | scale and wait, `stop`, `up -d`, snapshots | idempotent under retry | `SourceWorkloads`, `ComposeTransfer` |
| run API and event stream (`internal/api/migration_runs.go`), sessions (`internal/auth`) | a cursor per connection, sessions, audit rows, what the page shows | poll, send, stop at the end of a run; operations with their audit | no event is missed or sent twice; what is audited happened | `EventStream` |
| inventory and applications (`internal/adapter/kubernetes/inventory.go`, `internal/application`) | `source_applications` | discover, select, replace | lists that fail leave gaps that are visible | `Inventory` |
| evidence (`evidence_service.go`, `migration_evidence.go`) | topologies, observations | capture, observe, freeze, refresh, reconcile a failed validation | frozen evidence is final; a run is completed only by what was seen | `Evidence` |
| plan service (`internal/migration/service.go`), assessment (`internal/assessment`), mapping, environments' capabilities | `assessments`, `migration_plans.status` | assess, Preflight | READY means checked: every volume can be moved and placed | `PlanChecks`; when a plan is free: `MigrationJobs` |
| object storage, Velero installation, add-on manager, vault (`internal/objectstorage`, `internal/velero`, `internal/addon`, `internal/credential`) | rows, credentials, Secrets, releases | bootstrap, adopt, connect, install, reuse, uninstall | what is shown READY works | `Addons` |
| offline bundle and deployment (`internal/offline`, `cmd/offline`) | a registry, the platform's release | import, deploy, register | tagged images are complete; a first installation has a storage | `RegistryImport`, `Platform` |
| storage profiles, the other assessment rules, transformation, configuration, metrics, web interface, charts | documents, files | pure functions or sequential I/O | output formats | not modelled |

**Interaction.** The API and the workers never talk to each other: they share the tables
`migration_plans`, `migration_runs`, `migration_steps`, `job_leases` and `migration_events`, and each
change is one transaction that locks the run. A worker learns that its run was cancelled only when its
heartbeat finds no lease. The handlers call clusters and hosts outside every transaction and leave marks
for their successors: in `workload_replica_snapshots`, in `migration_events`, and in objects of
deterministic names (backups, restores, jobs, helper containers). The event stream polls
`migration_events`; a view of the evidence reads the run, observes the target, and may complete the run
itself. Add-on requests and the deploy command change rows, Secrets and releases one after the other,
with nothing that serializes two of them.

**Hard behaviours.** Leases that expire while the owner still works; handlers that continue after
their job was cancelled; crashes between a change of the source and the row that records it; retries of
half-finished steps that find what they had created; several runs of one plan, or of one cluster; a
completed run that is restored, a failed one that is reconciled by a view that looked earlier; ids that
become visible out of order; rows that say READY of clusters that have changed. `PROJECT.json` lists them
as hazards, each at its line, with the properties that would notice.

## 2. Modules

| module | content |
|---|---|
| `MigrationDomain` | statuses, transition table, `StatusForStep`, `RequiresRollback`, the chain `ScheduledSteps` builds from a strategy. No variables. |
| `MigrationJobs` | the tables and the workers; one action per transaction of the repositories and one per step of `processOne`; safety, action and liveness properties. |
| `RunProgram` | abstract specification: each run is a sequential program. It knows no job, lease, worker or fault. |
| `MigrationJobsRefinement` | the mapping from `MigrationJobs` to `RunProgram`; property `ExecutesProgram`. |
| `SourceWorkloads` | extends the queue with the source: the handlers of QUIESCE, FINAL_BACKUP, ROLLBACK and RESTORE_SOURCE, call by call. Composed by `JobsStep` (a step of the queue) and `HandlerStep` (a call of a handler). |
| `StepHandlers` | what both executors share: one job per run, attempts, a handler and the *ghost* of an overtaken or cancelled one, bounded faults. It takes from `MigrationJobs` what that module shows. |
| `VeleroTransfer`, `ComposeTransfer` | every step of the two executors, call by call, with Velero's controllers and the job controller as their environment. |
| `Transfer` | composes the two behind the dispatcher; fairness; `TransfersSettle`. |
| `EventStream` | the table of events with its ids and locks, the stream and the browser, sessions, operations with their audit, the report. |
| `Inventory` | objects of a namespace, inventories with lists that fail, the stored application and the profile. |
| `Evidence` | extends `Inventory`: the run's row of evidence, views and refreshes, reconciliation. |
| `PlanChecks` | extends `Evidence`: the assessment, Preflight with its reads and checks, environments that change. |
| `Console` | composes `EventStream`, `Evidence` and `PlanChecks`. |
| `RegistryImport` | the import of images into a registry. |
| `Addons` | object storage and Velero as requests of several calls. |
| `Platform` | composes both with the deploy command. |
| `MC*` | symmetry sets and instances for TLC. |
| `MigrationJobsProofs`, `MigrationJobsExclusion`, `MigrationJobsLifecycle` | theorems about the queue: types; jobs; runs, steps and plans. Each extends the one before. |
| `MigrationJobsSimulation` | theorem: the queue implements `RunProgram`. |
| `SourceWorkloadsProofs`, `ConsoleProofs`, `TransferProofs`, `PlatformProofs` | theorems about the module each is named after and those it composes. |

### The queue and the source

`run[r]` is a row of `migration_runs` (plan, status, error code; status `NONE` before the row exists),
`steps[r][k]` the status in `migration_steps` by idempotency key (`ABSENT` without a row), `jobs` the
rows of `job_leases`, identified by run and step as the table's unique constraint does, with `owner`,
`attempt` and `expired` (an owned row whose `lease_expires_at` has passed). `confirmed` is
`cutover_confirmations`. `phase[w]` and `claim[w]` are the local state of `processOne`. An empty
error code is `"NO_ERROR"`. Of the source, `up` is what each workload was told to do (`spec.replicas`), `running` what its
status reports; Docker's commands change both at once. `quiesced`, `faults` and `overtaken` are not in the program: the first
and last record history for properties, the second bounds faults.

| code | action |
|---|---|
| `Service.Preflight` | `Preflight` |
| `RunService.Start`, `Retry`, `MigrationRepository.ScheduleRun` | `Start`, `RetryRun`, `ScheduleRun` |
| `CancelRun` (from `RunService.Cancel` and `Rollback`) | `CancelRun` = `CancelBeforeQuiesce` or `CancelAfterQuiesce` |
| `RestoreSource`, `ConfirmCutover`, `DeleteRun` | the same names |
| `ReconcileValidationSuccess` | `ReconcileValidation` |
| `JobRepository.Claim` | `Claim` (with the move of the run's status) |
| `Heartbeat` refused or failing; late | `HeartbeatRejected`, `HeartbeatError`; `HeartbeatLate` |
| `Handler.Handle` returns; its result is dropped | `HandlerReturns`; `AbandonJob` |
| `Complete` | `CompleteAndEnqueue`, `CompleteAndOpenGate`, `CompleteRollback` |
| `Retry`, `Fail` | `RetryJob`; `FailRun`, `FailAndRollBack` |
| any of these three returning `ErrNotFound`, or failing | `StaleResult`, `StoreError` |
| `lease_expires_at` passing; the process dying | `LeaseRunsOut`; `Crash` |
| `VeleroExecutor.quiesce` | `VeleroList`, `VeleroSaveSnapshot`, `Change`, `VeleroWait` |
| `VeleroExecutor.rollback` | `VeleroReadSnapshot`, `Change`, `VeleroWait` |
| `scaleWorkloads`; its waits for the status | `Change` for each workload; `VeleroWait`, when a workload `HasCaughtUp` |
| the Deployment and StatefulSet controllers | `Follow` |
| `ComposeExecutor.quiesce`, `rollback` | `ComposeQuiesce`, `ComposeRollback`, `Change`, `ComposeRecord` |
| `VeleroExecutor.backup("final")`, `ComposeExecutor.finalBackup` | `VeleroFinalBackup`, `ComposeFinalBackup`, `BackupCompletes` |

### Moving the data

`job[r]` is the step a run is at and its attempts, `handler[r][s]` the program counter of the current
handler and of the ghost. `backups` and `restores` are Velero's objects by name, `synced` the target's
copies, `config` the ConfigMap (`owners` its annotations, `data` its entries; `copy` and `fresh` of a
handler are the read object and whether its resourceVersion is still current), `staging` the staging
pods. `log` and `snapshots` are the Compose run's events, `helpers` the containers on its host, `claims`
what each claim holds.

| code | action |
|---|---|
| `VeleroExecutor.preflight`, `backup`, `quiesce`, `prepareTransform`, `restore`, `validateTarget`, `verifyTransfer` | `VeleroPreflight` and the actions after it in `VeleroHandler`, one for each call |
| `Ensure`- and `DeleteVeleroStorageClassMappings` | a read, a merge (`Merged`), a write that needs `IsFresh`, repeated on a conflict; an update of a ConfigMap that was deleted (`WasDeleted`) is an error of the call |
| `VeleroExecutor.rollback` with its `DeletePVCStaging` | `VeleroRollback` |
| `ArtifactCleanupService.Cleanup` | `CleanTarget`; in the source a `DeleteBackupRequest`, which Velero serves later, one backup at a time: `VeleroDeletesBackup` |
| Velero's controllers | `VeleroStartsBackup`, `VeleroEndsBackup`, `VeleroSyncs`, ..., `VeleroFails...` |
| `ComposeExecutor` | `PublishImages`, `StartKompose`, `StopProject`, `RunHelper`, `ApplyClaims`, `StartRestore`, `StartWorkloads`, ... in `ComposeHandler` |
| `Runner.processOne`, a lost lease, a dead worker, `CancelRun` | `ProcessOne`, `Overtake`, `WorkerDies`, `CancelRun` |
| any call that returns an error | `VeleroCallFails`, `ComposeCallFails` |

### The console

`rows` are the run's events by id, `holder` the transaction that has the run's lock, `conn` the handler
of the stream with its `cursor` and what is on the wire, `seen` what the page has received, in the order in which it arrived (the page sorts by id
and drops what it has already, so its list is that set). The identity column
draws an id at the INSERT. A change of status inserts under the run's lock; `AppendEvent` and the INSERT
at the beginning of `Complete` draw an id without it, and their foreign key to `migration_runs` makes
their commit wait for whoever holds it. An EventSource that gets another answer than 200 gives up; a
stream is authenticated when it opens and not again. The audit row follows in a call of its own, so that a
FAILURE row is possible after a commit. Expired sessions stay in the table; nothing calls the method that
removes them.

`topology` is the run's row of evidence, `view` the requests that are being answered, `target` the
objects of the target namespace, `results` what validations recorded. `application`, `profile` and
`environment` are rows, `plan` and `checker` the plan and its preflights.

| code | action |
|---|---|
| `streamMigrationEventsHandler`, `requireAuthentication`, `parseLastEventID` | `Connect`, `SendPage`, `Poll`, `Heartbeat`, `ConnectionEnds` |
| `ListEvents` with its limits | `Page`, `EffectiveLimit` |
| the handlers of operations and `auditMigrationRun` | `CancelHandler` ..., `ServiceReturns`, `RecordAudit` |
| `RunService.Report` | `BeginReport`, `ReadReportPage`, `AnswerReport` |
| `Start`, `CaptureInitial` | `StartRun` |
| `EvidenceService.Topology` | `OpenTopology` (the row), `GetRun`, `GetApplication`, `ResolveMappingProfile`, `Observe`, `ApplyEvents` (skipped when the events cannot be read), `SaveTopologyEvidence` |
| `RefreshTopology` | `Topology`, then `GetRun`, `GetApplication`, `ResolveMappingProfile`, `RefreshTopology` (observes), `SaveCurrentTopologyObservation` |
| `reconcileValidationResult` | `ReconcileValidationResult` (reads the steps) |
| `mergeObservedTopology`, `currentlyHealthy`, `mappingAppearsApplied` | `MergeObservedTopology`, `CurrentlyHealthy`, `MappingAppearsApplied` |
| `validationFailureCanBeReconciled`, `ReconcileValidationSuccess` | the same names |
| `assessment.Service.Create`, `RequiredDependencyRule` | `CreateAssessment` with `RequiredDependencyRule` |
| `EventSource` of `MigrationRunDetailPage.tsx` | `Connect`, `Receive`, `ReloadPage` |
| `Service.Preflight` and its checks | `BeginPreflight`, `ReadReference`, `UpdatePlanStatus`; `HasNoBlocker` and what it is made of |
| discovery, `Upsert`, mapping `Update`, tests of environments | `DiscoverSelected`, `DiscoverAll`, `UpdateProfile`, `EnvironmentChanges` |

### The platform

`registry`, `tags` and `importer` belong to the import, `spoiled` are files of the bundle that changed.
`rows`, `vault`, `profiles` are tables, `minio` and `velero` the cluster, `request` the requests, each at
its next call; `deploy` the current run of the command.

| code | action |
|---|---|
| `importImages` with `--image` and `--target-project`, `RetargetImage` | `ImportAll`, `ImportOne`, `RepositoryOf` |
| `RegistryImporter.Import`, `pushDescriptor`, `pushBlob`, `putManifest` | `Import`, `Descend`, `PushBlob`, `PutManifest`, `TagImage` |
| `objectstorage.Service.Bootstrap`, `Adopt`, `ConnectExternal`, `Test` | `MarkInstalling`, `StoreCredential`, `PutMinioSecret`, `InstallMinio`, `RestartMinio`, `SaveProfile`, `TestProfile`, `MarkReady` |
| `velero.Service.Install`, `Reuse`, `Uninstall` | `PutVeleroSecret`, `InstallVelero`, `EnsureBackupStorageLocation`, `WaitForLocation` (any `Available`, also one of before the update), `UninstallVelero` |
| Velero's validation of its storage location | `Validate`; `velero.available` is the phase it has set |
| `fail(...)` and the credential it removes | `RecordFailure`, `RemoveCredential` |
| `environment.Service` | `CreateEnvironment`, `TestConnection`, `RefreshCapabilities`, `DeleteEnvironment` |
| `deployBundle`, `ensureApplicationSecret`, `ensureDefaultMinIO`, `registerDefaultObjectStorage` | `StartDeploy`, `DeployStep`, `DeployFails`, `DeployIsKilled` |
| the requests of the registration | `PlatformLogin`, `ListEnvironments`, `RegisterEnvironment`, `TestEnvironment`, `RequestAdoption`, of the environment whose id the command has (`IsRegistered`) |

### Atomicity and abstractions

**Atomicity.** A transaction is one action because it holds row locks from its first read of what it
decides on: `CancelRun` and the others lock the run, the worker's calls delete or update the leased
row first. `CancelRun` and `Complete` lock in opposite orders; PostgreSQL aborts one, which is an
action not taken or a `StoreError`. `Retry` of the service reads the previous run before its
transaction; `ReadAsEnded` therefore also admits a completed run that has started to restore its
source. A graceful shutdown cancels the handler and reports a failure: `HandlerReturns(w, "failed")`.

**Abstractions.** Delays (`available_at`, polling) become nondeterminism in when an action happens;
progress, summaries, attempt rows and the events of the queue are left out, the two event types the
Compose executor reads back are kept. Handlers of the steps that do not touch the source may
succeed or fail at will. In `SourceWorkloads` a workload runs or does not, as its status
reports it: a pod that is still terminating does not count, as it does not for the code. With a manual selection
the workloads are the selected ones. A call that takes effect after its handler was cancelled is
the same behaviour with a later heartbeat. `CreateRun`, `TransitionRun`, `EnsureStep`, `UpdateStep`
and `Enqueue` have no caller outside integration tests and are not modelled. The branch of
`Complete` with no pending step for a step that is not a rollback cannot be reached: every chain
ends in `AWAIT_CUTOVER`.

*Transfer.* A call to a cluster is one action, as its API serves it at once; everything a handler does
between two calls is part of the one that follows. A Velero object's phases are those the code tells
apart. Which volumes a backup has follows from the pods that mount them when Velero reads them. The
namespace of a run is its own; two runs meet in the ConfigMap and in names of 12 digits.

*Console.* Namespaces of source and target correspond, so a resource is its kind and name. Edges of a
topology, the timeline and diagnoses are left out; the lists of one observation are one step. The Compose
definition of an application does not change. RESTORE stands for the statuses up to VALIDATION, of which
evidence tells none apart. What the stored observation holds is reduced to what a reconciliation asks of it.
The rules of an assessment other than the one for required dependencies, and Preflight's checks of texts, count as
`another` blocker.

*Platform.* The kubeconfig of an environment, admission labels of namespaces, the registry's
authentication and the TLS Secret are abstracted; the target cluster has one row in `environments` at a time, so that
profiles of the same MinIO under two rows of one cluster cannot arise. A Helm operation is one step that may fail before its
effect. A request its guard refuses changes nothing and is no step.

## 3. Runs

| run | instance | states | checks |
|---|---|---|---|
| `one_run` | 1 run, plans with the longest and the shortest chain, 2 workers, 2 attempts, 2 faults | 343,935 | jobs drive active runs, step order, rollback after quiesce, final cutover, justified completion, plan status, refinement of `RunProgram` |
| `two_runs` | 2 runs of one plan (a retry or a second start), 2 workers, 1 attempt, 1 fault | 777,981 | types, one job per run, no poisoned job, running plans, the inductive invariant, stale workers |
| `progress` | 2 runs, 1 worker, 2 attempts, 1 fault, fair | 216,129 | `RunsSettle` |
| `source` | 1 run of a plan whose source is a namespace or a Compose project, with or without data, with two workloads of which any may be running at first; 2 workers, 2 attempts, 1 fault | 653,459 | the snapshot is the original and exists before anything stops, final backup of a stopped source, rollback restores |
| `transfer` | one whole run of each kind (copies of files or of snapshots, shared repositories or not, data mover or not, endpoint checks; Compose with or without data), or two runs that meet in the mappings or in a name; 2 volumes, 2 attempts, 1 fault, fair | 170,829 | `MappingsAreKept`, `RestoredFromOwnFinalBackup`, `FinalSnapshotsAreConsistent`, `StartedOnRestoredVolumes`, `TransfersSettle` |
| `console` | events: 3 ids, pages of 2, 2 faults; evidence: a namespace or a Compose project, 2 views, 1 change; a plan: 1 preflight, both volume modes, 1 change | 767,724 | order, completeness and arrival of events, the report, the audit; final evidence, reconciliation; `ReadyPlanPlacesItsVolumes` |
| `platform` | seven scenarios, each with the operations that meet in it: imports of two images that share a manifest by two importers; the same into two projects, in one of which both images have one repository; a first and a repeated deployment; one beside an administrator; bootstraps and adoptions under two names with failures; the same with changed environments; Velero on an empty or a foreign cluster | 902,165 | `TagsAreComplete`, `FreshInstallHasStorage`, `ReadyStorageWorks`, `ReadyVeleroUsesItsProfile` |

**Bounds.** `Runs` bounds how often runs are scheduled, `MaxFaults` counts late heartbeats, failed
database calls and crashes, `MaxAttempts` stands for 5. Two workers are enough for a takeover: one
stale owner and one new one. Two attempts distinguish a retry from the last one. Two faults are, for
example, a takeover of a taken-over job. Cancellation needs no fault in the queue, so a handler that goes on after its
job was cancelled occurs in every run. The run identifiers are used up at some point, and
administrators need not act: hence no deadlock check. In `source` the
variable `source` is the discovered application, chosen initially and never changed; one run and one
plan are enough because sources of different plans share nothing but the workers. `NoClaim`
and the model value `None` stand for what does not exist.

In `transfer` a fault is a failed call, a dead worker, a lost lease, a cancellation or a failed object;
after it the ghost may fail at any of its calls for nothing. Two volumes are the least of which one can
be missing, two classes on each side the least that two profiles can map differently. A finished run stops: no
deadlock check, here and in the other runs whose requests and faults are used up. In `console` three events
and pages of two make a full page and one that is continued; a change is an edit of a profile, another
discovery, a list that fails, an environment's test, a change of the target, or another view after the end
of the run. The three parts share the database only, so `Watched` explores them in turn; views and
workers, or preflights and environments, interleave within their part. In `platform` a scenario bounds requests and faults;
callers, attempts of the command and stored profiles are interchangeable.

**What properties exempt.** Each exemption is a history variable or field whose action says when it is set; what
it exempts is something the code does, listed as a hazard.

* `late` (events): committed when the cursor was already beyond their ids; the stream never sends them.
  `conn.full`: the last page of an ended run was cut off; the browser's reconnection continues it, which `EventsArrive` shows.
* `overtaken`, `disturbed`: a handler without its lease acted on the source, or restored or started something in the target.
* `unwound`: the staging pods of a run were removed by a ghost, or by a handler that failed, before its
  backup had read the volumes or while a ghost may still create that backup (`StagingIsNeeded`, `LeaveToGhost`);
  the retry finds a backup without them or waits for pods that are gone.
* `topology.limited`: the view could not observe the target and says so in the evidence.
* `plan.fresh`: something the preflight read has changed since; nothing sets the plan back to DRAFT then.
  `plan.assessed`: the application was discovered again since its assessment, which is never repeated. A claim that the
  failed list does not show is then a node without a class (see below). Until then such a claim blocks
  the plan by the rule for required dependencies, unless a manual selection leaves it out or it is not required.
  Compose plans take their claims' class from the profile when they are converted, and Preflight does not look for it.
* `Ended(r)` in `MappingsAreKept`: a cleanup of an ended run removes its restore, and a handler without its lease may
  create it again after the mappings are gone.
* `overlapped`: two requests changed one add-on at once. `velero.unrecorded`: Reuse or Uninstall changed the
  cluster and then failed, so that the row still tells of the state before.
* `FinalSnapshotsAreConsistent` ends with the rollback, in which a ghost may still take snapshots.

**Fairness.** `FairSpec` of `MigrationJobs`: `Runner.Run` polls for ever and processes die at most `MaxFaults` times,
so a worker's enabled steps happen (WF). `Claim` takes the job that has been available longest and is not locked,
so a job that is claimable again and again is claimed (SF). An unattended lease expires with the
clock (WF). Nothing is assumed about administrators. One assumption the code does not guarantee by
itself: that handlers return. `TransfersSettle` is about exactly that: under the same fairness for a handler's next call and for
Velero's and Kubernetes' controllers (for the objects of each name: one name does not starve another), the loops without a deadline end, because PREFLIGHT has refused the clusters on which they
would not. `ConsoleSpec`: the server's loop and the delivery of what was written (WF); `EventsArrive`
supposes a page that stays open and signed in.

**Disagreements with the documentation** (violation runs, each a smallest instance):

* `completed_after_confirmation`: README.md says a run completes only after the confirmation; a
  failed validation that is found healthy later completes without it. `CompletionIsJustified` is what
  does hold.
* `restoration_keeps_completion`: migration 000008 says a restoration does not invalidate a completed
  migration; a restoration that exhausts its attempts turns run and plan FAILED.
* `ready_plan_is_free`: READY is documented as the state in which a plan may be started; start a run,
  retry an older one, cancel the retry, and the plan is READY beside an active run.
* `cancelled_source_runs`: window-23 promises `docker compose up -d` when a run is cancelled before the
  cutover; a run cancelled after the stop and before its event is recorded is CANCELLED with the
  source down.
* `reconciled_target_is_healthy`: the comment of `ReconcileValidationSuccess` says that a fresh observation
  proved every required resource healthy. A Deployment of which nothing is available omits
  `availableReplicas`, the count of the source stays in the merged node, and the run is completed. For a
  Compose project, whose plan has no such counts, `RefreshProvesComposeTarget` does hold.

Three more have no run: `web/src/pages/MigrationRunDetailPage.tsx:216` and `docs/progress/window-15.md:38` say that no
progress is lost over a reconnection, while a late event is (`OnlyLateEventsAreMissing` is what holds); `docs/progress/window-25.md:15`
says a repeated uninstallation answers that Velero is removed, while the table's CHECK refuses that status; and
`docs/progress/window-14.md:22` says that every claim of a Kubernetes source must resolve to a real class of the target. Preflight
checks the volumes that are listed (`internal/migration/service.go:300`), and the assessment that would refuse a claim known only
by what mounts it is made once: after another discovery whose list of claims failed, the plan is READY with a claim that has
no class. `ReadyPlanPlacesItsVolumes` is what holds.

## 4. Proofs

Checked by TLAPS for every value of the constants. Nothing is assumed but the named assumptions of the
modules:

* `MigrationJobs`: `None` is no plan, run or worker; `MaxAttempts` is positive and `MaxFaults` a number.
* `SourceWorkloads`: there is a workload. `StepHandlers`: as the queue for attempts and faults.
  `Transfer`: every setting is one of `Whole`, `Meeting` and `Project`, the three forms of an instance.
* `EventStream`: pages are positive and not above the maximum. `Inventory`: a discovery may succeed, a manual selection
  is not empty, and whatever refers to an object names its kind and name (`DependencyAssumption`). `Evidence`: a target for each type of application, whose objects have unique names and whose Deployments
  have a number of replicas; of the kinds that are listed only an Ingress names Services (`objectDependencies`), and no helper is one. `Console`: what is watched.
* `RegistryImport`: a lock names an image and a repository of it for each project, and the graph of manifests has no cycle, because a manifest holds the digests of what
  it refers to. `Addons`: an identifier a request draws is not that of a profile that was there before, whose names are names; environments can be created. `Platform`:
  attempts of the command are callers, scenarios bound requests and faults and choose projects and names.

### The queue

* `TypeCorrect`: `Spec => []TypeOK`, one lemma per action.
* `JobsInvariant`: `Spec => []JobInvariant`. "One job per run" alone is not inductive: a transaction
  that enqueues a job must know that the run has no other. So the invariant adds that exactly the
  active runs that do not wait at the gate have a job (an ended run that is restored has none, a
  cancelled one loses the one it has), that no job is for the gate, and that an owner's
  lease carries the attempt it claimed. The frame lemmas `KeepJobs`, `EnqueueJob`, `DropJobs` and
  `SwapJob` say when a change of the table preserves it; every action is one of the four.
  `JobsAreExclusive` and `NoRunIsStranded` are its important parts; `StaleReportsAreRejected` is the action
  property `StaleWorkersChangeNothing`.
* `RunsAreConsistent`: the invariant of runs and steps. What must be known to prove any of the properties is what
  *each* status says of the steps: which of the chain are done, that the one with the job is the first that is
  not, that a rollback exists exactly when the run needs one, that `quiesced` implies one of the statuses after which
  `RequiresRollback` holds. From it follow `StepsRunInOrder`, `QuiescedRunsAreRolledBack`, `ConfirmedCutoverIsFinal`,
  `CompletionsAreJustified`, `JobsCanBeClaimed`, `RunningPlansAreActive` and `PlansShowTheirRun`. Chains are those
  `ScheduledSteps` builds, so that the lemmas about positions in a chain go over its few strategies.
* `QueueExecutesProgram`: the refinement `ExecutesProgram`. Initial states map to initial states; each of the queue's
  actions is shown to be one step of `RunProgram` or a stutter under the mapping of `MigrationJobsRefinement`, from the
  invariants above. Fairness is in neither specification.

### The source

Each step of `SourceWorkloads` is one of the queue or leaves the queue unchanged, so the queue's theorems hold of it
(`SourceTypeCorrect` rests on them). `SnapshotsAreOriginal`, `SourceStoppedForFinalBackup` and `RollbacksRestoreSource`
follow from one invariant that ties a handler's position to the source: before the snapshot is saved the source is as it
was; a handler that scales has a snapshot; one that waits has scaled everything its snapshot names; the step of
the run says whether the source is to be down; what runs is what was told to run or, in a cluster, is still on its way there
(`FollowKeeps`), and has arrived for every workload a handler has waited for. Handlers that have lost their lease are the difficulty: until the run is
`overtaken` the invariant shows that the worker with the lease is the only one that acts.

### Moving the data

`TransferInvariant`: the types, and either the Velero executor's invariant with the Compose executor's objects
idle, or the reverse.

* `VeleroInvariant`: a backup or restore that is found by its name is the run's own, or the name is shared and PREFLIGHT or the
  handler has refused it; the owners in the ConfigMap are runs that are between adding and removing their mappings, its data
  the merge of their profiles; a handler's fresh copy equals what is stored; a completed final
  backup was taken after the source stopped and holds every volume, unless `unwound`. `MappingsHold` and
  `RestoredBackupsAreOwn` follow. The invariant of the ConfigMap needs nothing of the handlers but where they are, because
  a write checks the resourceVersion; the one of the backups needs all of it.
* `ComposeInvariant`: from the recorded stop until the run fails the project is down, and handlers of the final
  snapshot exist only after that record; an active restore job has a final snapshot to restore, and a complete one leaves
  its claim with the stopped data; what the restoring loop has passed is restored; workloads that were started
  were preceded by every claim. `SnapshotsAreConsistent` and `WorkloadsStartRestored` follow.
* `TransferTypesHold` includes that every handler, ghosts too, is at a call of the step it was started for; both invariants
  split on that.

### The console

* `StreamIsConsistent` is the invariant of events: what was `seen` followed by the wire is ascending and ends at the
  cursor; committed rows at or below it are seen, on the wire, or `late`; a report's pages are the committed rows up to
  its own cursor. `EventsArriveInOrder`, `StreamSkipsNothing`, `EndedStreamsAreComplete`, `ReportsAreComplete` and
  `AuditedSuccessesAreCommitted` follow for any number of events and any size of pages.
* `EvidenceIsConsistent`: a request that would reconcile a run knows that its validation alone has failed, and an observation made
  after the end leaves nothing to wait for. `CompletedRunsHaveNoFailure` does not follow from what a request has read: it
  needs that the transaction reads run and step again. `FrozenEvidenceNeverChanges` is the action property.
* `ChecksAreConsistent`: a preflight that has seen no change has read what is stored. While the application is the assessed one, its
  inventory has no required dependency that is not listed, or the plan has a blocker. So a claim that is needed is listed
  (`NeededClaimsAreListed`), a listed one has the class of its volume, and the check of the volumes has found that class in the
  target: `ReadyPlansPlaceTheirVolumes` follows.
* `ConsoleTypesHold`: what a manual selection stored is never empty, because only `filterInventory` refuses an empty listing; a
  namespace without a selection may be stored with nothing in it.
* `RefreshesProveComposeTargets` is the action property `RefreshProvesComposeTarget`. A refresh merges what it sees into what was
  planned, and a planned attribute stands in for one that is missing. It rests on what the plan of a Compose project has: nodes
  of Deployments with an image alone, claims and Services without attributes. So the counts of replicas, and the phase of a
  claim, that are found healthy are the observed ones. What exists only because something refers to it counts as
  existing: a workload or a claim of that kind has no attributes and is not healthy, but a Service is. What saves the
  conclusion is that only an Ingress names Services, and an Ingress that is listed was not planned and is degraded itself
  (`HealthyTargetsHaveNoIngress`); a project with planned Ingresses would need more.

### The platform

`PlatformInvariant` has three parts; each step of `Platform` is one of the importer, of an add-on's request or of the command.

* Images. `Tree` is a recursive function; that it satisfies its equation (`TreeUnfolds`) follows because a function does: `Below`, the
  intersection of all sets closed under `RefersTo`. What else holds of trees comes from `DigestAssumption`. A repository that holds a manifest and the trees of its children holds its tree
  (`ParentHolds`). The invariant says of each importer that it holds the tree of whatever it has visited and of the children it has
  counted on its stack, and that the image at hand is not beyond the last one of its import. An import is interrupted between any two pushes: what makes that harmless is
  that a manifest follows its children and a tag the root. `TaggedImagesAreComplete` follows.
* Add-ons. `ReadyStorageWorks` says nothing of how a request got to READY, so `StorageIsSound` and `VeleroIsSound` say at
  each call what the request has already stored and put into the cluster (`BootstrapIsSound`, `AdoptIsSound`, `BackupIsSound`). Other
  requests do not disturb it: identifiers and credentials are a request's own (`ProfilesAreOwn`), a saved profile and its credential
  stay (`Grows`), and of requests that execute on one add-on there is one until two overlap (`AreAlone`). The two add-ons meet in
  the profile Velero uses. `ReadyStoragesWork` and `ReadyVelerosUseTheirProfiles` follow.
* The command. The master key precedes everything that is sealed with it and never changes (`KeyIsFirst`); so a credential that
  was stored can be opened for good, by whatever attempt of the command. `DeployIsSound` says that a registration that is reported
  has its managed profile; it is independent of overlaps. `FreshInstallsHaveStorage` and `PlatformTypesHold` follow.

### Only model-checked

* `RunsSettle`, `EventsArrive` and `TransfersSettle`: liveness is beyond the prover.

## 5. Not modelled

* Storage profiles: rows whose installation is one Helm call, in the manner of `Addons`.
* Two runs of one source at the level of `SourceWorkloads`: there `SnapshotIsOriginal` does not hold (the retry after a
  failed rollback lists a stopped source), and no text of the repository promises that it does.
* Attempt rows, progress, the executors' limit of 500 events when they look for their own, pools of connections.
* The other rules of the assessment, the rewriting of manifests, the analysis and registration of Compose files: pure
  functions of large documents. A discovery that keeps an old credential of a Compose definition is a foreign
  key's matter and refused by it.
* Configuration, schema migrations, metrics, the web interface and the charts.

## 6. Plan

Done: the queue, `RunProgram`, the source, both executors, the console and the platform are modelled and checked; every safety and
action property of a passing run is stated by a theorem.

What is worth proving next: that `StepHandlers`, which takes from `MigrationJobs` that a run has one job and one worker with its
lease, is implemented by the queue: a mapping of `job` and of the ghosts, action by action.
