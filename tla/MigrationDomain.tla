-------------------------- MODULE MigrationDomain --------------------------
(***************************************************************************)
(* The vocabulary of internal/domain/migration/model.go: the statuses of   *)
(* plans, runs and steps, the table of run transitions, and the order in   *)
(* which RunService schedules the steps of a run.  Constants only.         *)
(***************************************************************************)
EXTENDS Integers

PlanStatuses == {"DRAFT", "READY", "BLOCKED", "RUNNING", "COMPLETED", "FAILED"}

\* A row of migration_runs has one of RunStatuses; "NONE" is a run that has
\* not been scheduled yet.
RunStatuses ==
  {"PENDING", "PREFLIGHT", "PRESYNC", "QUIESCE", "FINAL_BACKUP", "TRANSFER",
   "TRANSFORM", "RESTORE", "VALIDATION", "AWAITING_CUTOVER", "ROLLING_BACK",
   "COMPLETED", "FAILED", "CANCELLED"}

\* "ABSENT" is a step that has no row in migration_steps.
StepStatuses == {"ABSENT", "PENDING", "RUNNING", "SUCCEEDED", "FAILED", "SKIPPED"}

(***************************************************************************)
(* Steps are named by their idempotency key, which is unique in a run.     *)
(* ROLLBACK stands for rollback:v1 and RESTORE_SOURCE for restore-source:v1;*)
(* both have step type ROLLBACK.                                           *)
(***************************************************************************)
PipelineSteps ==
  {"PREFLIGHT", "PRESYNC", "QUIESCE", "FINAL_BACKUP", "TRANSFER", "TRANSFORM",
   "RESTORE", "VALIDATION", "AWAIT_CUTOVER"}

RecoverySteps == {"ROLLBACK", "RESTORE_SOURCE"}

StepKeys == PipelineSteps \cup RecoverySteps

\* The order of created_at, which is the order Complete enqueues steps in.
Rank ==
  [PREFLIGHT |-> 1, PRESYNC |-> 2, QUIESCE |-> 3, FINAL_BACKUP |-> 4,
   TRANSFER |-> 5, TRANSFORM |-> 6, RESTORE |-> 7, VALIDATION |-> 8,
   AWAIT_CUTOVER |-> 9, ROLLBACK |-> 10, RESTORE_SOURCE |-> 11]

\* The status a run has while a worker executes the step.
QuiesceIsOnline(key) ==
  CASE key \in RecoverySteps    -> "ROLLING_BACK"
    [] key = "AWAIT_CUTOVER"    -> "AWAITING_CUTOVER"
    [] key = "QUIESCE"          -> "PRESYNC"
    [] OTHER                    -> key
StatusForStep(key) ==
  CASE key \in RecoverySteps    -> "ROLLING_BACK"
    [] key = "AWAIT_CUTOVER"    -> "AWAITING_CUTOVER"
    [] OTHER                    -> key

RequiresRollback(status) ==
  status \in {"QUIESCE", "FINAL_BACKUP", "TRANSFER", "TRANSFORM", "RESTORE",
              "VALIDATION", "AWAITING_CUTOVER"}

IsTerminal(status) == status \in {"COMPLETED", "FAILED", "CANCELLED"}

AllowedTransitions ==
     {"PENDING"}          \X {"PREFLIGHT", "CANCELLED"}
  \cup {"PREFLIGHT"}        \X {"PRESYNC", "QUIESCE", "FAILED", "CANCELLED"}
  \cup {"PRESYNC"}          \X {"QUIESCE", "FAILED", "CANCELLED"}
  \cup {"QUIESCE"}          \X {"FINAL_BACKUP", "ROLLING_BACK"}
  \cup {"FINAL_BACKUP"}     \X {"TRANSFER", "TRANSFORM", "ROLLING_BACK"}
  \cup {"TRANSFER"}         \X {"TRANSFORM", "ROLLING_BACK"}
  \cup {"TRANSFORM"}        \X {"RESTORE", "ROLLING_BACK"}
  \cup {"RESTORE"}          \X {"VALIDATION", "ROLLING_BACK"}
  \cup {"VALIDATION"}       \X {"AWAITING_CUTOVER", "ROLLING_BACK"}
  \cup {"AWAITING_CUTOVER"} \X {"COMPLETED", "ROLLING_BACK"}
  \cup {"ROLLING_BACK"}     \X {"FAILED", "CANCELLED", "COMPLETED"}
  \cup {"COMPLETED"}        \X {"ROLLING_BACK"}

ValidateTransition(from, to) == <<from, to>> \in AllowedTransitions

\* RunService.scheduledSteps: the chain depends on the plan's strategy.
BackupOnlyOfVolumes(preSync, volumes) ==
  {k \in PipelineSteps : /\ (k = "PRESYNC") => preSync
                         /\ (k \in {"FINAL_BACKUP", "TRANSFER"}) => volumes}
ScheduledSteps(preSync, volumes) ==
  {k \in PipelineSteps : /\ (k = "PRESYNC")  => preSync
                         /\ (k = "TRANSFER") => volumes}
=============================================================================
