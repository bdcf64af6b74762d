--------------------------- MODULE MigrationJobs ---------------------------
(***************************************************************************)
(* The persistent job queue that drives migration runs, and the workers    *)
(* that drain it.                                                          *)
(*                                                                         *)
(* Every method of JobRepository and MigrationRepository that changes a    *)
(* run is one PostgreSQL transaction that locks the rows it reads, so each *)
(* is one action here.  A worker's round (Runner.processOne) is not atomic:*)
(* it claims a job, runs the handler beside a heartbeat goroutine, and     *)
(* reports the handler's result in a transaction of its own.  Anything may *)
(* happen between those steps: the lease can expire and be taken over, the *)
(* run can be cancelled, the process can crash.                            *)
(***************************************************************************)
EXTENDS MigrationDomain

CONSTANTS
  Plans,          \* migration plans
  Runs,           \* run identifiers that may be scheduled
  Workers,        \* worker processes
  PreSyncPlans,   \* plans whose strategy enables the online pre-sync
  VolumePlans,    \* plans whose strategy moves volumes (VolumeMode # NONE)
  MaxAttempts,    \* worker.Config.MaxAttempts
  MaxFaults,      \* bound: crashes, late heartbeats and failed database calls
  None            \* no plan, no owner, no run

ASSUME PlanAssumption ==
  PreSyncPlans \subseteq Plans /\ VolumePlans \subseteq Plans /\ None \notin Plans
ASSUME RunAssumption == None \notin Runs
ASSUME WorkerAssumption == None \notin Workers
ASSUME AttemptAssumption == MaxAttempts \in Nat \ {0}
ASSUME FaultAssumption == MaxFaults \in Nat

VARIABLES
  planStatus,  \* migration_plans.status
  run,         \* migration_runs: plan, status and error_code
  steps,       \* migration_steps.status, by run and idempotency key
  jobs,        \* rows of job_leases
  confirmed,   \* runs with a row in cutover_confirmations
  deleted,     \* runs with deleted_at set
  quiesced,    \* history: runs whose QUIESCE step has been handed to a worker
  phase,       \* where each worker is in processOne
  claim,       \* the lease each worker took: run, step and attempt
  faults       \* faults used so far

database == <<planStatus, run, steps, jobs, confirmed, deleted, quiesced>>
vars == <<planStatus, run, steps, jobs, confirmed, deleted, quiesced,
          phase, claim, faults>>

\* error_code; the empty one is "NO_ERROR".
ErrorCodes == {"NO_ERROR", "CANCEL_REQUESTED", "STEP_FAILED", "SOURCE_RESTORE_REQUESTED",
               "SOURCE_RESTORED", "VALIDATION_RECONCILED"}

(***************************************************************************)
(* A row of job_leases.  It is identified by run and step: the table has   *)
(* UNIQUE (migration_run_id, step_id).  "expired" is lease_expires_at <    *)
(* now() of an owned row.                                                  *)
(***************************************************************************)
Jobs == [run: Runs, step: StepKeys, owner: Workers \cup {None},
         expired: BOOLEAN, attempt: Nat]

NewJob(r, k) == [run |-> r, step |-> k, owner |-> None, expired |-> FALSE, attempt |-> 0]

JobsOf(r) == {j \in jobs : j.run = r}

(***************************************************************************)
(* handling  - the handler runs and the heartbeat goroutine renews         *)
(* cancelled - a heartbeat failed: the handler's context is cancelled      *)
(* succeeded, failed - the handler has returned; its result is not stored  *)
(***************************************************************************)
Phases == {"idle", "handling", "cancelled", "succeeded", "failed"}

NoClaim == [run |-> None, step |-> None, attempt |-> 0]

Claims == [run: Runs, step: StepKeys, attempt: Nat]

RunRows == [plan: Plans \cup {None}, status: RunStatuses \cup {"NONE"}, code: ErrorCodes]

StepRows == [StepKeys -> StepStatuses]

TypeOK ==
  /\ planStatus \in [Plans -> PlanStatuses]
  /\ run \in [Runs -> RunRows]
  /\ steps \in [Runs -> StepRows]
  /\ jobs \subseteq Jobs
  /\ confirmed \subseteq Runs
  /\ deleted \subseteq Runs
  /\ quiesced \subseteq Runs
  /\ phase \in [Workers -> Phases]
  /\ claim \in [Workers -> Claims \cup {NoClaim}]
  /\ \A w \in Workers : phase[w] # "idle" => claim[w] \in Claims
  /\ faults \in 0..MaxFaults

Init ==
  /\ planStatus = [p \in Plans |-> "DRAFT"]
  /\ run = [r \in Runs |-> [plan |-> None, status |-> "NONE", code |-> "NO_ERROR"]]
  /\ steps = [r \in Runs |-> [k \in StepKeys |-> "ABSENT"]]
  /\ jobs = {}
  /\ confirmed = {}
  /\ deleted = {}
  /\ quiesced = {}
  /\ phase = [w \in Workers |-> "idle"]
  /\ claim = [w \in Workers |-> NoClaim]
  /\ faults = 0

(***************************************************************************)
(* Helpers shared by the transactions.                                     *)
(***************************************************************************)
SetRun(r, status, code) == run' = [run EXCEPT ![r].status = status, ![r].code = code]

SetPlanOf(r, status) == planStatus' = [planStatus EXCEPT ![run[r].plan] = status]

Active(r) == run[r].status \in RunStatuses /\ ~IsTerminal(run[r].status)

\* DELETE FROM job_leases WHERE migration_run_id = $1, whoever owns them.
UnownedJobsRemoved(r) == {j \in jobs : j.run = r => j.owner # None}
JobsRemoved(r) == jobs \ JobsOf(r)

\* The pending step of a run that Complete enqueues next.
AnyPendingStep(r, k) == steps[r][k] = "PENDING"
IsNextStep(r, k) ==
  /\ steps[r][k] = "PENDING"
  /\ \A m \in StepKeys : steps[r][m] = "PENDING" => Rank[k] <= Rank[m]

\* The rows a worker's store call matches: WHERE id = $1 AND owner_id = $2.
\* The expiry of the lease is not consulted.
JobsOfAnyOwner(w) == {j \in jobs : j.run = claim[w].run /\ j.step = claim[w].step}
HeldJobs(w) ==
  {j \in jobs : j.run = claim[w].run /\ j.step = claim[w].step /\ j.owner = w}

Released(w) ==
  /\ phase' = [phase EXCEPT ![w] = "idle"]
  /\ claim' = [claim EXCEPT ![w] = NoClaim]

(***************************************************************************)
(* The API's side: plans.                                                  *)
(***************************************************************************)
\* Service.Preflight ends in UpdatePlanStatus, guarded in SQL by the status.
Preflight(p, status) ==
  /\ status \in {"READY", "BLOCKED"}
  /\ planStatus[p] \in {"DRAFT", "READY", "BLOCKED"}
  /\ planStatus' = [planStatus EXCEPT ![p] = status]
  /\ UNCHANGED <<run, steps, jobs, confirmed, deleted, quiesced, phase, claim, faults>>

(***************************************************************************)
(* The API's side: runs.                                                   *)
(***************************************************************************)
ScheduleRun(p, r) ==
  LET chain == ScheduledSteps(p \in PreSyncPlans, p \in VolumePlans)
  IN  /\ run[r].status = "NONE"
      /\ run' = [run EXCEPT ![r] = [plan |-> p, status |-> "PENDING", code |-> "NO_ERROR"]]
      /\ steps' = [steps EXCEPT ![r] =
                     [k \in StepKeys |-> IF k \in chain THEN "PENDING" ELSE "ABSENT"]]
      /\ jobs' = jobs \cup {NewJob(r, "PREFLIGHT")}
      /\ planStatus' = [planStatus EXCEPT ![p] = "RUNNING"]
      /\ UNCHANGED <<confirmed, deleted, quiesced, phase, claim, faults>>

Start(p, r) ==
  /\ planStatus[p] = "READY"
  /\ ScheduleRun(p, r)

\* The status RunService.Retry reads before the scheduling transaction.  The
\* transaction does not look at the previous run again, so a completed run may
\* have started to restore its source in between.
ReadAsEnded(r) ==
  IsTerminal(run[r].status) \/ run[r].code = "SOURCE_RESTORE_REQUESTED"

RetryRun(previous, r) ==
  /\ ReadAsEnded(previous)
  /\ planStatus[run[previous].plan] \in {"READY", "RUNNING", "FAILED", "COMPLETED"}
  /\ ScheduleRun(run[previous].plan, r)

SkipUnfinished(r) ==
  [k \in StepKeys |-> IF steps[r][k] \in {"PENDING", "RUNNING"} THEN "SKIPPED" ELSE steps[r][k]]

CancelBeforeQuiesce(r) ==
  /\ ~RequiresRollback(run[r].status)
  /\ ValidateTransition(run[r].status, "CANCELLED")
  /\ SetRun(r, "CANCELLED", "CANCEL_REQUESTED")
  /\ jobs' = JobsRemoved(r)
  /\ steps' = [steps EXCEPT ![r] = SkipUnfinished(r)]
  /\ SetPlanOf(r, "READY")
  /\ UNCHANGED <<confirmed, deleted, quiesced, phase, claim, faults>>

CancelAfterQuiesce(r) ==
  /\ RequiresRollback(run[r].status)
  /\ ValidateTransition(run[r].status, "ROLLING_BACK")
  /\ SetRun(r, "ROLLING_BACK", "CANCEL_REQUESTED")
  /\ jobs' = JobsRemoved(r) \cup {NewJob(r, "ROLLBACK")}
  /\ steps' = [steps EXCEPT ![r] = [SkipUnfinished(r) EXCEPT !["ROLLBACK"] = "PENDING"]]
  /\ UNCHANGED <<planStatus, confirmed, deleted, quiesced, phase, claim, faults>>

(***************************************************************************)
(* RunService.Cancel is CancelRun.  RunService.Rollback reads a status that*)
(* requires a rollback and then calls the same CancelRun, whatever the     *)
(* status has become: its behaviours are among these.                      *)
(***************************************************************************)
CancelRun(r) ==
  /\ Active(r) /\ run[r].status # "ROLLING_BACK"
  /\ CancelBeforeQuiesce(r) \/ CancelAfterQuiesce(r)

RestoreSource(r) ==
  /\ run[r].status = "COMPLETED"
  /\ ValidateTransition(run[r].status, "ROLLING_BACK")
  /\ SetRun(r, "ROLLING_BACK", "SOURCE_RESTORE_REQUESTED")
  /\ steps' = [steps EXCEPT ![r]["RESTORE_SOURCE"] = "PENDING"]
  /\ jobs' = {j \in jobs : ~(j.run = r /\ j.step = "RESTORE_SOURCE")}
               \cup {NewJob(r, "RESTORE_SOURCE")}
  /\ UNCHANGED <<planStatus, confirmed, deleted, quiesced, phase, claim, faults>>

AtGate(r) == run[r].status = "AWAITING_CUTOVER"

ConfirmCutover(r) ==
  /\ AtGate(r)
  /\ confirmed' = confirmed \cup {r}
  /\ steps' = [steps EXCEPT ![r]["AWAIT_CUTOVER"] =
                 IF @ = "RUNNING" THEN "SUCCEEDED" ELSE @]
  /\ run' = [run EXCEPT ![r].status = "COMPLETED"]
  /\ SetPlanOf(r, "COMPLETED")
  /\ UNCHANGED <<jobs, deleted, quiesced, phase, claim, faults>>

\* EvidenceService.RefreshTopology found every required target resource
\* healthy and the VALIDATION step is the only failed one.
ReconcileValidation(r) ==
  /\ run[r].status = "FAILED"
  /\ \A k \in StepKeys : steps[r][k] = "FAILED" <=> k = "VALIDATION"
  /\ steps' = [steps EXCEPT ![r]["VALIDATION"] = "SUCCEEDED"]
  /\ SetRun(r, "COMPLETED", "VALIDATION_RECONCILED")
  /\ SetPlanOf(r, "COMPLETED")
  /\ UNCHANGED <<jobs, confirmed, deleted, quiesced, phase, claim, faults>>

DeleteRun(r) ==
  /\ IsTerminal(run[r].status)
  /\ r \notin deleted
  /\ deleted' = deleted \cup {r}
  /\ UNCHANGED <<planStatus, run, steps, jobs, confirmed, quiesced, phase, claim, faults>>

(***************************************************************************)
(* The worker's side: claiming a job and running its handler.              *)
(***************************************************************************)
UnownedAndOpen(j) == j.owner = None /\ steps[j.run][j.step] \in {"PENDING", "RUNNING"}
Claimable(j) ==
  /\ j.owner = None \/ j.expired
  /\ steps[j.run][j.step] \in {"PENDING", "RUNNING"}

\* Claim moves the run to the step's status in the same transaction; an
\* illegal move fails the whole claim.
MayStart(j) ==
  LET target == StatusForStep(j.step)
  IN  run[j.run].status = target \/ ValidateTransition(run[j.run].status, target)

Leased(j, w) ==
  [run |-> j.run, step |-> j.step, owner |-> w, expired |-> FALSE, attempt |-> j.attempt + 1]

Claim(w, j) ==
  /\ phase[w] = "idle"
  /\ Claimable(j)
  /\ MayStart(j)
  /\ jobs' = (jobs \ {j}) \cup {Leased(j, w)}
  /\ steps' = [steps EXCEPT ![j.run][j.step] = "RUNNING"]
  /\ run' = [run EXCEPT ![j.run].status = StatusForStep(j.step)]
  /\ quiesced' = IF j.step = "QUIESCE" THEN quiesced \cup {j.run} ELSE quiesced
  /\ phase' = [phase EXCEPT ![w] = "handling"]
  /\ claim' = [claim EXCEPT ![w] = [run |-> j.run, step |-> j.step, attempt |-> j.attempt + 1]]
  /\ UNCHANGED <<planStatus, confirmed, deleted, faults>>

HandlerReturns(w, result) ==
  /\ phase[w] = "handling"
  /\ result \in {"succeeded", "failed"}
  /\ phase' = [phase EXCEPT ![w] = result]
  /\ UNCHANGED <<database, claim, faults>>

\* The heartbeat finds no unexpired lease of this owner.
HeartbeatRejected(w) ==
  /\ phase[w] = "handling"
  /\ \A j \in HeldJobs(w) : j.expired
  /\ phase' = [phase EXCEPT ![w] = "cancelled"]
  /\ UNCHANGED <<database, claim, faults>>

\* A cancelled handler returns; processOne drops its result.
AbandonJob(w) ==
  /\ phase[w] = "cancelled"
  /\ Released(w)
  /\ UNCHANGED <<database, faults>>

(***************************************************************************)
(* The worker's side: reporting the result.                                *)
(***************************************************************************)
CompleteAndEnqueue(w) ==
  LET r == claim[w].run  k == claim[w].step
  IN  /\ phase[w] = "succeeded"
      /\ HeldJobs(w) # {}
      /\ \E n \in StepKeys \ {"AWAIT_CUTOVER"} :
           /\ IsNextStep(r, n)
           /\ jobs' = (jobs \ HeldJobs(w)) \cup {NewJob(r, n)}
      /\ steps' = [steps EXCEPT ![r][k] = "SUCCEEDED"]
      /\ Released(w)
      /\ UNCHANGED <<planStatus, run, confirmed, deleted, quiesced, faults>>

CompleteAndOpenGate(w) ==
  LET r == claim[w].run  k == claim[w].step
  IN  /\ phase[w] = "succeeded"
      /\ HeldJobs(w) # {}
      /\ IsNextStep(r, "AWAIT_CUTOVER")
      /\ jobs' = jobs \ HeldJobs(w)
      /\ steps' = [steps EXCEPT ![r][k] = "SUCCEEDED", ![r]["AWAIT_CUTOVER"] = "RUNNING"]
      /\ run' = [run EXCEPT ![r].status = "AWAITING_CUTOVER"]
      /\ Released(w)
      /\ UNCHANGED <<planStatus, confirmed, deleted, quiesced, faults>>

\* What a finished rollback makes of its run and plan, by the error code.
RestorationFailsPlan(code) ==
  CASE code = "CANCEL_REQUESTED"         -> [run |-> "CANCELLED", plan |-> "READY"]
    [] code = "SOURCE_RESTORE_REQUESTED" -> [run |-> "COMPLETED", plan |-> "FAILED"]
    [] OTHER                             -> [run |-> "FAILED", plan |-> "FAILED"]
FailureCompletes(code) ==
  IF code = "CANCEL_REQUESTED" THEN [run |-> "CANCELLED", plan |-> "READY"]
                               ELSE [run |-> "COMPLETED", plan |-> "COMPLETED"]
CancellationKeepsPlan(code) ==
  IF code = "CANCEL_REQUESTED" THEN [run |-> "CANCELLED", plan |-> "RUNNING"]
                               ELSE [run |-> "FAILED", plan |-> "FAILED"]
RollbackIsItsOwnEnd(code) == [run |-> "FAILED", plan |-> "ROLLED_BACK"]
AfterRollback(code) ==
  CASE code = "CANCEL_REQUESTED"         -> [run |-> "CANCELLED", plan |-> "READY"]
    [] code = "SOURCE_RESTORE_REQUESTED" -> [run |-> "COMPLETED", plan |-> "COMPLETED"]
    [] OTHER                             -> [run |-> "FAILED", plan |-> "FAILED"]

CompleteRollback(w) ==
  LET r == claim[w].run  k == claim[w].step  outcome == AfterRollback(run[r].code)
  IN  /\ phase[w] = "succeeded"
      /\ HeldJobs(w) # {}
      /\ k \in RecoverySteps
      /\ \A m \in StepKeys : steps[r][m] # "PENDING"
      /\ ValidateTransition(run[r].status, outcome.run)
      /\ jobs' = jobs \ HeldJobs(w)
      /\ steps' = [steps EXCEPT ![r][k] = "SUCCEEDED"]
      /\ SetRun(r, outcome.run, IF run[r].code = "SOURCE_RESTORE_REQUESTED"
                                  THEN "SOURCE_RESTORED" ELSE run[r].code)
      /\ SetPlanOf(r, outcome.plan)
      /\ Released(w)
      /\ UNCHANGED <<confirmed, deleted, quiesced, faults>>

RetryJob(w) ==
  /\ phase[w] = "failed"
  /\ claim[w].attempt < MaxAttempts
  /\ HeldJobs(w) # {}
  /\ jobs' = (jobs \ HeldJobs(w)) \cup
       {[j EXCEPT !.owner = None, !.expired = FALSE] : j \in HeldJobs(w)}
  /\ steps' = [steps EXCEPT ![claim[w].run][claim[w].step] = "PENDING"]
  /\ Released(w)
  /\ UNCHANGED <<planStatus, run, confirmed, deleted, quiesced, faults>>

EndsRun(r, k) == k \in RecoverySteps \/ ~RequiresRollback(run[r].status)

FailRun(w) ==
  LET r == claim[w].run  k == claim[w].step
  IN  /\ phase[w] = "failed"
      /\ claim[w].attempt >= MaxAttempts
      /\ HeldJobs(w) # {}
      /\ EndsRun(r, k)
      /\ ValidateTransition(run[r].status, "FAILED")
      /\ jobs' = jobs \ HeldJobs(w)
      /\ steps' = [steps EXCEPT ![r][k] = "FAILED"]
      /\ SetRun(r, "FAILED", "STEP_FAILED")
      /\ SetPlanOf(r, "FAILED")
      /\ Released(w)
      /\ UNCHANGED <<confirmed, deleted, quiesced, faults>>

\* The INSERT of rollback:v1 has no ON CONFLICT clause.
FailAndRollBack(w) ==
  LET r == claim[w].run  k == claim[w].step
  IN  /\ phase[w] = "failed"
      /\ claim[w].attempt >= MaxAttempts
      /\ HeldJobs(w) # {}
      /\ ~EndsRun(r, k)
      /\ ValidateTransition(run[r].status, "ROLLING_BACK")
      /\ steps[r]["ROLLBACK"] = "ABSENT"
      /\ jobs' = (jobs \ HeldJobs(w)) \cup {NewJob(r, "ROLLBACK")}
      /\ steps' = [steps EXCEPT ![r] =
           [m \in StepKeys |->
              CASE m = "ROLLBACK"           -> "PENDING"
                [] m = k                    -> "FAILED"
                [] steps[r][m] = "PENDING"  -> "SKIPPED"
                [] OTHER                    -> steps[r][m]]]
      /\ SetRun(r, "ROLLING_BACK", "STEP_FAILED")
      /\ Released(w)
      /\ UNCHANGED <<planStatus, confirmed, deleted, quiesced, faults>>

\* Complete, Retry and Fail return ErrNotFound to a worker that lost its lease.
StaleResult(w) ==
  /\ phase[w] \in {"succeeded", "failed"}
  /\ HeldJobs(w) = {}
  /\ Released(w)
  /\ UNCHANGED <<database, faults>>

(***************************************************************************)
(* Time and faults.  A lease whose owner no longer renews it expires by    *)
(* itself; one whose worker still renews it, or is about to store the result*)
(* of its handler, expires only when that call comes too late: a fault.    *)
(***************************************************************************)
IsAttended(j) ==
  \E w \in Workers : phase[w] \in {"handling", "succeeded", "failed"} /\ j \in HeldJobs(w)

Fault == faults < MaxFaults /\ faults' = faults + 1

Expire(j) ==
  /\ j.owner # None /\ ~j.expired
  /\ jobs' = (jobs \ {j}) \cup {[j EXCEPT !.expired = TRUE]}
  /\ UNCHANGED <<planStatus, run, steps, confirmed, deleted, quiesced, phase, claim>>

LeaseRunsOut(j) == ~IsAttended(j) /\ Expire(j) /\ UNCHANGED faults

HeartbeatLate(j) == IsAttended(j) /\ Expire(j) /\ Fault

\* A heartbeat whose database call fails cancels a handler with a good lease.
HeartbeatError(w) ==
  /\ phase[w] = "handling"
  /\ HeldJobs(w) # {}
  /\ phase' = [phase EXCEPT ![w] = "cancelled"]
  /\ Fault
  /\ UNCHANGED <<database, claim>>

\* Complete, Retry or Fail fails and leaves the lease to expire.
StoreError(w) ==
  /\ phase[w] \in {"succeeded", "failed"}
  /\ Released(w)
  /\ Fault
  /\ UNCHANGED database

\* The process dies; its successor has a fresh owner ID and claims anew.
Crash(w) ==
  /\ phase[w] \in {"handling", "cancelled"}
  /\ Released(w)
  /\ Fault
  /\ UNCHANGED database

(***************************************************************************)
(* The next-state relation.                                                *)
(***************************************************************************)
Administrator(r) ==
  \/ CancelRun(r) \/ RestoreSource(r) \/ ConfirmCutover(r)
  \/ ReconcileValidation(r) \/ DeleteRun(r)

StoreResult(w) ==
  \/ CompleteAndEnqueue(w) \/ CompleteAndOpenGate(w) \/ CompleteRollback(w)
  \/ RetryJob(w) \/ FailRun(w) \/ FailAndRollBack(w) \/ StaleResult(w)

Worker(w) ==
  \/ \E j \in jobs : Claim(w, j)
  \/ \E result \in {"succeeded", "failed"} : HandlerReturns(w, result)
  \/ HeartbeatRejected(w) \/ AbandonJob(w) \/ StoreResult(w)

Failure ==
  \/ \E j \in jobs : HeartbeatLate(j)
  \/ \E w \in Workers : HeartbeatError(w) \/ StoreError(w) \/ Crash(w)

Next ==
  \/ \E p \in Plans, status \in PlanStatuses : Preflight(p, status)
  \/ \E p \in Plans, r \in Runs : Start(p, r)
  \/ \E previous \in Runs, r \in Runs : RetryRun(previous, r)
  \/ \E r \in Runs : Administrator(r)
  \/ \E w \in Workers : Worker(w)
  \/ \E j \in jobs : LeaseRunsOut(j)
  \/ Failure

Spec == Init /\ [][Next]_vars
-----------------------------------------------------------------------------
(***************************************************************************)
(* Safety.                                                                 *)
(***************************************************************************)
\* A run never has two jobs, so two of its steps are never executed at once:
\* cancelling, failing or restoring replaces the job instead of adding one.
OneJobPerRun == \A i, j \in jobs : i.run = j.run => i = j

\* Every active run that is not waiting for the administrator has a job, and
\* no other run has one: nothing is stranded and nothing drives an ended run.
AwaitsWorker(r) == Active(r) /\ run[r].status # "AWAITING_CUTOVER"

JobsDriveActiveRuns ==
  \A r \in Runs : (\E j \in jobs : j.run = r) <=> AwaitsWorker(r)

\* The gate is opened by Complete, never by a worker.
NoJobForGate == \A j \in jobs : j.step # "AWAIT_CUTOVER"

\* A worker that owns the lease it claimed holds the attempt it claimed.
LeasesMatchClaims ==
  \A w \in Workers : phase[w] # "idle" =>
    \A j \in HeldJobs(w) : j.attempt = claim[w].attempt

\* Inductive: what the exclusiveness of jobs rests on.
JobInvariant ==
  OneJobPerRun /\ JobsDriveActiveRuns /\ NoJobForGate /\ LeasesMatchClaims

(***************************************************************************)
(* What the status of a run says about its steps, its job and its history: *)
(* inductive together with JobInvariant.                                   *)
(***************************************************************************)
ChainOf(r) == ScheduledSteps(run[r].plan \in PreSyncPlans, run[r].plan \in VolumePlans)

FollowsInChain(r, k, n) ==
  /\ k \in ChainOf(r) /\ n \in ChainOf(r)
  /\ Rank[k] < Rank[n]
  /\ \A m \in ChainOf(r) : Rank[m] <= Rank[k] \/ Rank[n] <= Rank[m]

\* The run is at step k of its chain.
ReachedStep(r, k) ==
  \A m \in ChainOf(r) :
    /\ Rank[m] < Rank[k] => steps[r][m] = "SUCCEEDED"
    /\ Rank[k] < Rank[m] => steps[r][m] = "PENDING"

ForwardStatuses == (PipelineSteps \ {"AWAIT_CUTOVER"}) \cup {"PENDING", "AWAITING_CUTOVER"}

NoRecovery(r) == steps[r]["ROLLBACK"] = "ABSENT" /\ steps[r]["RESTORE_SOURCE"] = "ABSENT"

InOrder(r) ==
  \A k, m \in ChainOf(r) :
    Rank[k] < Rank[m] /\ steps[r][m] \in {"RUNNING", "SUCCEEDED", "FAILED"}
      => steps[r][k] = "SUCCEEDED"

\* The chain was given up: no step of it will be executed any more.
Interrupted(r) ==
  /\ InOrder(r)
  /\ \A k \in ChainOf(r) : steps[r][k] \in {"SUCCEEDED", "FAILED", "SKIPPED"}
  /\ r \notin confirmed

\* The migration was completed, and at most its source is restored since.
Accomplished(r) ==
  /\ r \in quiesced
  /\ \/ /\ r \in confirmed
        /\ steps[r]["ROLLBACK"] = "ABSENT"
        /\ \A k \in ChainOf(r) : steps[r][k] = "SUCCEEDED"
     \/ /\ Interrupted(r)
        /\ steps[r]["ROLLBACK"] = "SUCCEEDED" /\ steps[r]["VALIDATION"] = "SUCCEEDED"

Open == {"PENDING", "RUNNING"}

Unscheduled(r) ==
  /\ run[r].plan = None /\ run[r].code = "NO_ERROR"
  /\ \A k \in StepKeys : steps[r][k] = "ABSENT"
  /\ r \notin quiesced /\ r \notin confirmed

GoesForward(r) ==
  /\ run[r].code = "NO_ERROR"
  /\ NoRecovery(r)
  /\ r \notin confirmed
  /\ r \in quiesced <=> RequiresRollback(run[r].status)
  /\ AtGate(r) => ReachedStep(r, "AWAIT_CUTOVER") /\ steps[r]["AWAIT_CUTOVER"] = "RUNNING"

GoesBack(r) ==
  /\ r \in quiesced
  /\ \/ /\ run[r].code = "SOURCE_RESTORE_REQUESTED"
        /\ Accomplished(r) /\ steps[r]["RESTORE_SOURCE"] \in Open
     \/ /\ run[r].code \in {"CANCEL_REQUESTED", "STEP_FAILED"}
        /\ Interrupted(r)
        /\ steps[r]["ROLLBACK"] \in Open /\ steps[r]["RESTORE_SOURCE"] = "ABSENT"

HasCompleted(r) ==
  /\ run[r].code \in {"NO_ERROR", "VALIDATION_RECONCILED", "SOURCE_RESTORED"}
  /\ Accomplished(r) /\ steps[r]["RESTORE_SOURCE"] \in {"ABSENT", "SUCCEEDED"}

HasFailed(r) ==
  /\ run[r].code = "STEP_FAILED"
  /\ \/ /\ r \notin quiesced /\ r \notin confirmed /\ NoRecovery(r)
        /\ \E k \in {"PREFLIGHT", "PRESYNC"} \cap ChainOf(r) :
             ReachedStep(r, k) /\ steps[r][k] = "FAILED"
     \/ /\ r \in quiesced /\ Interrupted(r)
        /\ steps[r]["ROLLBACK"] \in {"SUCCEEDED", "FAILED"} /\ steps[r]["RESTORE_SOURCE"] = "ABSENT"
     \/ Accomplished(r) /\ steps[r]["RESTORE_SOURCE"] = "FAILED"

WasCancelled(r) ==
  /\ run[r].code = "CANCEL_REQUESTED"
  /\ Interrupted(r) /\ steps[r]["RESTORE_SOURCE"] = "ABSENT"
  /\ steps[r]["ROLLBACK"] = IF r \in quiesced THEN "SUCCEEDED" ELSE "ABSENT"

IsScheduled(r) ==
  /\ run[r].plan \in Plans
  /\ \A k \in PipelineSteps : steps[r][k] = "ABSENT" <=> k \notin ChainOf(r)

RunIsConsistent(r) ==
  /\ IF run[r].status = "NONE" THEN Unscheduled(r) ELSE IsScheduled(r)
  /\ run[r].status \in ForwardStatuses => GoesForward(r)
  /\ run[r].status = "ROLLING_BACK" => GoesBack(r)
  /\ run[r].status = "COMPLETED" => HasCompleted(r)
  /\ run[r].status = "FAILED" => HasFailed(r)
  /\ run[r].status = "CANCELLED" => WasCancelled(r)

\* A job is for the step its run has reached, and the run has the status of the
\* step or, until a worker claims the job, of the one before.
JobIsConsistent(j) ==
  /\ steps[j.run][j.step] \in Open
  /\ j.owner # None => /\ steps[j.run][j.step] = "RUNNING"
                       /\ run[j.run].status = StatusForStep(j.step)
  /\ run[j.run].status \in ForwardStatuses =>
       /\ j.step \in ChainOf(j.run)
       /\ ReachedStep(j.run, j.step)
       /\ \/ run[j.run].status = j.step
          \/ run[j.run].status = "PENDING" /\ j.step = "PREFLIGHT"
          \/ FollowsInChain(j.run, run[j.run].status, j.step)
  /\ run[j.run].status = "ROLLING_BACK" =>
       j.step = IF run[j.run].code = "SOURCE_RESTORE_REQUESTED" THEN "RESTORE_SOURCE"
                                                               ELSE "ROLLBACK"

RunInvariant ==
  /\ \A r \in Runs : RunIsConsistent(r)
  /\ \A j \in jobs : JobIsConsistent(j)

\* No job is poisoned: Claim finds its step open and the transition of the
\* run's status legal, so the head of the queue never blocks the others.
EveryJobCanBeClaimed ==
  \A j \in jobs : steps[j.run][j.step] \in {"PENDING", "RUNNING"} /\ MayStart(j)

\* Steps run in the scheduled order: a step leaves PENDING (other than by being
\* skipped) only after every earlier step of the chain has succeeded.
StepsInOrder ==
  \A r \in Runs : \A k, m \in PipelineSteps :
    (/\ Rank[k] < Rank[m]
     /\ steps[r][k] # "ABSENT"
     /\ steps[r][m] \in {"RUNNING", "SUCCEEDED", "FAILED"})
       => steps[r][k] = "SUCCEEDED"

\* Once a worker may have stopped the source, a run is cancelled only after its
\* rollback succeeded, and fails only after its rollback was carried out or
\* exhausted its attempts.  Before that, no rollback is ever created.
QuiescedRunsRollBack ==
  \A r \in Runs :
    /\ r \notin quiesced => steps[r]["ROLLBACK"] = "ABSENT"
    /\ r \in quiesced /\ run[r].status = "CANCELLED" => steps[r]["ROLLBACK"] = "SUCCEEDED"
    /\ r \in quiesced /\ run[r].status = "FAILED" =>
         \/ steps[r]["ROLLBACK"] \in {"SUCCEEDED", "FAILED"}
         \/ steps[r]["RESTORE_SOURCE"] = "FAILED"

\* After the administrator confirmed the cutover no automatic rollback is ever
\* scheduled; before it, every step of the chain has succeeded.
CutoverIsFinal ==
  \A r \in confirmed :
    /\ steps[r]["ROLLBACK"] = "ABSENT"
    /\ \A k \in PipelineSteps : steps[r][k] \in {"ABSENT", "SUCCEEDED"}

\* A run is COMPLETED only if the cutover was confirmed, or if its validation
\* was reconciled after its source had been rolled back.
CompletionIsJustified ==
  \A r \in Runs : run[r].status = "COMPLETED" =>
    \/ r \in confirmed
    \/ steps[r]["VALIDATION"] = "SUCCEEDED" /\ steps[r]["ROLLBACK"] = "SUCCEEDED"

\* A plan shown as RUNNING has an active run: no ending of a run leaves it so.
RunningPlanHasActiveRun ==
  \A p \in Plans : planStatus[p] = "RUNNING" =>
    \E r \in Runs : run[r].plan = p /\ Active(r)

\* A plan of which only one run was ever scheduled shows that run's outcome.
OutcomeOf(r) ==
  CASE run[r].status = "CANCELLED" -> {"READY", "BLOCKED"}
    [] run[r].status = "FAILED"    -> {"FAILED"}
    [] run[r].status = "COMPLETED" -> {"COMPLETED"}
    [] run[r].code = "SOURCE_RESTORE_REQUESTED" -> {"COMPLETED"}
    [] OTHER                       -> {"RUNNING"}

PlanShowsItsOnlyRun ==
  \A r \in Runs : run[r].status \in RunStatuses =>
    \/ \E other \in Runs \ {r} : run[other].plan = run[r].plan
    \/ planStatus[run[r].plan] \in OutcomeOf(r)

(***************************************************************************)
(* Action properties.                                                      *)
(***************************************************************************)
\* A worker's report changes the database only while the worker still holds the
\* very attempt it claimed: a worker whose lease was taken over, cancelled or
\* completed by another changes nothing.
StaleWorkersChangeNothing ==
  [][\A w \in Workers :
       (phase[w] # "idle" /\ phase'[w] = "idle" /\ database' # database) =>
         \E j \in HeldJobs(w) : j.attempt = claim[w].attempt]_vars

(***************************************************************************)
(* Liveness.  Runner.Run polls for ever and its handlers return; a lease   *)
(* that nobody renews expires with the clock.  Claim takes the job that has*)
(* been available longest (ORDER BY available_at), so a job that keeps     *)
(* becoming claimable is claimed: hence the strong fairness.  Nothing is   *)
(* assumed of administrators, nor that faults stop before their bound.     *)
(***************************************************************************)
Fairness ==
  /\ \A w \in Workers : WF_vars(Worker(w))
  /\ \A r \in Runs : SF_vars(\E w \in Workers : \E j \in JobsOf(r) : Claim(w, j))
  /\ \A r \in Runs : WF_vars(\E j \in JobsOf(r) : LeaseRunsOut(j))

FairSpec == Spec /\ Fairness

\* Every run that starts, resumes or rolls back reaches the cutover gate or an
\* end, although its workers crash, lose their leases and exhaust attempts.
Settled(r) == ~Active(r) \/ AtGate(r)
RunsSettle == \A r \in Runs : Active(r) ~> Settled(r)

(***************************************************************************)
(* What the documentation says and the code does not do.                   *)
(***************************************************************************)
\* A run enters COMPLETED only after the administrator's confirmation.
CompletedAfterConfirmation ==
  \A r \in Runs : run[r].status = "COMPLETED" => r \in confirmed

\* Restoring the source after the cutover does not invalidate the migration.
RestorationKeepsCompletion == \A r \in confirmed : run[r].status # "FAILED"

\* A plan is READY to be started only when no run of it is active.
ReadyPlanIsFree ==
  \A p \in Plans : planStatus[p] = "READY" =>
    ~\E r \in Runs : run[r].plan = p /\ Active(r)
=============================================================================
