------------------------ MODULE MigrationJobsProofs ------------------------
(***************************************************************************)
(* Theorems of MigrationJobs for every number of plans, runs, workers,     *)
(* attempts and faults.                                                    *)
(***************************************************************************)
EXTENDS MigrationJobs, TLAPS

-----------------------------------------------------------------------------
(***************************************************************************)
(* Type correctness.                                                       *)
(***************************************************************************)
LEMMA InitTyped == Init => TypeOK
<1> SUFFICES ASSUME Init PROVE TypeOK
  OBVIOUS
<1>1. planStatus \in [Plans -> PlanStatuses]
  BY DEF Init, PlanStatuses
<1>2. run \in [Runs -> RunRows]
  BY DEF Init, RunRows, ErrorCodes
<1>3. steps \in [Runs -> StepRows]
  BY DEF Init, StepRows, StepStatuses
<1>4. phase \in [Workers -> Phases] /\ \A w \in Workers : phase[w] = "idle"
  BY DEF Init, Phases
<1>5. claim \in [Workers -> Claims \cup {NoClaim}]
  BY DEF Init
<1>6. faults = 0
  BY DEF Init
<1>7. QED
  BY <1>1, <1>2, <1>3, <1>4, <1>5, <1>6, FaultAssumption DEF Init, TypeOK

LEMMA PreflightTyped ==
  ASSUME TypeOK, NEW p \in Plans, NEW status \in PlanStatuses, Preflight(p, status)
  PROVE  TypeOK'
  BY DEF TypeOK, Preflight

LEMMA NewJobTyped ==
  ASSUME NEW r \in Runs, NEW k \in StepKeys
  PROVE  NewJob(r, k) \in Jobs
  BY DEF NewJob, Jobs

LEMMA KeysAreSteps ==
  /\ \A k \in PipelineSteps \cup RecoverySteps : k \in StepKeys
  /\ \A k \in StepKeys : StatusForStep(k) \in RunStatuses
  BY DEF StepKeys, PipelineSteps, RecoverySteps, StatusForStep, RunStatuses

LEMMA SetRunTyped ==
  ASSUME TypeOK, NEW r \in Runs, NEW status \in RunStatuses, NEW code \in ErrorCodes,
         SetRun(r, status, code)
  PROVE  run' \in [Runs -> RunRows]
  BY DEF TypeOK, SetRun, RunRows

LEMMA MoveRunTyped ==
  ASSUME TypeOK, NEW r \in Runs, NEW status \in RunStatuses,
         run' = [run EXCEPT ![r].status = status]
  PROVE  run' \in [Runs -> RunRows]
  BY DEF TypeOK, RunRows

LEMMA SetPlanTyped ==
  ASSUME TypeOK, NEW r \in Runs, NEW status \in PlanStatuses, SetPlanOf(r, status)
  PROVE  planStatus' \in [Plans -> PlanStatuses]
  BY DEF TypeOK, SetPlanOf

LEMMA SetStepTyped ==
  ASSUME TypeOK, NEW r \in Runs, NEW k \in StepKeys, NEW status \in StepStatuses,
         steps' = [steps EXCEPT ![r][k] = status]
  PROVE  steps' \in [Runs -> StepRows]
  BY DEF TypeOK, StepRows

LEMMA SkippedTyped ==
  ASSUME TypeOK, NEW r \in Runs
  PROVE  SkipUnfinished(r) \in StepRows
  BY DEF TypeOK, SkipUnfinished, StepRows, StepStatuses

LEMMA ScheduleTyped ==
  ASSUME TypeOK, NEW p \in Plans \cup {None}, NEW r \in Runs, ScheduleRun(p, r)
  PROVE  TypeOK'
<1>1. NewJob(r, "PREFLIGHT") \in Jobs
  BY NewJobTyped DEF StepKeys, PipelineSteps
<1>2. run' \in [Runs -> RunRows]
  BY DEF TypeOK, ScheduleRun, RunRows, RunStatuses, ErrorCodes
<1>3. steps' \in [Runs -> StepRows]
  BY DEF TypeOK, ScheduleRun, StepRows, StepStatuses
<1>4. planStatus' \in [Plans -> PlanStatuses]
  BY DEF TypeOK, ScheduleRun, PlanStatuses
<1>5. QED
  BY <1>1, <1>2, <1>3, <1>4 DEF TypeOK, ScheduleRun

LEMMA CancelTyped ==
  ASSUME TypeOK, NEW r \in Runs, CancelRun(r)
  PROVE  TypeOK'
<1>1. NewJob(r, "ROLLBACK") \in Jobs
  BY NewJobTyped DEF StepKeys, RecoverySteps
<1>2. JobsRemoved(r) \subseteq Jobs
  BY DEF TypeOK, JobsRemoved
<1>3. CASE CancelBeforeQuiesce(r)
  <2>1. run' \in [Runs -> RunRows]
    BY <1>3, SetRunTyped DEF CancelBeforeQuiesce, RunStatuses, ErrorCodes
  <2>2. planStatus' \in [Plans -> PlanStatuses]
    BY <1>3, SetPlanTyped DEF CancelBeforeQuiesce, PlanStatuses
  <2>3. steps' \in [Runs -> StepRows]
    BY <1>3, SkippedTyped DEF TypeOK, CancelBeforeQuiesce
  <2>4. QED
    BY <1>2, <1>3, <2>1, <2>2, <2>3 DEF TypeOK, CancelBeforeQuiesce
<1>4. CASE CancelAfterQuiesce(r)
  <2>1. run' \in [Runs -> RunRows]
    BY <1>4, SetRunTyped DEF CancelAfterQuiesce, RunStatuses, ErrorCodes
  <2>2. [SkipUnfinished(r) EXCEPT !["ROLLBACK"] = "PENDING"] \in StepRows
    BY SkippedTyped DEF StepRows, StepStatuses
  <2>3. steps' \in [Runs -> StepRows]
    BY <1>4, <2>2 DEF TypeOK, CancelAfterQuiesce
  <2>4. QED
    BY <1>1, <1>2, <1>4, <2>1, <2>3 DEF TypeOK, CancelAfterQuiesce
<1>5. QED
  BY <1>3, <1>4 DEF CancelRun

LEMMA RestoreSourceTyped ==
  ASSUME TypeOK, NEW r \in Runs, RestoreSource(r)
  PROVE  TypeOK'
<1>1. NewJob(r, "RESTORE_SOURCE") \in Jobs
  BY NewJobTyped DEF StepKeys, RecoverySteps
<1>2. run' \in [Runs -> RunRows]
  BY SetRunTyped DEF RestoreSource, RunStatuses, ErrorCodes
<1>3. steps' \in [Runs -> StepRows]
  BY SetStepTyped DEF RestoreSource, StepKeys, RecoverySteps, StepStatuses
<1>4. jobs' \subseteq Jobs
  BY <1>1 DEF TypeOK, RestoreSource
<1>5. QED
  BY <1>2, <1>3, <1>4 DEF TypeOK, RestoreSource

LEMMA ConfirmCutoverTyped ==
  ASSUME TypeOK, NEW r \in Runs, ConfirmCutover(r)
  PROVE  TypeOK'
<1>1. run' \in [Runs -> RunRows]
  BY MoveRunTyped DEF ConfirmCutover, RunStatuses
<1>2. planStatus' \in [Plans -> PlanStatuses]
  BY SetPlanTyped DEF ConfirmCutover, PlanStatuses
<1>3. steps' \in [Runs -> StepRows]
  <2> DEFINE gate == IF steps[r]["AWAIT_CUTOVER"] = "RUNNING" THEN "SUCCEEDED"
                                                             ELSE steps[r]["AWAIT_CUTOVER"]
  <2>1. "AWAIT_CUTOVER" \in StepKeys
    BY DEF StepKeys, PipelineSteps
  <2>2. gate \in StepStatuses
    BY <2>1 DEF TypeOK, StepRows, StepStatuses
  <2>3. steps' = [steps EXCEPT ![r]["AWAIT_CUTOVER"] = gate]
    BY DEF ConfirmCutover
  <2>4. QED
    BY <2>1, <2>2, <2>3, SetStepTyped
<1>4. QED
  BY <1>1, <1>2, <1>3 DEF TypeOK, ConfirmCutover

LEMMA ReconcileTyped ==
  ASSUME TypeOK, NEW r \in Runs, ReconcileValidation(r)
  PROVE  TypeOK'
<1>1. run' \in [Runs -> RunRows]
  BY SetRunTyped DEF ReconcileValidation, RunStatuses, ErrorCodes
<1>2. planStatus' \in [Plans -> PlanStatuses]
  BY SetPlanTyped DEF ReconcileValidation, PlanStatuses
<1>3. steps' \in [Runs -> StepRows]
  BY SetStepTyped DEF ReconcileValidation, StepKeys, PipelineSteps, StepStatuses
<1>4. QED
  BY <1>1, <1>2, <1>3 DEF TypeOK, ReconcileValidation

LEMMA DeleteTyped ==
  ASSUME TypeOK, NEW r \in Runs, DeleteRun(r)
  PROVE  TypeOK'
  BY DEF TypeOK, DeleteRun

LEMMA ClaimTyped ==
  ASSUME TypeOK, NEW w \in Workers, NEW j \in jobs, Claim(w, j)
  PROVE  TypeOK'
<1>1. j \in Jobs
  BY DEF TypeOK
<1>2. Leased(j, w) \in Jobs
  BY <1>1 DEF Jobs, Leased
<1>3. [run |-> j.run, step |-> j.step, attempt |-> j.attempt + 1] \in Claims
  BY <1>1 DEF Jobs, Claims
<1>4. j.run \in Runs /\ j.step \in StepKeys /\ StatusForStep(j.step) \in RunStatuses
  BY <1>1, KeysAreSteps DEF Jobs
<1>5. run' \in [Runs -> RunRows]
  BY <1>4, MoveRunTyped DEF Claim
<1>6. steps' \in [Runs -> StepRows]
  BY <1>4, SetStepTyped DEF Claim, StepStatuses
<1>7. quiesced' \subseteq Runs
  BY <1>4 DEF Claim, TypeOK
<1>8. /\ phase' \in [Workers -> Phases]
      /\ claim' \in [Workers -> Claims \cup {NoClaim}]
      /\ \A v \in Workers : phase'[v] # "idle" => claim'[v] \in Claims
  BY <1>3 DEF Claim, TypeOK, Phases
<1>9. QED
  BY <1>2, <1>5, <1>6, <1>7, <1>8 DEF TypeOK, Claim

LEMMA HandlerTyped ==
  ASSUME TypeOK, NEW w \in Workers,
         \/ \E result \in {"succeeded", "failed"} : HandlerReturns(w, result)
         \/ HeartbeatRejected(w) \/ AbandonJob(w) \/ StaleResult(w)
  PROVE  TypeOK'
  BY DEF TypeOK, HandlerReturns, HeartbeatRejected, AbandonJob, StaleResult, Released,
     database, Phases

\* A worker that is not idle has claimed a step of a run.
LEMMA ClaimKnown ==
  ASSUME TypeOK, NEW w \in Workers, phase[w] # "idle"
  PROVE  claim[w].run \in Runs /\ claim[w].step \in StepKeys
  BY DEF TypeOK, Claims

\* What every report does to the worker itself.
LEMMA ReleasedTyped ==
  ASSUME TypeOK, NEW w \in Workers, Released(w)
  PROVE  /\ phase' \in [Workers -> Phases]
         /\ claim' \in [Workers -> Claims \cup {NoClaim}]
         /\ \A v \in Workers : phase'[v] # "idle" => claim'[v] \in Claims
  BY DEF TypeOK, Released, Phases

LEMMA CompleteAndEnqueueTyped ==
  ASSUME TypeOK, NEW w \in Workers, CompleteAndEnqueue(w)
  PROVE  TypeOK'
<1> DEFINE r == claim[w].run
           k == claim[w].step
<1>1. r \in Runs /\ k \in StepKeys
  BY ClaimKnown DEF CompleteAndEnqueue
<1>2. jobs' \subseteq Jobs
  BY <1>1, NewJobTyped DEF TypeOK, CompleteAndEnqueue
<1>3. steps' \in [Runs -> StepRows]
  BY <1>1, SetStepTyped DEF CompleteAndEnqueue, StepStatuses
<1>4. QED
  BY <1>2, <1>3, ReleasedTyped DEF TypeOK, CompleteAndEnqueue

LEMMA CompleteAndOpenGateTyped ==
  ASSUME TypeOK, NEW w \in Workers, CompleteAndOpenGate(w)
  PROVE  TypeOK'
<1> DEFINE r == claim[w].run
           k == claim[w].step
<1>1. r \in Runs /\ k \in StepKeys
  BY ClaimKnown DEF CompleteAndOpenGate
<1>2. run' \in [Runs -> RunRows]
  BY <1>1, MoveRunTyped DEF CompleteAndOpenGate, RunStatuses
<1>3. steps' \in [Runs -> StepRows]
  BY <1>1 DEF TypeOK, CompleteAndOpenGate, StepRows, StepStatuses
<1>4. QED
  BY <1>2, <1>3, ReleasedTyped DEF TypeOK, CompleteAndOpenGate

LEMMA CompleteRollbackTyped ==
  ASSUME TypeOK, NEW w \in Workers, CompleteRollback(w)
  PROVE  TypeOK'
<1> DEFINE r == claim[w].run
           k == claim[w].step
           outcome == AfterRollback(run[r].code)
           code == IF run[r].code = "SOURCE_RESTORE_REQUESTED" THEN "SOURCE_RESTORED"
                                                               ELSE run[r].code
<1>1. r \in Runs /\ k \in StepKeys
  BY ClaimKnown DEF CompleteRollback
<1>2. outcome.run \in RunStatuses /\ outcome.plan \in PlanStatuses
  BY DEF AfterRollback, RunStatuses, PlanStatuses
<1>3. code \in ErrorCodes
  BY <1>1 DEF TypeOK, RunRows, ErrorCodes
<1>4. SetRun(r, outcome.run, code) /\ SetPlanOf(r, outcome.plan)
  BY DEF CompleteRollback
<1>5. steps' \in [Runs -> StepRows]
  BY <1>1, SetStepTyped DEF CompleteRollback, StepStatuses
<1> HIDE DEF outcome, code
<1>6. run' \in [Runs -> RunRows] /\ planStatus' \in [Plans -> PlanStatuses]
  BY <1>1, <1>2, <1>3, <1>4, SetRunTyped, SetPlanTyped
<1>7. QED
  BY <1>5, <1>6, ReleasedTyped DEF TypeOK, CompleteRollback

LEMMA RetryJobTyped ==
  ASSUME TypeOK, NEW w \in Workers, RetryJob(w)
  PROVE  TypeOK'
<1>1. claim[w].run \in Runs /\ claim[w].step \in StepKeys
  BY ClaimKnown DEF RetryJob
<1>2. \A j \in HeldJobs(w) : [j EXCEPT !.owner = None, !.expired = FALSE] \in Jobs
  BY DEF TypeOK, HeldJobs, Jobs
<1>3. steps' \in [Runs -> StepRows]
  BY <1>1, SetStepTyped DEF RetryJob, StepStatuses
<1>4. QED
  BY <1>2, <1>3, ReleasedTyped DEF TypeOK, RetryJob

LEMMA FailRunTyped ==
  ASSUME TypeOK, NEW w \in Workers, FailRun(w)
  PROVE  TypeOK'
<1>1. claim[w].run \in Runs /\ claim[w].step \in StepKeys
  BY ClaimKnown DEF FailRun
<1>2. run' \in [Runs -> RunRows]
  BY <1>1, SetRunTyped DEF FailRun, RunStatuses, ErrorCodes
<1>3. planStatus' \in [Plans -> PlanStatuses]
  BY <1>1, SetPlanTyped DEF FailRun, PlanStatuses
<1>4. steps' \in [Runs -> StepRows]
  BY <1>1, SetStepTyped DEF FailRun, StepStatuses
<1>5. QED
  BY <1>2, <1>3, <1>4, ReleasedTyped DEF TypeOK, FailRun

LEMMA FailAndRollBackTyped ==
  ASSUME TypeOK, NEW w \in Workers, FailAndRollBack(w)
  PROVE  TypeOK'
<1>1. claim[w].run \in Runs /\ claim[w].step \in StepKeys
  BY ClaimKnown DEF FailAndRollBack
<1>2. NewJob(claim[w].run, "ROLLBACK") \in Jobs
  BY <1>1, NewJobTyped DEF StepKeys, RecoverySteps
<1>3. run' \in [Runs -> RunRows]
  BY <1>1, SetRunTyped DEF FailAndRollBack, RunStatuses, ErrorCodes
<1>4. steps' \in [Runs -> StepRows]
  BY <1>1 DEF TypeOK, FailAndRollBack, StepRows, StepStatuses
<1>5. QED
  BY <1>2, <1>3, <1>4, ReleasedTyped DEF TypeOK, FailAndRollBack

LEMMA FaultTyped ==
  ASSUME TypeOK, Fault
  PROVE  faults' \in 0..MaxFaults
  BY FaultAssumption DEF TypeOK, Fault

LEMMA ExpireTyped ==
  ASSUME TypeOK, NEW j \in jobs, LeaseRunsOut(j) \/ HeartbeatLate(j)
  PROVE  TypeOK'
<1>1. j \in Jobs /\ [j EXCEPT !.expired = TRUE] \in Jobs
  BY DEF TypeOK, Jobs
<1>2. faults' \in 0..MaxFaults
  BY FaultTyped DEF LeaseRunsOut, HeartbeatLate, TypeOK
<1>3. QED
  BY <1>1, <1>2 DEF TypeOK, LeaseRunsOut, HeartbeatLate, Expire

LEMMA FailureTyped ==
  ASSUME TypeOK, NEW w \in Workers, HeartbeatError(w) \/ StoreError(w) \/ Crash(w)
  PROVE  TypeOK'
<1>1. faults' \in 0..MaxFaults
  BY FaultTyped DEF HeartbeatError, StoreError, Crash
<1>2. CASE HeartbeatError(w)
  BY <1>1, <1>2 DEF TypeOK, HeartbeatError, database, Phases
<1>3. CASE StoreError(w) \/ Crash(w)
  BY <1>1, <1>3, ReleasedTyped DEF TypeOK, StoreError, Crash, database
<1>4. QED
  BY <1>2, <1>3

LEMMA NextTyped == TypeOK /\ [Next]_vars => TypeOK'
<1> SUFFICES ASSUME TypeOK, [Next]_vars PROVE TypeOK'
  OBVIOUS
<1>1. ASSUME NEW p \in Plans, NEW status \in PlanStatuses, Preflight(p, status)
      PROVE  TypeOK'
  BY <1>1, PreflightTyped
<1>2. ASSUME NEW p \in Plans, NEW r \in Runs, Start(p, r) PROVE TypeOK'
  BY <1>2, ScheduleTyped DEF Start
<1>3. ASSUME NEW previous \in Runs, NEW r \in Runs, RetryRun(previous, r) PROVE TypeOK'
  <2>1. run[previous].plan \in Plans \cup {None}
    BY DEF TypeOK, RunRows
  <2>2. QED
    BY <1>3, <2>1, ScheduleTyped DEF RetryRun
<1>4. ASSUME NEW r \in Runs, Administrator(r) PROVE TypeOK'
  BY <1>4, CancelTyped, RestoreSourceTyped, ConfirmCutoverTyped, ReconcileTyped,
     DeleteTyped DEF Administrator
<1>5. ASSUME NEW w \in Workers, Worker(w) PROVE TypeOK'
  BY <1>5, ClaimTyped, HandlerTyped, CompleteAndEnqueueTyped, CompleteAndOpenGateTyped,
     CompleteRollbackTyped, RetryJobTyped, FailRunTyped, FailAndRollBackTyped
     DEF Worker, StoreResult
<1>6. ASSUME NEW j \in jobs, LeaseRunsOut(j) PROVE TypeOK'
  BY <1>6, ExpireTyped
<1>7. CASE Failure
  BY <1>7, ExpireTyped, FailureTyped DEF Failure
<1>8. CASE UNCHANGED vars
  BY <1>8 DEF TypeOK, vars
<1>9. QED
  BY <1>1, <1>2, <1>3, <1>4, <1>5, <1>6, <1>7, <1>8 DEF Next

\* Every column of every table, and every worker, stays within its type.
THEOREM TypeCorrect == Spec => []TypeOK
<1>1. QED
  BY InitTyped, NextTyped, PTL DEF Spec
=============================================================================
