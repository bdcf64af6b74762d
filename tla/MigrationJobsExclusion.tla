----------------------- MODULE MigrationJobsExclusion -----------------------
(***************************************************************************)
(* For every number of plans, runs, workers, attempts and faults: a run has*)
(* at most one job; exactly the active runs that do not wait for the       *)
(* administrator have one; and a worker that lost its lease changes nothing*)
(* when it reports.  JobInvariant is inductive together with TypeOK.       *)
(***************************************************************************)
EXTENDS MigrationJobsProofs

-----------------------------------------------------------------------------
(***************************************************************************)
(* How the transactions change a run's status.                             *)
(***************************************************************************)
LEMMA StatusSet ==
  ASSUME TypeOK, NEW r \in Runs, NEW status, NEW code, SetRun(r, status, code)
  PROVE  /\ run'[r].status = status
         /\ \A q \in Runs : q # r => run'[q].status = run[q].status
  BY DEF TypeOK, SetRun, RunRows

LEMMA StatusMoved ==
  ASSUME TypeOK, NEW r \in Runs, NEW status, run' = [run EXCEPT ![r].status = status]
  PROVE  /\ run'[r].status = status
         /\ \A q \in Runs : q # r => run'[q].status = run[q].status
  BY DEF TypeOK, RunRows

LEMMA Awaiting ==
  \A r : AwaitsWorker(r) <=> run[r].status \in RunStatuses \
    {"AWAITING_CUTOVER", "COMPLETED", "FAILED", "CANCELLED"}
  BY DEF AwaitsWorker, Active, IsTerminal

(***************************************************************************)
(* The three ways in which a step changes the set of jobs.                 *)
(***************************************************************************)
\* Workers go on with the claim they have, or finish.
WorkersGoOn ==
  \A w \in Workers : phase'[w] # "idle" => phase[w] # "idle" /\ claim'[w] = claim[w]

LEMMA KeepJobs ==
  ASSUME JobInvariant, jobs' = jobs, WorkersGoOn,
         \A r \in Runs : AwaitsWorker(r)' <=> AwaitsWorker(r)
  PROVE  JobInvariant'
<1>1. OneJobPerRun' /\ NoJobForGate' /\ JobsDriveActiveRuns'
  BY DEF JobInvariant, OneJobPerRun, NoJobForGate, JobsDriveActiveRuns
<1>2. LeasesMatchClaims'
  BY DEF JobInvariant, LeasesMatchClaims, WorkersGoOn, HeldJobs
<1>3. QED
  BY <1>1, <1>2 DEF JobInvariant

LEMMA ReplaceJobs ==
  ASSUME JobInvariant, NEW r \in Runs, NEW new,
         jobs' = JobsRemoved(r) \cup new,
         \A i \in new : i.run = r /\ i.owner = None /\ i.step # "AWAIT_CUTOVER",
         \A i, j \in new : i = j,
         new # {} <=> AwaitsWorker(r)',
         \A q \in Runs : q # r => run'[q].status = run[q].status,
         WorkersGoOn
  PROVE  JobInvariant'
<1>1. OneJobPerRun' /\ NoJobForGate'
  BY DEF JobInvariant, OneJobPerRun, NoJobForGate, JobsRemoved, JobsOf
<1>2. JobsDriveActiveRuns'
  <2>1. \A q \in Runs : q # r => (AwaitsWorker(q)' <=> AwaitsWorker(q))
    BY DEF AwaitsWorker, Active
  <2>2. \A q \in Runs : q # r =>
          ((\E j \in jobs' : j.run = q) <=> (\E j \in jobs : j.run = q))
    BY DEF JobsRemoved, JobsOf
  <2>3. (\E j \in jobs' : j.run = r) <=> new # {}
    BY DEF JobsRemoved, JobsOf
  <2>4. QED
    BY <2>1, <2>2, <2>3 DEF JobInvariant, JobsDriveActiveRuns
<1>3. LeasesMatchClaims'
  BY WorkerAssumption
     DEF JobInvariant, LeasesMatchClaims, WorkersGoOn, HeldJobs, JobsRemoved, JobsOf
<1>4. QED
  BY <1>1, <1>2, <1>3 DEF JobInvariant

LEMMA EnqueueJob ==
  ASSUME JobInvariant, NEW r \in Runs, NEW k, k # "AWAIT_CUTOVER",
         jobs' = JobsRemoved(r) \cup {NewJob(r, k)}, AwaitsWorker(r)',
         \A q \in Runs : q # r => run'[q].status = run[q].status,
         WorkersGoOn
  PROVE  JobInvariant'
<1> DEFINE new == {NewJob(r, k)}
<1>1. /\ \A i \in new : i.run = r /\ i.owner = None /\ i.step # "AWAIT_CUTOVER"
      /\ \A i, j \in new : i = j
      /\ new # {}
      /\ jobs' = JobsRemoved(r) \cup new
  BY DEF NewJob
<1> HIDE DEF new
<1>2. QED
  BY <1>1, ReplaceJobs

LEMMA DropJobs ==
  ASSUME JobInvariant, NEW r \in Runs,
         jobs' = JobsRemoved(r), ~AwaitsWorker(r)',
         \A q \in Runs : q # r => run'[q].status = run[q].status,
         WorkersGoOn
  PROVE  JobInvariant'
<1> DEFINE new == {}
<1>1. /\ \A i \in new : i.run = r /\ i.owner = None /\ i.step # "AWAIT_CUTOVER"
      /\ \A i, j \in new : i = j
      /\ ~(new # {})
      /\ jobs' = JobsRemoved(r) \cup new
  OBVIOUS
<1> HIDE DEF new
<1>2. QED
  BY <1>1, ReplaceJobs

LEMMA SwapJob ==
  ASSUME JobInvariant, NEW i \in jobs, NEW j, i.run \in Runs,
         jobs' = (jobs \ {i}) \cup {j}, j.run = i.run, j.step = i.step,
         AwaitsWorker(i.run)',
         \A q \in Runs : q # i.run => run'[q].status = run[q].status,
         LeasesMatchClaims'
  PROVE  JobInvariant'
<1>1. OneJobPerRun' /\ NoJobForGate'
  BY DEF JobInvariant, OneJobPerRun, NoJobForGate
<1>2. JobsDriveActiveRuns'
  <2>1. \A q \in Runs : q # i.run => (AwaitsWorker(q)' <=> AwaitsWorker(q))
    BY DEF AwaitsWorker, Active
  <2>2. \A q \in Runs : (\E k \in jobs' : k.run = q) <=> (\E k \in jobs : k.run = q)
    OBVIOUS
  <2>3. QED
    BY <2>1, <2>2 DEF JobInvariant, JobsDriveActiveRuns
<1>3. QED
  BY <1>1, <1>2 DEF JobInvariant

\* The lease a worker reports about is its run's only job.
LEMMA HeldIsAll ==
  ASSUME TypeOK, JobInvariant, NEW w \in Workers, HeldJobs(w) # {}
  PROVE  /\ jobs \ HeldJobs(w) = JobsRemoved(claim[w].run)
         /\ claim[w].run \in Runs
         /\ AwaitsWorker(claim[w].run)
<1>1. PICK j \in HeldJobs(w) : TRUE
  OBVIOUS
<1>2. j \in jobs /\ j.run = claim[w].run /\ j.run \in Runs
  BY DEF HeldJobs, TypeOK, Jobs
<1>3. HeldJobs(w) = {j} /\ JobsOf(claim[w].run) = {j}
  BY <1>2 DEF JobInvariant, OneJobPerRun, HeldJobs, JobsOf
<1>4. QED
  BY <1>2, <1>3 DEF JobInvariant, JobsDriveActiveRuns, JobsRemoved

LEMMA ReleasedGoesOn ==
  ASSUME TypeOK, NEW w \in Workers, Released(w)
  PROVE  WorkersGoOn
  BY DEF TypeOK, Released, WorkersGoOn

-----------------------------------------------------------------------------
(***************************************************************************)
(* One lemma per action.                                                   *)
(***************************************************************************)
LEMMA InitExclusive == Init => JobInvariant
  BY DEF Init, JobInvariant, OneJobPerRun, JobsDriveActiveRuns, NoJobForGate,
     LeasesMatchClaims, AwaitsWorker, Active, RunStatuses

LEMMA ScheduleExclusive ==
  ASSUME TypeOK, JobInvariant, NEW p, NEW r \in Runs, ScheduleRun(p, r)
  PROVE  JobInvariant'
<1>1. run'[r].status = "PENDING" /\ \A q \in Runs : q # r => run'[q] = run[q]
  BY DEF TypeOK, ScheduleRun
<1>2. AwaitsWorker(r)'
  BY <1>1 DEF AwaitsWorker, Active, IsTerminal, RunStatuses
<1>3. JobsOf(r) = {}
  BY DEF ScheduleRun, JobInvariant, JobsDriveActiveRuns, AwaitsWorker, Active,
     RunStatuses, JobsOf
<1>4. jobs' = JobsRemoved(r) \cup {NewJob(r, "PREFLIGHT")}
  BY <1>3 DEF ScheduleRun, JobsRemoved
<1>5. WorkersGoOn
  BY DEF ScheduleRun, WorkersGoOn
<1>6. QED
  BY <1>1, <1>2, <1>4, <1>5, EnqueueJob

LEMMA CancelExclusive ==
  ASSUME TypeOK, JobInvariant, NEW r \in Runs, CancelRun(r)
  PROVE  JobInvariant'
<1>1. CASE CancelBeforeQuiesce(r)
  <2>1. /\ run'[r].status = "CANCELLED"
        /\ \A q \in Runs : q # r => run'[q].status = run[q].status
    BY <1>1, StatusSet DEF CancelBeforeQuiesce
  <2>2. ~AwaitsWorker(r)'
    BY <2>1 DEF AwaitsWorker, Active, IsTerminal
  <2>3. jobs' = JobsRemoved(r) /\ WorkersGoOn
    BY <1>1 DEF CancelBeforeQuiesce, WorkersGoOn
  <2>4. QED
    BY <2>1, <2>2, <2>3, DropJobs
<1>2. CASE CancelAfterQuiesce(r)
  <2>1. /\ run'[r].status = "ROLLING_BACK"
        /\ \A q \in Runs : q # r => run'[q].status = run[q].status
    BY <1>2, StatusSet DEF CancelAfterQuiesce
  <2>2. AwaitsWorker(r)'
    BY <2>1 DEF AwaitsWorker, Active, IsTerminal, RunStatuses
  <2>3. jobs' = JobsRemoved(r) \cup {NewJob(r, "ROLLBACK")} /\ WorkersGoOn
    BY <1>2 DEF CancelAfterQuiesce, WorkersGoOn
  <2>4. QED
    BY <2>1, <2>2, <2>3, EnqueueJob
<1>3. QED
  BY <1>1, <1>2 DEF CancelRun

LEMMA RestoreSourceExclusive ==
  ASSUME TypeOK, JobInvariant, NEW r \in Runs, RestoreSource(r)
  PROVE  JobInvariant'
<1>1. /\ run'[r].status = "ROLLING_BACK"
      /\ \A q \in Runs : q # r => run'[q].status = run[q].status
  BY StatusSet DEF RestoreSource
<1>2. AwaitsWorker(r)'
  BY <1>1 DEF AwaitsWorker, Active, IsTerminal, RunStatuses
<1>3. JobsOf(r) = {}
  BY DEF RestoreSource, JobInvariant, JobsDriveActiveRuns, AwaitsWorker, Active,
     IsTerminal, JobsOf
<1>4. jobs' = JobsRemoved(r) \cup {NewJob(r, "RESTORE_SOURCE")}
  BY <1>3 DEF RestoreSource, JobsRemoved, JobsOf
<1>5. WorkersGoOn
  BY DEF RestoreSource, WorkersGoOn
<1>6. QED
  BY <1>1, <1>2, <1>4, <1>5, EnqueueJob

LEMMA ConfirmCutoverExclusive ==
  ASSUME TypeOK, JobInvariant, NEW r \in Runs, ConfirmCutover(r)
  PROVE  JobInvariant'
<1>1. /\ run'[r].status = "COMPLETED"
      /\ \A q \in Runs : q # r => run'[q].status = run[q].status
  BY StatusMoved DEF ConfirmCutover
<1>2. \A q \in Runs : AwaitsWorker(q)' <=> AwaitsWorker(q)
  BY <1>1 DEF ConfirmCutover, AtGate, AwaitsWorker, Active, IsTerminal
<1>3. QED
  BY <1>2, KeepJobs DEF ConfirmCutover, WorkersGoOn

LEMMA ReconcileExclusive ==
  ASSUME TypeOK, JobInvariant, NEW r \in Runs, ReconcileValidation(r)
  PROVE  JobInvariant'
<1>1. /\ run'[r].status = "COMPLETED"
      /\ \A q \in Runs : q # r => run'[q].status = run[q].status
  BY StatusSet DEF ReconcileValidation
<1>2. \A q \in Runs : AwaitsWorker(q)' <=> AwaitsWorker(q)
  BY <1>1 DEF ReconcileValidation, AwaitsWorker, Active, IsTerminal
<1>3. QED
  BY <1>2, KeepJobs DEF ReconcileValidation, WorkersGoOn

LEMMA ClaimExclusive ==
  ASSUME TypeOK, JobInvariant, NEW w \in Workers, NEW j \in jobs, Claim(w, j)
  PROVE  JobInvariant'
<1>1. j.run \in Runs /\ j.step \in StepKeys /\ j.step # "AWAIT_CUTOVER"
  BY DEF TypeOK, Jobs, JobInvariant, NoJobForGate
<1>2. /\ run'[j.run].status = StatusForStep(j.step)
      /\ \A q \in Runs : q # j.run => run'[q].status = run[q].status
  BY <1>1, StatusMoved DEF Claim
<1>3. AwaitsWorker(j.run)'
  <2>1. StatusForStep(j.step) \in RunStatuses \
          {"AWAITING_CUTOVER", "COMPLETED", "FAILED", "CANCELLED"}
    BY <1>1 DEF StatusForStep, StepKeys, PipelineSteps, RecoverySteps, RunStatuses
  <2>2. QED
    BY <1>2, <2>1 DEF AwaitsWorker, Active, IsTerminal
<1>4. Leased(j, w).run = j.run /\ Leased(j, w).step = j.step
  BY DEF Leased
<1>5. jobs' = (jobs \ {j}) \cup {Leased(j, w)}
  BY DEF Claim
<1>6. LeasesMatchClaims'
  <2> SUFFICES ASSUME NEW v \in Workers, phase'[v] # "idle", NEW i \in HeldJobs(v)'
               PROVE  i.attempt = claim'[v].attempt
    BY DEF LeasesMatchClaims
  <2>1. CASE v = w
    <3>1. claim'[w] = [run |-> j.run, step |-> j.step, attempt |-> j.attempt + 1]
      BY DEF Claim, TypeOK
    <3>2. i = Leased(j, w)
      BY <1>5, <2>1, <3>1 DEF HeldJobs, JobInvariant, OneJobPerRun
    <3>3. QED
      BY <2>1, <3>1, <3>2 DEF Leased
  <2>2. CASE v # w
    <3>1. claim'[v] = claim[v] /\ phase'[v] = phase[v]
      BY <2>2 DEF Claim, TypeOK
    <3>2. i \in HeldJobs(v)
      BY <1>5, <2>2, <3>1 DEF HeldJobs, Leased
    <3>3. QED
      BY <3>1, <3>2 DEF JobInvariant, LeasesMatchClaims
  <2>3. QED
    BY <2>1, <2>2
<1>7. QED
  BY <1>1, <1>2, <1>3, <1>4, <1>5, <1>6, SwapJob

LEMMA HandlerExclusive ==
  ASSUME TypeOK, JobInvariant, NEW w \in Workers,
         \/ \E result \in {"succeeded", "failed"} : HandlerReturns(w, result)
         \/ HeartbeatRejected(w) \/ AbandonJob(w) \/ StaleResult(w)
  PROVE  JobInvariant'
<1>1. jobs' = jobs /\ run' = run
  BY DEF HandlerReturns, HeartbeatRejected, AbandonJob, StaleResult, database
<1>2. WorkersGoOn
  BY ReleasedGoesOn DEF TypeOK, HandlerReturns, HeartbeatRejected, AbandonJob, StaleResult,
     WorkersGoOn
<1>3. QED
  BY <1>1, <1>2, KeepJobs DEF AwaitsWorker, Active

LEMMA CompleteAndEnqueueExclusive ==
  ASSUME TypeOK, JobInvariant, NEW w \in Workers, CompleteAndEnqueue(w)
  PROVE  JobInvariant'
<1>0. PICK r \in Runs : r = claim[w].run
  BY HeldIsAll DEF CompleteAndEnqueue
<1>1. AwaitsWorker(r) /\ jobs \ HeldJobs(w) = JobsRemoved(r)
  BY <1>0, HeldIsAll DEF CompleteAndEnqueue
<1>2. PICK n \in StepKeys \ {"AWAIT_CUTOVER"} :
        jobs' = (jobs \ HeldJobs(w)) \cup {NewJob(r, n)}
  BY <1>0 DEF CompleteAndEnqueue
<1>3. run' = run /\ AwaitsWorker(r)' /\ WorkersGoOn
  BY <1>1, ReleasedGoesOn DEF CompleteAndEnqueue, AwaitsWorker, Active
<1>4. QED
  BY <1>1, <1>2, <1>3, EnqueueJob

LEMMA CompleteAndOpenGateExclusive ==
  ASSUME TypeOK, JobInvariant, NEW w \in Workers, CompleteAndOpenGate(w)
  PROVE  JobInvariant'
<1>0. PICK r \in Runs : r = claim[w].run
  BY HeldIsAll DEF CompleteAndOpenGate
<1>1. jobs' = JobsRemoved(r)
  BY <1>0, HeldIsAll DEF CompleteAndOpenGate
<1>2. /\ run'[r].status = "AWAITING_CUTOVER"
      /\ \A q \in Runs : q # r => run'[q].status = run[q].status
  BY <1>0, StatusMoved DEF CompleteAndOpenGate
<1>3. ~AwaitsWorker(r)' /\ WorkersGoOn
  BY <1>2, ReleasedGoesOn DEF CompleteAndOpenGate, AwaitsWorker
<1>4. QED
  BY <1>1, <1>2, <1>3, DropJobs

LEMMA CompleteRollbackExclusive ==
  ASSUME TypeOK, JobInvariant, NEW w \in Workers, CompleteRollback(w)
  PROVE  JobInvariant'
<1>0. PICK r \in Runs : r = claim[w].run
  BY HeldIsAll DEF CompleteRollback
<1> DEFINE terminal == AfterRollback(run[r].code).run
<1>1. jobs' = JobsRemoved(r)
  BY <1>0, HeldIsAll DEF CompleteRollback
<1>2. terminal \in {"COMPLETED", "FAILED", "CANCELLED"}
  BY DEF AfterRollback
<1>3. /\ run'[r].status = terminal
      /\ \A q \in Runs : q # r => run'[q].status = run[q].status
  BY <1>0, StatusSet DEF CompleteRollback
<1> HIDE DEF terminal
<1>4. ~AwaitsWorker(r)' /\ WorkersGoOn
  BY <1>2, <1>3, ReleasedGoesOn DEF CompleteRollback, AwaitsWorker, Active, IsTerminal
<1>5. QED
  BY <1>1, <1>3, <1>4, DropJobs

LEMMA FailRunExclusive ==
  ASSUME TypeOK, JobInvariant, NEW w \in Workers, FailRun(w)
  PROVE  JobInvariant'
<1>0. PICK r \in Runs : r = claim[w].run
  BY HeldIsAll DEF FailRun
<1>1. jobs' = JobsRemoved(r)
  BY <1>0, HeldIsAll DEF FailRun
<1>2. /\ run'[r].status = "FAILED"
      /\ \A q \in Runs : q # r => run'[q].status = run[q].status
  BY <1>0, StatusSet DEF FailRun
<1>3. ~AwaitsWorker(r)' /\ WorkersGoOn
  BY <1>2, ReleasedGoesOn DEF FailRun, AwaitsWorker, Active, IsTerminal
<1>4. QED
  BY <1>1, <1>2, <1>3, DropJobs

LEMMA FailAndRollBackExclusive ==
  ASSUME TypeOK, JobInvariant, NEW w \in Workers, FailAndRollBack(w)
  PROVE  JobInvariant'
<1>0. PICK r \in Runs : r = claim[w].run
  BY HeldIsAll DEF FailAndRollBack
<1>1. jobs' = JobsRemoved(r) \cup {NewJob(r, "ROLLBACK")}
  BY <1>0, HeldIsAll DEF FailAndRollBack
<1>2. /\ run'[r].status = "ROLLING_BACK"
      /\ \A q \in Runs : q # r => run'[q].status = run[q].status
  BY <1>0, StatusSet DEF FailAndRollBack
<1>3. AwaitsWorker(r)' /\ WorkersGoOn
  BY <1>2, ReleasedGoesOn DEF FailAndRollBack, AwaitsWorker, Active, IsTerminal, RunStatuses
<1>4. QED
  BY <1>1, <1>2, <1>3, EnqueueJob

LEMMA RetryJobExclusive ==
  ASSUME TypeOK, JobInvariant, NEW w \in Workers, RetryJob(w)
  PROVE  JobInvariant'
<1>1. PICK j \in HeldJobs(w) : TRUE
  BY DEF RetryJob
<1>2. j \in jobs /\ j \in Jobs
  BY DEF HeldJobs, TypeOK
<1>3. HeldJobs(w) = {j}
  BY <1>2 DEF HeldJobs, JobInvariant, OneJobPerRun
<1> DEFINE freed == [j EXCEPT !.owner = None, !.expired = FALSE]
<1>4. jobs' = (jobs \ {j}) \cup {freed}
  BY <1>3 DEF RetryJob
<1>5. freed.run = j.run /\ freed.step = j.step /\ freed.owner = None /\ j.run \in Runs
  BY <1>2 DEF Jobs
<1> HIDE DEF freed
<1>6. run' = run /\ WorkersGoOn
  BY ReleasedGoesOn DEF RetryJob
<1>7. LeasesMatchClaims'
  BY <1>4, <1>5, <1>6, WorkerAssumption
     DEF JobInvariant, LeasesMatchClaims, WorkersGoOn, HeldJobs
<1>8. AwaitsWorker(j.run)'
  BY <1>2, <1>5, <1>6 DEF JobInvariant, JobsDriveActiveRuns, AwaitsWorker, Active
<1>9. QED
  BY <1>2, <1>4, <1>5, <1>6, <1>7, <1>8, SwapJob

LEMMA ExpireExclusive ==
  ASSUME TypeOK, JobInvariant, NEW j \in jobs, LeaseRunsOut(j) \/ HeartbeatLate(j)
  PROVE  JobInvariant'
<1> DEFINE late == [j EXCEPT !.expired = TRUE]
<1>1. jobs' = (jobs \ {j}) \cup {late} /\ run' = run /\ phase' = phase /\ claim' = claim
  BY DEF LeaseRunsOut, HeartbeatLate, Expire
<1>2. /\ late.run = j.run /\ late.step = j.step /\ late.owner = j.owner
      /\ late.attempt = j.attempt /\ j.run \in Runs
  BY DEF TypeOK, Jobs
<1> HIDE DEF late
<1>3. LeasesMatchClaims'
  BY <1>1, <1>2 DEF JobInvariant, LeasesMatchClaims, HeldJobs
<1>4. AwaitsWorker(j.run)'
  BY <1>1, <1>2 DEF JobInvariant, JobsDriveActiveRuns, AwaitsWorker, Active
<1>5. QED
  BY <1>1, <1>2, <1>3, <1>4, SwapJob

LEMMA FailureExclusive ==
  ASSUME TypeOK, JobInvariant, NEW w \in Workers,
         HeartbeatError(w) \/ StoreError(w) \/ Crash(w)
  PROVE  JobInvariant'
<1>1. jobs' = jobs /\ run' = run
  BY DEF HeartbeatError, StoreError, Crash, database
<1>2. WorkersGoOn
  BY ReleasedGoesOn DEF TypeOK, HeartbeatError, StoreError, Crash, WorkersGoOn
<1>3. QED
  BY <1>1, <1>2, KeepJobs DEF AwaitsWorker, Active

LEMMA UnchangedExclusive ==
  ASSUME JobInvariant, jobs' = jobs, run' = run, phase' = phase, claim' = claim
  PROVE  JobInvariant'
  BY KeepJobs DEF WorkersGoOn, AwaitsWorker, Active

LEMMA NextExclusive == TypeOK /\ JobInvariant /\ [Next]_vars => JobInvariant'
<1> SUFFICES ASSUME TypeOK, JobInvariant, [Next]_vars PROVE JobInvariant'
  OBVIOUS
<1>1. ASSUME NEW p \in Plans, NEW status \in PlanStatuses, Preflight(p, status)
      PROVE  JobInvariant'
  BY <1>1, UnchangedExclusive DEF Preflight
<1>2. ASSUME NEW p \in Plans, NEW r \in Runs, Start(p, r) PROVE JobInvariant'
  BY <1>2, ScheduleExclusive DEF Start
<1>3. ASSUME NEW previous \in Runs, NEW r \in Runs, RetryRun(previous, r)
      PROVE  JobInvariant'
  BY <1>3, ScheduleExclusive DEF RetryRun
<1>4. ASSUME NEW r \in Runs, Administrator(r) PROVE JobInvariant'
  <2>1. CASE DeleteRun(r)
    BY <2>1, UnchangedExclusive DEF DeleteRun
  <2>2. QED
    BY <1>4, <2>1, CancelExclusive, RestoreSourceExclusive, ConfirmCutoverExclusive,
       ReconcileExclusive DEF Administrator
<1>5. ASSUME NEW w \in Workers, Worker(w) PROVE JobInvariant'
  BY <1>5, ClaimExclusive, HandlerExclusive, CompleteAndEnqueueExclusive,
     CompleteAndOpenGateExclusive, CompleteRollbackExclusive, RetryJobExclusive,
     FailRunExclusive, FailAndRollBackExclusive DEF Worker, StoreResult
<1>6. ASSUME NEW j \in jobs, LeaseRunsOut(j) PROVE JobInvariant'
  BY <1>6, ExpireExclusive
<1>7. CASE Failure
  BY <1>7, ExpireExclusive, FailureExclusive DEF Failure
<1>8. CASE UNCHANGED vars
  BY <1>8, UnchangedExclusive DEF vars
<1>9. QED
  BY <1>1, <1>2, <1>3, <1>4, <1>5, <1>6, <1>7, <1>8 DEF Next

-----------------------------------------------------------------------------
(***************************************************************************)
(* The theorems.                                                           *)
(***************************************************************************)
\* The strengthening of OneJobPerRun and JobsDriveActiveRuns that every step of
\* the API, of the workers and of the clock preserves.
THEOREM JobsInvariant == Spec => []JobInvariant
<1>1. TypeOK /\ JobInvariant /\ [Next]_vars => (TypeOK /\ JobInvariant)'
  BY NextTyped, NextExclusive
<1>2. Init => TypeOK /\ JobInvariant
  BY InitTyped, InitExclusive
<1>3. QED
  BY <1>1, <1>2, PTL DEF Spec

\* A run never has two jobs: its steps are executed one at a time.
THEOREM JobsAreExclusive == Spec => []OneJobPerRun
<1>1. JobInvariant => OneJobPerRun
  BY DEF JobInvariant
<1>2. QED
  BY <1>1, JobsInvariant, PTL

\* Exactly the active runs that do not wait for the administrator have a job:
\* none is stranded, and none that has ended is driven on.
THEOREM NoRunIsStranded == Spec => []JobsDriveActiveRuns
<1>1. JobInvariant => JobsDriveActiveRuns
  BY DEF JobInvariant
<1>2. QED
  BY <1>1, JobsInvariant, PTL

\* A report changes the database only if the worker holds the attempt it claimed.
LEMMA ReportsAreCurrent ==
  ASSUME TypeOK, JobInvariant, [Next]_vars, NEW w \in Workers,
         phase[w] # "idle", phase'[w] = "idle", database' # database
  PROVE  \E j \in HeldJobs(w) : j.attempt = claim[w].attempt
<1> SUFFICES HeldJobs(w) # {}
  BY DEF JobInvariant, LeasesMatchClaims
<1>1. ASSUME NEW v \in Workers, Worker(v) PROVE HeldJobs(w) # {}
  <2>1. v = w
    <3> SUFFICES ASSUME v # w PROVE phase'[w] = phase[w]
      OBVIOUS
    <3>1. QED
      BY <1>1 DEF TypeOK, Worker, Claim, HandlerReturns, HeartbeatRejected, AbandonJob,
         StoreResult, CompleteAndEnqueue, CompleteAndOpenGate, CompleteRollback, RetryJob,
         FailRun, FailAndRollBack, StaleResult, Released
  <2>2. CASE StoreResult(w)
    BY <2>2 DEF StoreResult, CompleteAndEnqueue, CompleteAndOpenGate, CompleteRollback,
       RetryJob, FailRun, FailAndRollBack, StaleResult
  <2>3. CASE ~StoreResult(w)
    BY <1>1, <2>1, <2>3 DEF TypeOK, Worker, Claim, HandlerReturns, HeartbeatRejected,
       AbandonJob
  <2>4. QED
    BY <2>2, <2>3
<1>2. CASE Failure
  <2>1. ASSUME NEW j \in jobs, HeartbeatLate(j) PROVE FALSE
    BY <2>1 DEF HeartbeatLate, Expire
  <2>2. ASSUME NEW v \in Workers, HeartbeatError(v) \/ StoreError(v) \/ Crash(v)
        PROVE  FALSE
    BY <2>2 DEF HeartbeatError, StoreError, Crash
  <2>3. QED
    BY <1>2, <2>1, <2>2 DEF Failure
<1>3. CASE phase' = phase
  BY <1>3
<1>4. QED
  <2>1. ASSUME NEW p \in Plans, NEW status \in PlanStatuses, Preflight(p, status)
        PROVE  phase' = phase
    BY <2>1 DEF Preflight
  <2>2. ASSUME NEW p, NEW r \in Runs, ScheduleRun(p, r) PROVE phase' = phase
    BY <2>2 DEF ScheduleRun
  <2>3. ASSUME NEW r \in Runs, Administrator(r) PROVE phase' = phase
    BY <2>3 DEF Administrator, CancelRun, CancelBeforeQuiesce, CancelAfterQuiesce,
       RestoreSource, ConfirmCutover, ReconcileValidation, DeleteRun
  <2>4. ASSUME NEW j \in jobs, LeaseRunsOut(j) PROVE phase' = phase
    BY <2>4 DEF LeaseRunsOut, Expire
  <2>5. QED
    BY <1>1, <1>2, <1>3, <2>1, <2>2, <2>3, <2>4 DEF Next, Start, RetryRun, vars

\* Complete, Retry and Fail of a worker whose lease was taken over, cancelled or
\* completed by another change no row.
THEOREM StaleReportsAreRejected == Spec => StaleWorkersChangeNothing
<1>1. TypeOK /\ JobInvariant /\ [Next]_vars =>
        [\A w \in Workers :
           (phase[w] # "idle" /\ phase'[w] = "idle" /\ database' # database) =>
             \E j \in HeldJobs(w) : j.attempt = claim[w].attempt]_vars
  BY ReportsAreCurrent
<1>2. QED
  BY <1>1, TypeCorrect, JobsInvariant, PTL DEF Spec, StaleWorkersChangeNothing
=============================================================================
