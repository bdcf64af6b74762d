----------------------- MODULE SourceWorkloadsProofs -----------------------
(***************************************************************************)
(* For every number of plans, runs, workers and workloads: a run's snapshot*)
(* is what ran before it, its final backup is taken of a stopped source, and*)
(* a rollback starts what ran before.  Each property is about states of the*)
(* queue and of the handlers together; SourceInvariant is inductive with   *)
(* the invariants of the queue.                                            *)
(***************************************************************************)
EXTENDS SourceWorkloads, MigrationJobsLifecycle

-----------------------------------------------------------------------------
(***************************************************************************)
(* What a step of the queue can do to a worker, to the leases, to a run and*)
(* to a step that the source depends on.                                   *)
(***************************************************************************)
\* A worker in a handler has just claimed its job, or goes on with its claim.
WorkerGoesOn(w) ==
  /\ phase'[w] # "idle" => claim'[w] = claim[w] /\ phase[w] # "idle"
  /\ phase'[w] \in {"handling", "succeeded"} => phase[w] \in {"handling", phase'[w]}

LEMMA WorkersAreStarted ==
  ASSUME TypeOK, [Next]_vars, NEW w \in Workers
  PROVE  WorkerGoesOn(w) \/ \E j \in jobs : Claim(w, j)
<1>1. CASE phase' = phase /\ claim' = claim
  BY <1>1 DEF WorkerGoesOn
<1>2. ASSUME NEW v \in Workers, Released(v) PROVE WorkerGoesOn(w)
  BY <1>2 DEF WorkerGoesOn, Released, TypeOK
<1>3. ASSUME NEW v \in Workers, NEW result \in {"succeeded", "failed"}, HandlerReturns(v, result)
      PROVE  WorkerGoesOn(w)
  BY <1>3 DEF WorkerGoesOn, HandlerReturns, TypeOK
<1>4. ASSUME NEW v \in Workers, HeartbeatRejected(v) \/ HeartbeatError(v) PROVE WorkerGoesOn(w)
  BY <1>4 DEF WorkerGoesOn, HeartbeatRejected, HeartbeatError, TypeOK
<1>5. ASSUME NEW v \in Workers, NEW j \in jobs, Claim(v, j), v # w PROVE WorkerGoesOn(w)
  BY <1>5 DEF WorkerGoesOn, Claim, TypeOK
<1>6. CASE \E v \in Workers : Worker(v)
  <2> SUFFICES ASSUME NEW v \in Workers, Worker(v)
               PROVE  WorkerGoesOn(w) \/ \E j \in jobs : Claim(w, j)
    BY <1>6
  <2>1. CASE AbandonJob(v) \/ StoreResult(v)
    BY <2>1, <1>2 DEF AbandonJob, StoreResult, CompleteAndEnqueue, CompleteAndOpenGate,
       CompleteRollback, RetryJob, FailRun, FailAndRollBack, StaleResult
  <2>2. QED
    BY <2>1, <1>3, <1>4, <1>5 DEF Worker
<1>7. CASE Failure
  <2>1. CASE \E j \in jobs : HeartbeatLate(j)
    BY <2>1, <1>1 DEF HeartbeatLate, Expire
  <2>2. QED
    BY <2>1, <1>2, <1>4, <1>7 DEF Failure, StoreError, Crash
<1>8. CASE \E j \in jobs : LeaseRunsOut(j)
  BY <1>8, <1>1 DEF LeaseRunsOut, Expire
<1>9. CASE \E r \in Runs : Administrator(r)
  BY <1>9, <1>1 DEF Administrator, CancelRun, CancelBeforeQuiesce, CancelAfterQuiesce,
     RestoreSource, ConfirmCutover, ReconcileValidation, DeleteRun
<1>10. CASE \/ \E p \in Plans, status \in PlanStatuses : Preflight(p, status)
            \/ \E p \in Plans, r \in Runs : Start(p, r)
            \/ \E previous \in Runs, r \in Runs : RetryRun(previous, r)
  BY <1>10, <1>1 DEF Preflight, Start, RetryRun, ScheduleRun
<1>11. QED
  BY <1>1, <1>6, <1>7, <1>8, <1>9, <1>10 DEF Next, vars

\* A leased job was leased to the same worker before, or is claimed now.
WasLeased(i) == \E j \in jobs : j.run = i.run /\ j.step = i.step /\ j.owner = i.owner

LEMMA LeasesAreClaimed ==
  ASSUME TypeOK, [Next]_vars, NEW i \in jobs', i.owner # None
  PROVE  WasLeased(i) \/ \E w \in Workers, j \in jobs : Claim(w, j) /\ i.owner = w
<1>1. CASE jobs' \subseteq jobs
  BY <1>1 DEF WasLeased
<1>2. ASSUME NEW r, NEW k, jobs' \subseteq jobs \cup {NewJob(r, k)} PROVE WasLeased(i)
  BY <1>2 DEF WasLeased, NewJob
<1>3. ASSUME NEW j \in jobs, Expire(j) PROVE WasLeased(i)
  <2>1. j.run = [j EXCEPT !.expired = TRUE].run /\ j.step = [j EXCEPT !.expired = TRUE].step
        /\ j.owner = [j EXCEPT !.expired = TRUE].owner
    BY DEF TypeOK, Jobs
  <2>2. QED
    BY <1>3, <2>1 DEF WasLeased, Expire
<1>4. ASSUME NEW w \in Workers, NEW j \in jobs, Claim(w, j)
      PROVE  WasLeased(i) \/ i.owner = w
  BY <1>4 DEF WasLeased, Claim, Leased
<1>5. ASSUME NEW w \in Workers, RetryJob(w) PROVE WasLeased(i)
  <2>1. \A j \in HeldJobs(w) : [j EXCEPT !.owner = None, !.expired = FALSE].owner = None
    BY DEF TypeOK, Jobs, HeldJobs
  <2>2. QED
    BY <1>5, <2>1 DEF WasLeased, RetryJob
<1>6. ASSUME NEW w \in Workers, StoreResult(w) PROVE WasLeased(i)
  <2>1. CASE CompleteAndEnqueue(w)
    BY <2>1, <1>2 DEF CompleteAndEnqueue
  <2>2. CASE FailAndRollBack(w)
    BY <2>2, <1>2 DEF FailAndRollBack
  <2>3. CASE CompleteAndOpenGate(w) \/ CompleteRollback(w) \/ FailRun(w) \/ StaleResult(w)
    BY <2>3, <1>1 DEF CompleteAndOpenGate, CompleteRollback, FailRun, StaleResult, database, WasLeased
  <2>4. QED
    BY <1>5, <1>6, <2>1, <2>2, <2>3 DEF StoreResult
<1>7. ASSUME NEW w \in Workers, Worker(w)
      PROVE  WasLeased(i) \/ \E v \in Workers, j \in jobs : Claim(v, j) /\ i.owner = v
  <2>1. CASE \/ \E result \in {"succeeded", "failed"} : HandlerReturns(w, result)
             \/ HeartbeatRejected(w) \/ AbandonJob(w)
    BY <2>1, <1>1 DEF HandlerReturns, HeartbeatRejected, AbandonJob, database
  <2>2. QED
    BY <2>1, <1>4, <1>6, <1>7 DEF Worker
<1>8. CASE Failure \/ \E j \in jobs : LeaseRunsOut(j)
  <2>1. CASE \E w \in Workers : HeartbeatError(w) \/ StoreError(w) \/ Crash(w)
    BY <2>1, <1>1 DEF HeartbeatError, StoreError, Crash, database
  <2>2. QED
    BY <2>1, <1>3, <1>8 DEF Failure, LeaseRunsOut, HeartbeatLate
<1>9. ASSUME NEW r \in Runs, Administrator(r) PROVE WasLeased(i)
  <2>1. CASE CancelRun(r)
    <3>1. CASE CancelBeforeQuiesce(r)
      BY <3>1, <1>1 DEF CancelBeforeQuiesce, JobsRemoved, WasLeased
    <3>2. CASE CancelAfterQuiesce(r)
      BY <3>2, <1>2 DEF CancelAfterQuiesce, JobsRemoved
    <3>3. QED
      BY <2>1, <3>1, <3>2 DEF CancelRun
  <2>2. CASE RestoreSource(r)
    BY <2>2, <1>2 DEF RestoreSource
  <2>3. CASE ConfirmCutover(r) \/ ReconcileValidation(r) \/ DeleteRun(r)
    BY <2>3, <1>1 DEF ConfirmCutover, ReconcileValidation, DeleteRun, WasLeased
  <2>4. QED
    BY <1>9, <2>1, <2>2, <2>3 DEF Administrator
<1>10. CASE \/ \E p \in Plans, status \in PlanStatuses : Preflight(p, status)
            \/ \E p \in Plans, r \in Runs : Start(p, r)
            \/ \E previous \in Runs, r \in Runs : RetryRun(previous, r)
  BY <1>10, <1>1, <1>2 DEF Preflight, Start, RetryRun, ScheduleRun
<1>11. QED
  BY <1>1, <1>7, <1>8, <1>9, <1>10 DEF Next, vars

\* A scheduled run keeps its plan, and never goes forward again once it does not.
RunGoesOn(r) ==
  /\ run'[r].plan = run[r].plan /\ run'[r].status # "NONE"
  /\ Forward(r)' => Forward(r)

LEMMA RunsGoOn ==
  ASSUME TypeOK, JobInvariant, RunInvariant, [Next]_vars, NEW r \in Runs, run[r].status # "NONE"
  PROVE  RunGoesOn(r)
<1> USE DEF RunGoesOn, Forward
<1>1. CASE run' = run
  BY <1>1
<1>2. ASSUME NEW q \in Runs, NEW status \in RunStatuses, NEW code, SetRun(q, status, code),
             status \notin ForwardStatuses
      PROVE  RunGoesOn(r)
  BY <1>2 DEF SetRun, TypeOK, RunRows, RunStatuses
<1>3. ASSUME NEW q \in Runs, NEW status \in RunStatuses, run' = [run EXCEPT ![q].status = status],
             status \in ForwardStatuses => Forward(q)
      PROVE  RunGoesOn(r)
  BY <1>3 DEF TypeOK, RunRows, RunStatuses
<1>4. ASSUME NEW w \in Workers, NEW j \in jobs, Claim(w, j) PROVE RunGoesOn(r)
  <2>1. j.run \in Runs /\ StatusForStep(j.step) \in RunStatuses
        /\ (StatusForStep(j.step) \in ForwardStatuses => Forward(j.run))
    <3>1. /\ j.run \in Runs /\ j.step \in StepKeys /\ JobIsConsistent(j)
          /\ run[j.run].status \in ForwardStatuses \cup {"ROLLING_BACK"}
      BY <1>4, OnlyJob
    <3>2. CASE run[j.run].status = "ROLLING_BACK"
      BY <3>1, <3>2, KeysAreSteps DEF JobIsConsistent, RecoverySteps, StatusForStep, ForwardStatuses,
         PipelineSteps
    <3>3. QED
      BY <3>1, <3>2, KeysAreSteps
  <2>2. QED
    BY <1>4, <2>1, <1>3 DEF Claim
<1>5. ASSUME NEW w \in Workers, StoreResult(w) PROVE RunGoesOn(r)
  <2>1. CASE CompleteAndEnqueue(w) \/ RetryJob(w) \/ StaleResult(w)
    BY <2>1, <1>1 DEF CompleteAndEnqueue, RetryJob, StaleResult, database
  <2>2. CASE CompleteAndOpenGate(w)
    <3>1. PICK q \in Runs, k \in StepKeys : q = claim[w].run /\ k = claim[w].step
      BY <2>2, HeldRun DEF CompleteAndOpenGate
    <3>2. "AWAIT_CUTOVER" \in StepKeys /\ "AWAITING_CUTOVER" \in RunStatuses
      BY DEF StepKeys, PipelineSteps, RunStatuses
    <3>3. Forward(q)
      BY <2>2, <3>1, <3>2, HeldIsForward, HeldStep DEF CompleteAndOpenGate
    <3>4. QED
      BY <2>2, <3>1, <3>2, <3>3, <1>3 DEF CompleteAndOpenGate
  <2>3. CASE CompleteRollback(w)
    <3>1. PICK q \in Runs, k \in StepKeys : q = claim[w].run /\ k = claim[w].step
      BY <2>3, HeldRun DEF CompleteRollback
    <3>2. AfterRollback(run[q].code).run \in {"CANCELLED", "COMPLETED", "FAILED"}
      BY DEF AfterRollback
    <3>3. \A status \in {"CANCELLED", "COMPLETED", "FAILED"} :
            status \in RunStatuses /\ status \notin ForwardStatuses
      BY DEF RunStatuses, ForwardStatuses, PipelineSteps
    <3>4. QED
      BY <2>3, <3>1, <3>2, <3>3, <1>2 DEF CompleteRollback
  <2>4. CASE FailRun(w) \/ FailAndRollBack(w)
    <3>1. PICK q \in Runs, k \in StepKeys : q = claim[w].run /\ k = claim[w].step
      BY <2>4, HeldRun DEF FailRun, FailAndRollBack
    <3>2. \A status \in {"FAILED", "ROLLING_BACK"} :
            status \in RunStatuses /\ status \notin ForwardStatuses
      BY DEF RunStatuses, ForwardStatuses, PipelineSteps
    <3>3. QED
      BY <2>4, <3>1, <3>2, <1>2 DEF FailRun, FailAndRollBack
  <2>5. QED
    BY <1>5, <2>1, <2>2, <2>3, <2>4 DEF StoreResult
<1>6. ASSUME NEW w \in Workers, Worker(w) PROVE RunGoesOn(r)
  <2>1. CASE \/ \E result \in {"succeeded", "failed"} : HandlerReturns(w, result)
             \/ HeartbeatRejected(w) \/ AbandonJob(w)
    BY <2>1, <1>1 DEF HandlerReturns, HeartbeatRejected, AbandonJob, database
  <2>2. QED
    BY <1>4, <1>5, <1>6, <2>1 DEF Worker
<1>7. CASE Failure \/ \E j \in jobs : LeaseRunsOut(j)
  BY <1>7, <1>1 DEF Failure, LeaseRunsOut, HeartbeatLate, Expire, HeartbeatError, StoreError,
     Crash, database
<1>8. ASSUME NEW q \in Runs, Administrator(q) PROVE RunGoesOn(r)
  <2>1. \A status \in {"CANCELLED", "COMPLETED", "ROLLING_BACK"} :
          status \in RunStatuses /\ status \notin ForwardStatuses
    BY DEF RunStatuses, ForwardStatuses, PipelineSteps
  <2>2. CASE ConfirmCutover(q)
    BY <2>1, <2>2, <1>3 DEF ConfirmCutover
  <2>3. CASE CancelRun(q) \/ RestoreSource(q) \/ ReconcileValidation(q)
    BY <2>1, <2>3, <1>2 DEF CancelRun, CancelBeforeQuiesce, CancelAfterQuiesce, RestoreSource,
       ReconcileValidation
  <2>4. QED
    BY <1>8, <2>2, <2>3, <1>1 DEF Administrator, DeleteRun
<1>9. ASSUME NEW p, NEW q \in Runs, ScheduleRun(p, q) PROVE RunGoesOn(r)
  BY <1>9 DEF ScheduleRun, TypeOK
<1>10. CASE \/ \E p \in Plans, status \in PlanStatuses : Preflight(p, status)
            \/ \E p \in Plans, q \in Runs : Start(p, q)
            \/ \E previous \in Runs, q \in Runs : RetryRun(previous, q)
  BY <1>10, <1>1, <1>9 DEF Preflight, Start, RetryRun
<1>11. QED
  BY <1>1, <1>6, <1>7, <1>8, <1>10 DEF Next, vars

\* A run that was not scheduled is scheduled, or stays as it is.
LEMMA RunsAreScheduled ==
  ASSUME TypeOK, JobInvariant, RunInvariant, [Next]_vars, NEW r \in Runs, run[r].status = "NONE"
  PROVE  run'[r] = run[r] \/ \E p \in Plans : ScheduleRun(p, r)
<1>1. CASE run' = run
  BY <1>1
<1>2. ASSUME NEW q \in Runs, q # r, NEW row, run' = [run EXCEPT ![q] = row]
      PROVE  run'[r] = run[r]
  BY <1>2 DEF TypeOK
<1>3. ASSUME NEW q \in Runs, q # r, NEW status, NEW code, SetRun(q, status, code)
      PROVE  run'[r] = run[r]
  BY <1>3 DEF TypeOK, SetRun
<1>4. ASSUME NEW q \in Runs, q # r, NEW status, run' = [run EXCEPT ![q].status = status]
      PROVE  run'[r] = run[r]
  BY <1>4 DEF TypeOK
<1>5. ASSUME NEW p \in Plans, NEW q \in Runs, ScheduleRun(p, q)
      PROVE  run'[r] = run[r] \/ ScheduleRun(p, r)
  BY <1>5, <1>2 DEF ScheduleRun
<1>6. ASSUME NEW w \in Workers, NEW j \in jobs, Claim(w, j) PROVE run'[r] = run[r]
  <2>1. j.run \in Runs /\ j.run # r
    <3>1. run[j.run].status \in ForwardStatuses \cup {"ROLLING_BACK"} /\ j.run \in Runs
      BY OnlyJob
    <3>2. QED
      BY <3>1 DEF ForwardStatuses, PipelineSteps
  <2>2. QED
    BY <1>4, <1>6, <2>1 DEF Claim
<1>7. ASSUME NEW w \in Workers, HeldJobs(w) # {}, StoreResult(w) PROVE run'[r] = run[r]
  <2>1. PICK q \in Runs, k \in StepKeys : q = claim[w].run /\ k = claim[w].step
    BY <1>7, HeldRun
  <2>2. q # r
    <3>1. run[q].status = StatusForStep(k)
      BY <1>7, <2>1, HeldStep
    <3>2. StatusForStep(k) # "NONE"
      BY KeysAreSteps DEF RunStatuses
    <3>3. QED
      BY <3>1, <3>2
  <2>3. QED
    BY <1>7, <2>1, <2>2, <1>3, <1>4 DEF StoreResult, CompleteAndEnqueue, CompleteAndOpenGate,
       CompleteRollback, RetryJob, FailRun, FailAndRollBack, StaleResult, database
<1>8. ASSUME NEW w \in Workers, Worker(w) PROVE run'[r] = run[r]
  <2>1. CASE \/ \E result \in {"succeeded", "failed"} : HandlerReturns(w, result)
             \/ HeartbeatRejected(w) \/ AbandonJob(w) \/ StaleResult(w)
    BY <2>1, <1>1 DEF HandlerReturns, HeartbeatRejected, AbandonJob, StaleResult, database
  <2>2. CASE StoreResult(w) /\ ~StaleResult(w)
    BY <2>2, <1>7 DEF StoreResult, CompleteAndEnqueue, CompleteAndOpenGate,
       CompleteRollback, RetryJob, FailRun, FailAndRollBack
  <2>3. QED
    BY <1>6, <1>8, <2>1, <2>2 DEF Worker, StoreResult
<1>9. CASE Failure \/ \E j \in jobs : LeaseRunsOut(j)
  BY <1>9, <1>1 DEF Failure, LeaseRunsOut, HeartbeatLate, Expire, HeartbeatError, StoreError,
     Crash, database
<1>10. ASSUME NEW q \in Runs, Administrator(q) PROVE run'[r] = run[r]
  <2>1. CASE DeleteRun(q)
    BY <2>1, <1>1 DEF DeleteRun
  <2>2. CASE CancelRun(q) \/ RestoreSource(q) \/ ConfirmCutover(q) \/ ReconcileValidation(q)
    <3>1. q # r
      BY <2>2 DEF CancelRun, Active, RestoreSource, ConfirmCutover, AtGate, ReconcileValidation,
         RunStatuses
    <3>2. QED
      BY <2>2, <3>1, <1>3, <1>4 DEF CancelRun, CancelBeforeQuiesce, CancelAfterQuiesce,
         RestoreSource, ConfirmCutover, ReconcileValidation
  <2>3. QED
    BY <1>10, <2>1, <2>2 DEF Administrator
<1>11. CASE \/ \E p \in Plans, status \in PlanStatuses : Preflight(p, status)
            \/ \E p \in Plans, q \in Runs : Start(p, q)
            \/ \E previous \in Runs, q \in Runs : RetryRun(previous, q)
  <2>1. ASSUME NEW previous \in Runs, NEW q \in Runs, RetryRun(previous, q)
        PROVE  run'[r] = run[r] \/ \E p \in Plans : ScheduleRun(p, r)
    BY <2>1, <1>5, EndedIsScheduled DEF RetryRun
  <2>2. QED
    BY <1>11, <1>1, <1>5, <2>1 DEF Preflight, Start
<1>12. QED
  BY <1>1, <1>8, <1>9, <1>10, <1>11 DEF Next, vars

\* A step that stops or restarts the source succeeds when the worker that holds
\* its job reports that its handler did.
IsReported(r, k) ==
  \E w \in Workers :
    phase[w] = "succeeded" /\ HeldJobs(w) # {} /\ claim[w].run = r /\ claim[w].step = k

SourceStepKeys == {"QUIESCE"} \cup RecoverySteps

LEMMA StepsAreReported ==
  ASSUME TypeOK, JobInvariant, RunInvariant, [Next]_vars, NEW r \in Runs,
         NEW k \in SourceStepKeys, steps'[r][k] = "SUCCEEDED"
  PROVE  steps[r][k] = "SUCCEEDED" \/ IsReported(r, k)
<1> k \in StepKeys /\ k \notin {"AWAIT_CUTOVER", "VALIDATION"}
  BY DEF SourceStepKeys, StepKeys, PipelineSteps, RecoverySteps
<1>1. CASE steps' = steps
  BY <1>1
<1>2. ASSUME NEW q \in Runs, NEW m \in StepKeys, NEW status,
             steps' = [steps EXCEPT ![q][m] = status], status # "SUCCEEDED" \/ m # k
      PROVE  steps[r][k] = "SUCCEEDED"
  BY <1>2 DEF TypeOK, StepRows
<1>3. ASSUME NEW q \in Runs, NEW row, steps' = [steps EXCEPT ![q] = row],
             row[k] = "SUCCEEDED" => steps[q][k] = "SUCCEEDED"
      PROVE  steps[r][k] = "SUCCEEDED"
  BY <1>3 DEF TypeOK
<1>4. ASSUME NEW w \in Workers, NEW j \in jobs, Claim(w, j) PROVE steps[r][k] = "SUCCEEDED"
  BY <1>4, <1>2, OnlyJob DEF Claim
<1>5. ASSUME NEW w \in Workers, HeldJobs(w) # {}, StoreResult(w)
      PROVE  steps[r][k] = "SUCCEEDED" \/ IsReported(r, k)
  <2>1. PICK q \in Runs, n \in StepKeys : q = claim[w].run /\ n = claim[w].step
    BY <1>5, HeldRun
  <2>2. CASE RetryJob(w) \/ FailRun(w)
    <3>1. \E status \in {"PENDING", "FAILED"} : steps' = [steps EXCEPT ![q][n] = status]
      BY <2>1, <2>2 DEF RetryJob, FailRun
    <3>2. QED
      BY <3>1, <1>2
  <2>3. CASE FailAndRollBack(w)
    BY <2>1, <2>3, <1>3 DEF FailAndRollBack
  <2>4. CASE CompleteAndEnqueue(w) \/ CompleteAndOpenGate(w) \/ CompleteRollback(w)
    <3>1. q # r \/ n # k => steps[r][k] = "SUCCEEDED"
      <4>1. CASE CompleteAndEnqueue(w) \/ CompleteRollback(w)
        <5>1. steps' = [steps EXCEPT ![q][n] = "SUCCEEDED"]
          BY <2>1, <4>1 DEF CompleteAndEnqueue, CompleteRollback
        <5>2. SUFFICES ASSUME q # r \/ n # k PROVE steps[r][k] = "SUCCEEDED"
          OBVIOUS
        <5>3. steps'[r][k] = steps[r][k]
          BY <5>1, <5>2 DEF TypeOK, StepRows
        <5>4. QED
          BY <5>3
      <4>2. CASE CompleteAndOpenGate(w)
        <5>1. steps' = [steps EXCEPT ![q][n] = "SUCCEEDED", ![q]["AWAIT_CUTOVER"] = "RUNNING"]
          BY <2>1, <4>2 DEF CompleteAndOpenGate
        <5>2. QED
          BY <5>1 DEF TypeOK, StepRows
      <4>3. QED
        BY <2>4, <4>1, <4>2
    <3>2. phase[w] = "succeeded"
      BY <2>4 DEF CompleteAndEnqueue, CompleteAndOpenGate, CompleteRollback
    <3>3. QED
      BY <1>5, <2>1, <3>1, <3>2 DEF IsReported
  <2>5. QED
    BY <1>5, <2>2, <2>3, <2>4 DEF StoreResult, StaleResult
<1>6. ASSUME NEW w \in Workers, Worker(w)
      PROVE  steps[r][k] = "SUCCEEDED" \/ IsReported(r, k)
  <2>1. CASE \/ \E result \in {"succeeded", "failed"} : HandlerReturns(w, result)
             \/ HeartbeatRejected(w) \/ AbandonJob(w) \/ StaleResult(w)
    BY <2>1, <1>1 DEF HandlerReturns, HeartbeatRejected, AbandonJob, StaleResult, database
  <2>2. CASE StoreResult(w) /\ ~StaleResult(w)
    BY <2>2, <1>5 DEF StoreResult, CompleteAndEnqueue, CompleteAndOpenGate,
       CompleteRollback, RetryJob, FailRun, FailAndRollBack
  <2>3. QED
    BY <1>4, <1>6, <2>1, <2>2 DEF Worker, StoreResult
<1>7. CASE Failure \/ \E j \in jobs : LeaseRunsOut(j)
  BY <1>7, <1>1 DEF Failure, LeaseRunsOut, HeartbeatLate, Expire, HeartbeatError, StoreError,
     Crash, database
<1>8. ASSUME NEW q \in Runs, Administrator(q) PROVE steps[r][k] = "SUCCEEDED"
  <2>1. "VALIDATION" \in StepKeys /\ "AWAIT_CUTOVER" \in StepKeys /\ "RESTORE_SOURCE" \in StepKeys
    BY DEF StepKeys, PipelineSteps, RecoverySteps
  <2>2. CASE CancelRun(q)
    BY <2>2, <1>3 DEF CancelRun, CancelBeforeQuiesce, CancelAfterQuiesce, SkipUnfinished
  <2>3. CASE RestoreSource(q) \/ ReconcileValidation(q)
    BY <2>1, <2>3, <1>2 DEF RestoreSource, ReconcileValidation
  <2>4. CASE ConfirmCutover(q)
    BY <2>1, <2>4 DEF ConfirmCutover, TypeOK, StepRows
  <2>5. QED
    BY <1>8, <2>2, <2>3, <2>4, <1>1 DEF Administrator, DeleteRun
<1>9. ASSUME NEW p, NEW q \in Runs, ScheduleRun(p, q) PROVE steps[r][k] = "SUCCEEDED"
  BY <1>9, <1>3 DEF ScheduleRun
<1>10. CASE \/ \E p \in Plans, status \in PlanStatuses : Preflight(p, status)
            \/ \E p \in Plans, q \in Runs : Start(p, q)
            \/ \E previous \in Runs, q \in Runs : RetryRun(previous, q)
  BY <1>10, <1>1, <1>9 DEF Preflight, Start, RetryRun
<1>11. QED
  BY <1>1, <1>6, <1>7, <1>8, <1>10 DEF Next, vars

-----------------------------------------------------------------------------
(***************************************************************************)
(* A step of the queue keeps SourceInvariant.                              *)
(***************************************************************************)
Invariants == TypeOK /\ JobInvariant /\ RunInvariant /\ SourceTypeOK /\ SourceInvariant

LEMMA SourceInitTyped == SourceInit => SourceTypeOK
  BY DEF SourceInit, SourceTypeOK, Sources, Handlers, Stages, At

LEMMA JobsStepTyped ==
  ASSUME SourceTypeOK, JobsStep
  PROVE  SourceTypeOK'
<1>1. \A stage \in Stages : At(stage) \in Handlers
  BY DEF At, Handlers
<1>2. "begin" \in Stages /\ "done" \in Stages
  BY DEF Stages
<1>3. \A key : FirstStage(key) \in Handlers
  BY <1>1, <1>2 DEF FirstStage
<1>4. handler' \in [Workers -> Handlers]
  BY <1>1, <1>2, <1>3 DEF JobsStep, SourceTypeOK
<1>5. QED
  BY <1>4 DEF JobsStep, SourceTypeOK, sourceVars

\* A handler that has returned without an error, or not yet, has begun, or is
\* where it was; and its worker has the job only if it had it.
HandlerGoesOn(w) ==
  /\ claim'[w] = claim[w]
  /\ phase[w] \in {"handling", "succeeded"}
  /\ handler'[w].stage = handler[w].stage
  /\ handler[w].stage # "done" => phase[w] = "handling" /\ handler'[w] = handler[w]
  /\ HeldJobs(w)' # {} => HeldJobs(w) # {}

LEMMA HandlersGoOn ==
  ASSUME Invariants, JobsStep, NEW w \in Workers, phase'[w] \in {"handling", "succeeded"}
  PROVE  \/ HandlerGoesOn(w)
         \/ /\ phase'[w] = "handling" /\ handler'[w] = FirstStage(claim'[w].step)
            /\ \E j \in jobs : Claim(w, j)
<1>1. TypeOK /\ HandlerIsConsistent(w) /\ [Next]_vars
  BY DEF Invariants, SourceInvariant, JobsStep
<1>2. /\ phase[w] = "handling" /\ phase'[w] = "succeeded" => handler[w].stage = "done"
      /\ handler'[w] = CASE phase[w] = "idle" /\ phase'[w] = "handling" -> FirstStage(claim'[w].step)
                         [] phase[w] = "handling" /\ phase'[w] = "handling" -> handler[w]
                         [] OTHER -> At("done")
  BY DEF JobsStep
<1>3. CASE \E j \in jobs : Claim(w, j)
  <2>1. phase[w] = "idle" /\ phase'[w] = "handling"
    BY <1>1, <1>3 DEF Claim, TypeOK
  <2>2. QED
    BY <1>2, <1>3, <2>1
<1>4. CASE WorkerGoesOn(w) /\ ~\E j \in jobs : Claim(w, j)
  <2>1. claim'[w] = claim[w] /\ phase[w] \in {"handling", phase'[w]}
    BY <1>4 DEF WorkerGoesOn
  <2>2. phase[w] # "handling" => handler[w].stage = "done"
    BY <1>1 DEF HandlerIsConsistent
  <2>3. handler'[w].stage = handler[w].stage
        /\ (handler[w].stage # "done" => phase[w] = "handling" /\ handler'[w] = handler[w])
    BY <1>2, <2>1, <2>2 DEF At
  <2>4. ASSUME NEW i \in HeldJobs(w)' PROVE HeldJobs(w) # {}
    <3>1. i \in jobs' /\ i.owner = w /\ i.run = claim[w].run /\ i.step = claim[w].step
      BY <2>1 DEF HeldJobs
    <3>2. WasLeased(i)
      BY <1>1, <1>4, <3>1, LeasesAreClaimed, WorkerAssumption
    <3>3. QED
      BY <3>1, <3>2 DEF WasLeased, HeldJobs
  <2>5. QED
    BY <2>1, <2>3, <2>4 DEF HandlerGoesOn
<1>5. QED
  BY <1>1, <1>3, <1>4, WorkersAreStarted

\* A worker that is not idle works on a scheduled run.
LEMMA WorksOnScheduled ==
  ASSUME Invariants, NEW w \in Workers, phase[w] # "idle"
  PROVE  claim[w].run \in Runs /\ run[claim[w].run].status # "NONE"
         /\ PlanOf(w) \in Plans
<1>1. claim[w].run \in Runs /\ run[claim[w].run].status # "NONE"
  BY ClaimKnown DEF Invariants, SourceInvariant, HandlerIsConsistent
<1>2. QED
  BY <1>1 DEF Invariants, RunInvariant, RunIsConsistent, IsScheduled, PlanOf

LEMMA QueueKeepsHandlers ==
  ASSUME Invariants, JobsStep, NEW w \in Workers
  PROVE  HandlerIsConsistent(w)'
<1>0. /\ TypeOK /\ JobInvariant /\ RunInvariant /\ [Next]_vars /\ HandlerIsConsistent(w)
      /\ source' = source /\ snapshot' = snapshot
  BY DEF Invariants, SourceInvariant, JobsStep, sourceVars
<1>1. phase'[w] # "handling" => handler'[w].stage = "done"
  BY DEF JobsStep, At
<1>2. CASE \E j \in jobs : Claim(w, j)
  <2>1. PICK j \in jobs : Claim(w, j)
    BY <1>2
  <2>2. j.run \in Runs /\ j.step \in StepKeys
    BY <1>0, OnlyJob
  <2>3. phase[w] = "idle" /\ phase'[w] = "handling" /\ claim'[w].run = j.run
        /\ claim'[w].step = j.step
    BY <1>0, <2>1 DEF Claim, TypeOK
  <2>4. run'[j.run].status = StatusForStep(j.step)
    BY <1>0, <2>1, <2>2 DEF Claim, TypeOK, RunRows
  <2>5. /\ StatusForStep(j.step) # "NONE"
        /\ j.step \in RecoverySteps => StatusForStep(j.step) \notin ForwardStatuses
    BY <2>2, KeysAreSteps
       DEF RunStatuses, StatusForStep, ForwardStatuses, PipelineSteps, RecoverySteps
  <2>6. handler'[w].stage \in {"begin", "done"}
    BY <2>3 DEF JobsStep, FirstStage, At
  <2>7. QED
    BY <1>1, <2>3, <2>4, <2>5, <2>6 DEF HandlerIsConsistent, Forward
<1>3. CASE WorkerGoesOn(w) /\ phase'[w] # "idle"
  <2>1. claim'[w] = claim[w] /\ phase[w] # "idle"
    BY <1>3 DEF WorkerGoesOn
  <2>2. PICK r \in Runs : r = claim[w].run
    BY <2>1, WorksOnScheduled
  <2>3. RunGoesOn(r)
    BY <1>0, <2>1, <2>2, RunsGoOn, WorksOnScheduled
  <2>4. /\ NeedsStop(w)' <=> NeedsStop(w)
        /\ IsCompose(w)' <=> IsCompose(w)
        /\ HasSnapshot(w)' <=> HasSnapshot(w)
        /\ Ran(claim[w].run)' = Ran(claim[w].run)
    BY <1>0, <2>1, <2>2, <2>3 DEF NeedsStop, IsCompose, HasSnapshot, PlanOf, RunGoesOn, Ran
  <2>5. Target(w)' = Target(w)
    BY <2>1, <2>4 DEF Target
  <2>6. run'[claim'[w].run].status # "NONE"
    BY <2>1, <2>2, <2>3 DEF RunGoesOn
  <2>7. claim'[w].step \in RecoverySteps => ~Forward(claim[w].run)'
    <3>1. claim[w].step \in RecoverySteps => ~Forward(r)
      BY <1>0, <2>1, <2>2 DEF HandlerIsConsistent
    <3>2. Forward(claim[w].run)' <=> Forward(r)'
      BY <2>1, <2>2 DEF Forward
    <3>3. QED
      BY <2>1, <2>3, <3>1, <3>2 DEF RunGoesOn
  <2>8. CASE handler'[w].stage = "done"
    BY <2>6, <2>7, <2>8 DEF HandlerIsConsistent
  <2>9. CASE handler'[w].stage # "done"
    <3>1. phase'[w] = "handling" /\ phase[w] = "handling" /\ handler'[w] = handler[w]
      <4>1. HandlerGoesOn(w)
        BY <1>1, <2>1, <2>9, HandlersGoOn DEF Claim
      <4>2. QED
        BY <1>1, <2>9, <4>1 DEF HandlerGoesOn
    <3>2. QED
      BY <1>0, <2>1, <2>4, <2>5, <2>6, <2>7, <3>1 DEF HandlerIsConsistent
  <2>10. QED
    BY <2>8, <2>9
<1>4. CASE phase'[w] = "idle"
  BY <1>1, <1>4 DEF HandlerIsConsistent
<1>5. QED
  BY <1>0, <1>2, <1>3, <1>4, WorkersAreStarted

LEMMA UnscheduledHasNoPlan ==
  ASSUME Invariants, NEW r \in Runs
  PROVE  run[r].plan = None <=> run[r].status = "NONE"
  BY PlanAssumption DEF Invariants, RunInvariant, RunIsConsistent, Unscheduled, IsScheduled

LEMMA QueueKeepsRecords ==
  ASSUME Invariants, JobsStep, NEW r \in Runs
  PROVE  RecordIsConsistent(r)'
<1>1. /\ TypeOK /\ JobInvariant /\ RunInvariant /\ [Next]_vars /\ RecordIsConsistent(r)
      /\ source' = source /\ snapshot' = snapshot /\ events' = events
  BY DEF Invariants, SourceInvariant, JobsStep, sourceVars
<1>2. CASE run[r].status = "NONE"
  BY <1>1, <1>2 DEF RecordIsConsistent, StopRecorded
<1>3. CASE run[r].status # "NONE"
  <2>1. RunGoesOn(r)
    BY <1>1, <1>3, RunsGoOn
  <2>2. QED
    BY <1>1, <1>3, <2>1 DEF RecordIsConsistent, StopRecorded, RunGoesOn, Ran
<1>4. QED
  BY <1>2, <1>3

LEMMA QueueKeepsUntouched ==
  ASSUME Invariants, JobsStep, NEW p \in Plans
  PROVE  UntouchedSource(p)'
<1>1. /\ TypeOK /\ JobInvariant /\ RunInvariant /\ [Next]_vars /\ UntouchedSource(p)
      /\ source' = source /\ up' = up /\ running' = running
  BY DEF Invariants, SourceInvariant, JobsStep, sourceVars
<1>2. ASSUME NEW r \in Runs, run'[r].plan # p PROVE run[r].plan # p
  BY <1>1, <1>2, RunsGoOn, UnscheduledHasNoPlan, PlanAssumption DEF RunGoesOn
<1>3. QED
  BY <1>1, <1>2 DEF UntouchedSource, Undisturbed

\* A run that is its plan's only run after a step was so before, or is new.
LEMMA OnlyRunStays ==
  ASSUME Invariants, JobsStep, NEW r \in Runs, IsOnlyRun(r)', run[r].status # "NONE"
  PROVE  IsOnlyRun(r) /\ RunGoesOn(r)
<1>1. TypeOK /\ JobInvariant /\ RunInvariant /\ [Next]_vars
  BY DEF Invariants, JobsStep
<1>2. RunGoesOn(r) /\ run[r].plan \in Plans /\ run[r].status \in RunStatuses
  BY <1>1, RunsGoOn DEF RunInvariant, RunIsConsistent, IsScheduled, TypeOK, RunRows
<1>3. ASSUME NEW other \in Runs \ {r} PROVE run[other].plan # run[r].plan
  <2>1. run'[other].plan # run'[r].plan
    BY DEF IsOnlyRun
  <2>2. QED
    BY <1>1, <1>2, <2>1, RunsGoOn, UnscheduledHasNoPlan, PlanAssumption DEF RunGoesOn
<1>4. QED
  BY <1>2, <1>3 DEF IsOnlyRun

LEMMA NewRunIsUntouched ==
  ASSUME Invariants, JobsStep, NEW r \in Runs, IsOnlyRun(r)', run[r].status = "NONE"
  PROVE  /\ Undisturbed(run[r].plan)' /\ Restored(r)'
         /\ snapshot'[r] = {} /\ events'[r] = {}
         /\ \A k \in SourceStepKeys : steps'[r][k] # "SUCCEEDED"
         /\ \A w \in Workers : phase'[w] # "idle" => claim'[w].run # r
<1>1. /\ TypeOK /\ JobInvariant /\ RunInvariant /\ [Next]_vars /\ RecordIsConsistent(r)
      /\ \A p \in Plans : UntouchedSource(p)
      /\ source' = source /\ up' = up /\ running' = running
      /\ snapshot' = snapshot /\ events' = events
  BY DEF Invariants, SourceInvariant, JobsStep, sourceVars
<1>2. PICK p \in Plans : ScheduleRun(p, r)
  <2>1. run'[r] # run[r]
    BY DEF IsOnlyRun, RunStatuses
  <2>2. QED
    BY <1>1, <2>1, RunsAreScheduled
<1>3. run'[r].plan = p /\ \A q \in Runs : q # r => run'[q] = run[q]
  BY <1>1, <1>2 DEF ScheduleRun, TypeOK
<1>4. ASSUME NEW q \in Runs PROVE run[q].plan # p
  BY <1>3, UnscheduledHasNoPlan, PlanAssumption DEF IsOnlyRun
<1>5. Undisturbed(p)
  BY <1>1, <1>4 DEF UntouchedSource
<1>6. Undisturbed(run[r].plan)' /\ Restored(r)'
  BY <1>1, <1>3, <1>5 DEF Before, Restored, Undisturbed
<1>7. \A k \in SourceStepKeys : steps'[r][k] # "SUCCEEDED"
  <2>1. \A k \in SourceStepKeys : k \in StepKeys
    BY DEF SourceStepKeys, StepKeys, PipelineSteps
  <2>2. QED
    BY <1>1, <1>2, <2>1 DEF ScheduleRun, TypeOK
<1>8. ASSUME NEW w \in Workers, phase'[w] # "idle" PROVE claim'[w].run # r
  <2>1. phase' = phase /\ claim' = claim
    BY <1>2 DEF ScheduleRun
  <2>2. QED
    BY <1>8, <2>1, WorksOnScheduled
<1>9. QED
  BY <1>1, <1>6, <1>7, <1>8 DEF RecordIsConsistent

\* A handler that stops or starts a source has begun now, or goes on.
LEMMA HandlesOrBegins ==
  ASSUME Invariants, JobsStep, NEW w \in Workers, NEW r, NEW keys \in SUBSET SourceSteps,
         Handles(w, r, keys)'
  PROVE  \/ handler'[w].stage = "begin"
         \/ Handles(w, r, keys) /\ HandlerGoesOn(w)
<1>1. phase'[w] \in {"handling", "succeeded"} /\ claim'[w].run = r /\ claim'[w].step \in keys
  BY DEF Handles
<1>2. CASE HandlerGoesOn(w)
  BY <1>1, <1>2 DEF HandlerGoesOn, Handles
<1>3. CASE handler'[w] = FirstStage(claim'[w].step)
  BY <1>1, <1>3 DEF FirstStage, At
<1>4. QED
  BY <1>1, <1>2, <1>3, HandlersGoOn

LEMMA StepsOfTheSource == {"QUIESCE"} \in SUBSET SourceSteps /\ RecoverySteps \in SUBSET SourceSteps
  BY DEF SourceSteps

LEMMA QueueKeepsOriginal ==
  ASSUME Invariants, JobsStep, NEW r \in Runs, IsOnlyRun(r)'
  PROVE  OriginalIsKept(r)'
<1>1. source' = source /\ up' = up /\ running' = running /\ snapshot' = snapshot
  BY DEF JobsStep, sourceVars
<1>2. CASE run[r].status = "NONE"
  <2>1. \A w \in Workers : StoresOriginal(w, r)'
    BY <1>2, NewRunIsUntouched DEF StoresOriginal, Handles
  <2>2. QED
    BY <1>2, <2>1, NewRunIsUntouched DEF OriginalIsKept, Undisturbed
<1>3. CASE run[r].status # "NONE"
  <2>1. IsOnlyRun(r) /\ RunGoesOn(r)
    BY <1>3, OnlyRunStays
  <2>2. OriginalIsKept(r)
    BY <2>1 DEF Invariants, SourceInvariant
  <2>3. Before(r)' = Before(r) /\ run'[r].plan = run[r].plan
    BY <1>1, <2>1 DEF Before, RunGoesOn
  <2>4. ASSUME NEW w \in Workers PROVE StoresOriginal(w, r)'
    <3>1. SUFFICES ASSUME Handles(w, r, {"QUIESCE"})', handler'[w].stage = "listed", snapshot[r] = {}
                   PROVE  handler'[w].want = Before(r)
      BY <1>1, <2>3 DEF StoresOriginal
    <3>2. Handles(w, r, {"QUIESCE"}) /\ HandlerGoesOn(w)
      BY <3>1, HandlesOrBegins, StepsOfTheSource
    <3>3. handler'[w] = handler[w]
      BY <3>1, <3>2 DEF HandlerGoesOn
    <3>4. QED
      BY <2>2, <3>1, <3>2, <3>3 DEF OriginalIsKept, Undisturbed, StoresOriginal
  <2>5. QED
    BY <1>1, <2>2, <2>3, <2>4 DEF OriginalIsKept, Undisturbed, Rows
<1>4. QED
  BY <1>2, <1>3

LEMMA QueueKeepsStopped ==
  ASSUME Invariants, JobsStep, NEW r \in Runs, IsOnlyRun(r)', Forward(r)'
  PROVE  StoppedStaysStopped(r)'
<1>1. /\ source' = source /\ up' = up /\ running' = running /\ events' = events
      /\ TypeOK /\ JobInvariant /\ RunInvariant /\ [Next]_vars
  BY DEF Invariants, JobsStep, sourceVars
<1>2. CASE run[r].status = "NONE"
  <2>1. \A w \in Workers : HasStopped(w, r)'
    BY <1>2, NewRunIsUntouched DEF HasStopped, Stopped, Handles
  <2>2. steps'[r]["QUIESCE"] # "SUCCEEDED" /\ ~StopRecorded(r)'
    BY <1>2, NewRunIsUntouched DEF SourceStepKeys, StopRecorded
  <2>3. QED
    BY <2>1, <2>2 DEF StoppedStaysStopped, Stopped
<1>3. CASE run[r].status # "NONE"
  <2>1. IsOnlyRun(r) /\ RunGoesOn(r) /\ Forward(r)
    BY <1>3, OnlyRunStays DEF RunGoesOn
  <2>2. StoppedStaysStopped(r) /\ \A w \in Workers : HandlerIsConsistent(w)
    BY <2>1 DEF Invariants, SourceInvariant
  <2>3. run'[r].plan = run[r].plan /\ (StopRecorded(r)' <=> StopRecorded(r))
    BY <1>1, <2>1 DEF StopRecorded, RunGoesOn
  <2>4. ASSUME NEW w \in Workers, Handles(w, r, {"QUIESCE"}), HandlerGoesOn(w)
        PROVE  NeedsStop(w)' <=> NeedsStop(w)
    BY <1>1, <2>3, <2>4 DEF Handles, NeedsStop, PlanOf, HandlerGoesOn
  <2>5. ASSUME NEW w \in Workers PROVE HasStopped(w, r)'
    <3>1. SUFFICES ASSUME Handles(w, r, {"QUIESCE"}), HandlerGoesOn(w) PROVE HasStopped(w, r)'
      BY HandlesOrBegins, StepsOfTheSource DEF HasStopped, Stopped
    <3>2. /\ handler'[w].stage = handler[w].stage
          /\ handler[w].stage # "done" => handler'[w] = handler[w]
      BY <3>1 DEF HandlerGoesOn
    <3>3. HasStopped(w, r) /\ (NeedsStop(w)' <=> NeedsStop(w))
      BY <2>2, <2>4, <3>1 DEF StoppedStaysStopped, Stopped
    <3>4. QED
      BY <1>1, <2>3, <3>1, <3>2, <3>3 DEF HasStopped, Stopped
  <2>6. source[run[r].plan].stateful /\ steps'[r]["QUIESCE"] = "SUCCEEDED" => Stopped(run[r].plan)
    <3>1. SUFFICES ASSUME source[run[r].plan].stateful, IsReported(r, "QUIESCE")
                   PROVE  Stopped(run[r].plan)
      BY <1>1, <2>2, StepsAreReported DEF StoppedStaysStopped, SourceStepKeys
    <3>2. PICK w \in Workers : phase[w] = "succeeded" /\ claim[w].run = r /\ claim[w].step = "QUIESCE"
      BY <3>1 DEF IsReported
    <3>3. handler[w].stage = "done" /\ NeedsStop(w) /\ Handles(w, r, {"QUIESCE"})
      BY <2>2, <3>1, <3>2 DEF HandlerIsConsistent, NeedsStop, PlanOf, Handles
    <3>4. QED
      BY <2>2, <3>3 DEF StoppedStaysStopped, HasStopped
  <2>7. QED
    BY <1>1, <2>2, <2>3, <2>5, <2>6 DEF StoppedStaysStopped, Stopped
<1>4. QED
  BY <1>2, <1>3

LEMMA QueueKeepsStarted ==
  ASSUME Invariants, JobsStep, NEW r \in Runs, IsOnlyRun(r)', r \notin overtaken'
  PROVE  StartedStaysStarted(r)'
<1>1. /\ source' = source /\ up' = up /\ running' = running
      /\ events' = events /\ overtaken' = overtaken
      /\ TypeOK /\ JobInvariant /\ RunInvariant /\ [Next]_vars
  BY DEF Invariants, JobsStep, sourceVars
<1>2. CASE run[r].status = "NONE"
  <2>1. \A w \in Workers : HasStarted(w, r)'
    BY <1>2, NewRunIsUntouched DEF HasStarted, Handles
  <2>2. Restored(r)'
    BY <1>2, NewRunIsUntouched
  <2>3. QED
    BY <2>1, <2>2 DEF StartedStaysStarted
<1>3. CASE run[r].status # "NONE"
  <2>1. IsOnlyRun(r) /\ RunGoesOn(r)
    BY <1>3, OnlyRunStays
  <2>2. StartedStaysStarted(r) /\ \A w \in Workers : HandlerIsConsistent(w)
    BY <1>1, <2>1 DEF Invariants, SourceInvariant
  <2>3. /\ run'[r].plan = run[r].plan /\ Before(r)' = Before(r)
        /\ Restored(r)' <=> Restored(r)
        /\ Restartable(r)' <=> Restartable(r)
    BY <1>1, <2>1 DEF StopRecorded, RunGoesOn, Before, Restored, Restartable
  <2>4. ASSUME NEW w \in Workers PROVE HasStarted(w, r)'
    <3>1. SUFFICES ASSUME Handles(w, r, RecoverySteps), HandlerGoesOn(w), HeldJobs(w)' # {}
                   PROVE  HasStarted(w, r)'
      BY HandlesOrBegins, StepsOfTheSource DEF HasStarted
    <3>2. /\ handler'[w].stage = handler[w].stage /\ HeldJobs(w) # {}
          /\ handler[w].stage # "done" => handler'[w] = handler[w]
      BY <3>1 DEF HandlerGoesOn
    <3>3. HasStarted(w, r)
      BY <2>2 DEF StartedStaysStarted
    <3>4. QED
      BY <1>1, <2>3, <3>1, <3>2, <3>3 DEF HasStarted
  <2>5. ASSUME NEW k \in RecoverySteps, steps'[r][k] = "SUCCEEDED", Restartable(r)
        PROVE  Restored(r)
    <3>1. SUFFICES ASSUME IsReported(r, k) PROVE Restored(r)
      BY <1>1, <2>2, <2>5, StepsAreReported DEF StartedStaysStarted, SourceStepKeys
    <3>2. PICK w \in Workers : phase[w] = "succeeded" /\ HeldJobs(w) # {} /\ claim[w].run = r
                               /\ claim[w].step = k
      BY <3>1 DEF IsReported
    <3>3. handler[w].stage = "done" /\ Handles(w, r, RecoverySteps)
      BY <2>2, <3>2 DEF HandlerIsConsistent, Handles
    <3>4. QED
      BY <2>2, <2>5, <3>2, <3>3 DEF StartedStaysStarted, HasStarted
  <2>6. QED
    BY <1>1, <2>2, <2>3, <2>4, <2>5 DEF StartedStaysStarted
<1>4. QED
  BY <1>2, <1>3

LEMMA QueueKeepsInvariant ==
  ASSUME Invariants, JobsStep
  PROVE  SourceInvariant'
  BY QueueKeepsHandlers, QueueKeepsRecords, QueueKeepsUntouched, QueueKeepsOriginal,
     QueueKeepsStopped, QueueKeepsStarted DEF SourceInvariant

-----------------------------------------------------------------------------
(***************************************************************************)
(* A step of a handler keeps SourceInvariant.                              *)
(***************************************************************************)
LEMMA QueueRests ==
  ASSUME UNCHANGED vars, source' = source
  PROVE  /\ \A v : /\ PlanOf(v)' = PlanOf(v) /\ HeldJobs(v)' = HeldJobs(v)
                   /\ NeedsStop(v)' <=> NeedsStop(v)
                   /\ IsCompose(v)' <=> IsCompose(v)
         /\ \A r : /\ IsOnlyRun(r)' <=> IsOnlyRun(r)
                   /\ Forward(r)' <=> Forward(r)
                   /\ Before(r)' = Before(r)
         /\ \A v, r, keys : Handles(v, r, keys)' <=> Handles(v, r, keys)
<1>1. \A v : /\ PlanOf(v)' = PlanOf(v) /\ HeldJobs(v)' = HeldJobs(v)
             /\ NeedsStop(v)' <=> NeedsStop(v)
             /\ IsCompose(v)' <=> IsCompose(v)
  BY DEF vars, PlanOf, NeedsStop, IsCompose, HeldJobs
<1>2. \A r : /\ IsOnlyRun(r)' <=> IsOnlyRun(r)
             /\ Forward(r)' <=> Forward(r)
             /\ Before(r)' = Before(r)
  BY DEF vars, IsOnlyRun, Forward, Before
<1>3. \A v, r, keys : Handles(v, r, keys)' <=> Handles(v, r, keys)
  BY DEF vars, Handles
<1>4. QED
  BY <1>1, <1>2, <1>3

\* The parts of the invariant that are about one worker and the run it works on.
PartsOf(w, r) ==
  /\ StoresOriginal(w, r)
  /\ Forward(r) => HasStopped(w, r)
  /\ r \notin overtaken => HasStarted(w, r)

\* A step of a handler that changes nothing outside the worker.
LEMMA WorkerMoves ==
  ASSUME Invariants, NEW w \in Workers, UNCHANGED vars, UNCHANGED sourceVars,
         \A v \in Workers : v # w => handler'[v] = handler[v],
         HandlerIsConsistent(w)',
         \A r \in Runs : IsOnlyRun(r) /\ claim[w].run = r => PartsOf(w, r)'
  PROVE  SourceInvariant'
<1>1. /\ source' = source /\ up' = up /\ running' = running
      /\ snapshot' = snapshot /\ events' = events
      /\ overtaken' = overtaken
      /\ planStatus' = planStatus /\ run' = run /\ steps' = steps /\ jobs' = jobs
      /\ phase' = phase /\ claim' = claim
  BY DEF sourceVars, vars
<1>2. ASSUME NEW v \in Workers PROVE HandlerIsConsistent(v)'
  <2>1. CASE v # w
    <3>1. HandlerIsConsistent(v) /\ handler'[v] = handler[v]
      BY <2>1 DEF Invariants, SourceInvariant
    <3>2. Target(v)' = Target(v) /\ (HasSnapshot(v)' <=> HasSnapshot(v))
      BY <1>1 DEF Target, HasSnapshot, Ran, IsCompose, PlanOf
    <3>3. QED
      BY <1>1, <3>1, <3>2, QueueRests DEF HandlerIsConsistent
  <2>2. QED
    BY <2>1
<1>3. ASSUME NEW r \in Runs PROVE RecordIsConsistent(r)'
  <2>1. RecordIsConsistent(r)
    BY DEF Invariants, SourceInvariant
  <2>2. /\ Ran(r)' = Ran(r) /\ Rows(Ran(r))' = Rows(Ran(r))
        /\ StopRecorded(r)' <=> StopRecorded(r)
        /\ Forward(r)' <=> Forward(r)
    BY <1>1, QueueRests DEF Ran, Rows, StopRecorded
  <2>3. QED
    BY <1>1, <2>1, <2>2 DEF RecordIsConsistent
<1>4. ASSUME NEW p \in Plans PROVE UntouchedSource(p)'
  BY <1>1 DEF Invariants, SourceInvariant, UntouchedSource, Undisturbed
<1>5. ASSUME NEW r \in Runs, IsOnlyRun(r)'
      PROVE  /\ OriginalIsKept(r)'
             /\ Forward(r)' => StoppedStaysStopped(r)'
             /\ r \notin overtaken' => StartedStaysStarted(r)'
  <2>1. /\ IsOnlyRun(r) /\ OriginalIsKept(r)
        /\ Forward(r) => StoppedStaysStopped(r)
        /\ r \notin overtaken => StartedStaysStarted(r)
        /\ Forward(r)' <=> Forward(r)
        /\ Before(r)' = Before(r)
    BY <1>1, <1>5, QueueRests DEF Invariants, SourceInvariant
  <2>2. ASSUME NEW v \in Workers, v # w
        PROVE  /\ StoresOriginal(v, r)' <=> StoresOriginal(v, r)
               /\ HasStopped(v, r)' <=> HasStopped(v, r)
               /\ HasStarted(v, r)' <=> HasStarted(v, r)
    <3>1. handler'[v] = handler[v] /\ (NeedsStop(v)' <=> NeedsStop(v)) /\ HeldJobs(v)' = HeldJobs(v)
      BY <1>1, <2>2, QueueRests
    <3>2. StoresOriginal(v, r)' <=> StoresOriginal(v, r)
      BY <1>1, <2>1, <3>1 DEF StoresOriginal, Handles
    <3>3. HasStopped(v, r)' <=> HasStopped(v, r)
      BY <1>1, <3>1 DEF HasStopped, Stopped, Handles
    <3>4. HasStarted(v, r)' <=> HasStarted(v, r)
      BY <1>1, <2>1, <3>1 DEF HasStarted, Handles, Restored, Restartable, StopRecorded
    <3>5. QED
      BY <3>2, <3>3, <3>4
  <2>3. PartsOf(w, r)'
    <3>1. CASE claim[w].run = r
      BY <2>1, <3>1
    <3>2. CASE claim[w].run # r
      BY <1>1, <3>2 DEF PartsOf, StoresOriginal, HasStopped, Stopped, HasStarted, Handles
    <3>3. QED
      BY <3>1, <3>2
  <2>4. OriginalIsKept(r)'
    BY <1>1, <2>1, <2>2, <2>3 DEF OriginalIsKept, Undisturbed, PartsOf, Rows
  <2>5. Forward(r)' => StoppedStaysStopped(r)'
    BY <1>1, <2>1, <2>2, <2>3 DEF StoppedStaysStopped, Stopped, PartsOf, StopRecorded
  <2>6. r \notin overtaken' => StartedStaysStarted(r)'
    BY <1>1, <2>1, <2>2, <2>3 DEF StartedStaysStarted, PartsOf, Restored, Restartable, StopRecorded
  <2>7. QED
    BY <2>4, <2>5, <2>6
<1>6. QED
  BY <1>2, <1>3, <1>4, <1>5 DEF SourceInvariant

\* What a handler can rely on at a stage of it.
LEMMA AtWork ==
  ASSUME Invariants, NEW w \in Workers, NEW keys, NEW stage, AtStage(w, keys, stage)
  PROVE  /\ phase[w] = "handling" /\ claim[w].step \in keys /\ handler[w].stage = stage
         /\ HandlerIsConsistent(w)
         /\ handler[w] \in Handlers
         /\ \E r \in Runs : r = claim[w].run /\ RecordIsConsistent(r) /\ run[r].status # "NONE"
                            /\ run[r].plan \in Plans
<1>1. phase[w] = "handling" /\ claim[w].step \in keys /\ handler[w].stage = stage
  BY DEF AtStage
<1>2. claim[w].run \in Runs /\ run[claim[w].run].status # "NONE" /\ run[claim[w].run].plan \in Plans
  BY <1>1, WorksOnScheduled DEF PlanOf
<1>3. HandlerIsConsistent(w) /\ RecordIsConsistent(claim[w].run) /\ handler[w] \in Handlers
  BY <1>2 DEF Invariants, SourceInvariant, SourceTypeOK
<1>4. QED
  BY <1>1, <1>2, <1>3

\* A handler that goes on to a stage of which nothing is to be shown.
LEMMA GoesOnFreely ==
  ASSUME Invariants, NEW w \in Workers, NEW next, GoOn(w, next), UNCHANGED sourceVars,
         phase[w] = "handling", next.stage \in {"begin", "done"} \/
           (next.stage = "copying" /\ claim[w].step = "FINAL_BACKUP"),
         next.stage = "done" => claim[w].step \notin SourceStepKeys
  PROVE  SourceInvariant'
<1>1. /\ handler' = [handler EXCEPT ![w] = next] /\ UNCHANGED vars /\ source' = source
      /\ phase' = phase /\ claim' = claim /\ run' = run /\ overtaken' = overtaken
  BY DEF GoOn, sourceVars, vars
<1>2. handler'[w] = next /\ \A v \in Workers : v # w => handler'[v] = handler[v]
  BY <1>1 DEF Invariants, SourceTypeOK
<1>3. HandlerIsConsistent(w)'
  BY <1>1, <1>2 DEF HandlerIsConsistent, Invariants, SourceInvariant, Forward
<1>4. ASSUME NEW r \in Runs PROVE PartsOf(w, r)'
  BY <1>1, <1>2 DEF PartsOf, StoresOriginal, HasStopped, Stopped, HasStarted, Handles, SourceStepKeys,
     RecoverySteps
<1>5. QED
  BY <1>1, <1>2, <1>3, <1>4, WorkerMoves

LEMMA FinalBackupKeeps ==
  ASSUME Invariants, NEW w \in Workers,
         VeleroFinalBackup(w) \/ ComposeFinalBackup(w) \/ BackupCompletes(w)
  PROVE  SourceInvariant'
<1>1. phase[w] = "handling" /\ claim[w].step = "FINAL_BACKUP" /\ UNCHANGED sourceVars
  BY DEF VeleroFinalBackup, ComposeFinalBackup, BackupCompletes, AtStage
<1>2. \E stage \in {"copying", "done"} : GoOn(w, At(stage))
  BY DEF VeleroFinalBackup, ComposeFinalBackup, BackupCompletes
<1>3. QED
  BY <1>1, <1>2, GoesOnFreely DEF At, SourceStepKeys, RecoverySteps

LEMMA VeleroListKeeps ==
  ASSUME Invariants, NEW w \in Workers, VeleroList(w)
  PROVE  SourceInvariant'
<1> DEFINE listed == [At("listed") EXCEPT !.want = up[PlanOf(w)]]
           next == IF NeedsStop(w) THEN listed ELSE At("done")
<1>1. /\ phase[w] = "handling" /\ claim[w].step = "QUIESCE" /\ HandlerIsConsistent(w)
      /\ ~IsCompose(w) /\ GoOn(w, next) /\ UNCHANGED sourceVars
  BY AtWork DEF VeleroList
<1>2. /\ handler' = [handler EXCEPT ![w] = next] /\ UNCHANGED vars
      /\ source' = source /\ up' = up /\ running' = running /\ snapshot' = snapshot
      /\ overtaken' = overtaken /\ phase' = phase /\ claim' = claim /\ run' = run
  BY <1>1 DEF GoOn, sourceVars, vars
<1>3. handler'[w] = next /\ \A v \in Workers : v # w => handler'[v] = handler[v]
  BY <1>2 DEF Invariants, SourceTypeOK
<1>4. listed.stage = "listed" /\ listed.want = up[PlanOf(w)] /\ At("done").stage = "done"
  BY DEF At
<1>5. HandlerIsConsistent(w)'
  BY <1>1, <1>2, <1>3, <1>4, QueueRests DEF HandlerIsConsistent, Forward
<1>6. ASSUME NEW r \in Runs, IsOnlyRun(r), claim[w].run = r PROVE PartsOf(w, r)'
  <2>1. OriginalIsKept(r)
    BY <1>6 DEF Invariants, SourceInvariant
  <2>2. handler'[w].stage = "listed" /\ snapshot[r] = {} => up[PlanOf(w)] = Before(r)
    BY <1>1, <1>6, <2>1 DEF OriginalIsKept, Undisturbed, IsCompose, PlanOf, Before
  <2>3. StoresOriginal(w, r)'
    BY <1>2, <1>3, <1>4, <2>2 DEF StoresOriginal, Before
  <2>4. HasStopped(w, r)'
    BY <1>2, <1>3, <1>4, QueueRests DEF HasStopped, Stopped
  <2>5. HasStarted(w, r)'
    BY <1>1, <1>2 DEF HasStarted, Handles, RecoverySteps
  <2>6. QED
    BY <2>3, <2>4, <2>5 DEF PartsOf
<1>7. QED
  BY <1>1, <1>2, <1>3, <1>5, <1>6, WorkerMoves

LEMMA VeleroReadSnapshotKeeps ==
  ASSUME Invariants, NEW w \in Workers, VeleroReadSnapshot(w)
  PROVE  SourceInvariant'
<1>1. /\ phase[w] = "handling" /\ claim[w].step \in RecoverySteps /\ HandlerIsConsistent(w)
      /\ ~IsCompose(w) /\ UNCHANGED sourceVars
  BY AtWork DEF VeleroReadSnapshot
<1>2. PICK r \in Runs : r = claim[w].run /\ RecordIsConsistent(r)
  BY AtWork DEF VeleroReadSnapshot
<1>3. PICK next : /\ GoOn(w, next)
                  /\ \/ HasSnapshot(w) /\ next = Changing(Ran(r))
                     \/ ~NeedsStop(w) /\ next = At("done")
  BY <1>2 DEF VeleroReadSnapshot
<1>4. /\ handler' = [handler EXCEPT ![w] = next] /\ UNCHANGED vars
      /\ source' = source /\ up' = up /\ running' = running /\ snapshot' = snapshot
      /\ overtaken' = overtaken /\ phase' = phase /\ claim' = claim /\ run' = run
      /\ events' = events
  BY <1>1, <1>3 DEF GoOn, sourceVars, vars
<1>5. handler'[w] = next /\ \A v \in Workers : v # w => handler'[v] = handler[v]
  BY <1>4 DEF Invariants, SourceTypeOK
<1>6. /\ next.stage = "changing" => next.want = Ran(r) /\ next.todo = Workloads
      /\ next.stage = "done" => ~NeedsStop(w)
      /\ next.stage \in {"changing", "done"}
      /\ next.stage = "changing" => HasSnapshot(w) /\ NeedsStop(w)
  BY <1>2, <1>3 DEF At, Changing, HasSnapshot, NeedsStop, PlanOf, RecordIsConsistent
<1>7. Target(w)' = Ran(r) /\ (HasSnapshot(w)' <=> HasSnapshot(w))
  BY <1>1, <1>2, <1>4, QueueRests DEF Target, Ran, HasSnapshot, RecoverySteps
<1>8. HandlerIsConsistent(w)'
  BY <1>1, <1>4, <1>5, <1>6, <1>7, QueueRests DEF HandlerIsConsistent, Forward
<1>9. ASSUME IsOnlyRun(r) PROVE PartsOf(w, r)'
  <2>1. OriginalIsKept(r)
    BY <1>9 DEF Invariants, SourceInvariant
  <2>2. handler'[w].stage = "done" => Restored(r)'
    BY <1>2, <1>4, <1>5, <1>6, <2>1 DEF OriginalIsKept, Undisturbed, NeedsStop, PlanOf, Restored, Before
  <2>3. Before(r)' \subseteq Workloads
    BY <1>2, <1>4, AtWork DEF Before, Invariants, SourceTypeOK, Sources, VeleroReadSnapshot
  <2>4. HasStarted(w, r)'
    BY <1>5, <1>6, <2>2, <2>3 DEF HasStarted
  <2>5. StoresOriginal(w, r)' /\ HasStopped(w, r)'
    BY <1>1, <1>4 DEF StoresOriginal, HasStopped, Stopped, Handles, RecoverySteps
  <2>6. QED
    BY <2>4, <2>5 DEF PartsOf
<1>10. QED
  BY <1>1, <1>2, <1>4, <1>5, <1>8, <1>9, WorkerMoves

LEMMA ComposeQuiesceKeeps ==
  ASSUME Invariants, NEW w \in Workers, ComposeQuiesce(w)
  PROVE  SourceInvariant'
<1>1. /\ phase[w] = "handling" /\ claim[w].step = "QUIESCE" /\ HandlerIsConsistent(w)
      /\ IsCompose(w) /\ UNCHANGED sourceVars
  BY AtWork DEF ComposeQuiesce
<1>2. PICK r \in Runs : r = claim[w].run /\ run[r].plan \in Plans
  BY AtWork DEF ComposeQuiesce
<1>3. PICK next : /\ GoOn(w, next)
                  /\ \/ NeedsStop(w) /\ next = Changing({})
                     \/ (NeedsStop(w) => StopRecorded(r)) /\ next = At("done")
  BY <1>2 DEF ComposeQuiesce, Recorded, StopRecorded
<1>4. /\ handler' = [handler EXCEPT ![w] = next] /\ UNCHANGED vars
      /\ source' = source /\ up' = up /\ running' = running /\ snapshot' = snapshot
      /\ overtaken' = overtaken /\ phase' = phase /\ claim' = claim /\ run' = run
      /\ events' = events
  BY <1>1, <1>3 DEF GoOn, sourceVars, vars
<1>5. handler'[w] = next /\ \A v \in Workers : v # w => handler'[v] = handler[v]
  BY <1>4 DEF Invariants, SourceTypeOK
<1>6. /\ next.stage = "changing" => next.want = {} /\ next.todo = Workloads /\ NeedsStop(w)
      /\ next.stage = "done" /\ NeedsStop(w) => StopRecorded(r)
      /\ next.stage \in {"changing", "done"}
  BY <1>3 DEF At, Changing
<1>7. Target(w)' = {}
  BY <1>1, <1>4 DEF Target
<1>8. HandlerIsConsistent(w)'
  BY <1>1, <1>4, <1>5, <1>6, <1>7, QueueRests DEF HandlerIsConsistent, Forward
<1>9. ASSUME IsOnlyRun(r) PROVE PartsOf(w, r)'
  <2>1. Forward(r) => StoppedStaysStopped(r)
    BY <1>9 DEF Invariants, SourceInvariant
  <2>2. up[run[r].plan] \subseteq Workloads /\ running[run[r].plan] \subseteq Workloads
    BY <1>2 DEF Invariants, SourceTypeOK
  <2>3. Forward(r) => HasStopped(w, r)'
    BY <1>4, <1>5, <1>6, <2>1, <2>2, QueueRests DEF HasStopped, StoppedStaysStopped, Stopped
  <2>4. StoresOriginal(w, r)' /\ HasStarted(w, r)'
    BY <1>1, <1>4, <1>5, <1>6 DEF StoresOriginal, HasStarted, Handles, RecoverySteps
  <2>5. QED
    BY <1>4, <2>3, <2>4, QueueRests DEF PartsOf
<1>10. QED
  BY <1>1, <1>2, <1>4, <1>5, <1>8, <1>9, WorkerMoves

LEMMA ComposeRollbackKeeps ==
  ASSUME Invariants, NEW w \in Workers, ComposeRollback(w)
  PROVE  SourceInvariant'
<1>1. /\ phase[w] = "handling" /\ claim[w].step \in RecoverySteps /\ HandlerIsConsistent(w)
      /\ IsCompose(w) /\ UNCHANGED sourceVars
  BY AtWork DEF ComposeRollback
<1>2. PICK r \in Runs : r = claim[w].run /\ RecordIsConsistent(r) /\ run[r].plan \in Plans
  BY AtWork DEF ComposeRollback
<1>3. PICK next : /\ GoOn(w, next)
                  /\ \/ StopRecorded(r) /\ next = Changing(Workloads)
                     \/ /\ StopRecorded(r) => "COMPOSE_SOURCE_RESTARTED" \in events[r]
                        /\ next = At("done")
  BY <1>2 DEF ComposeRollback, Recorded, StopRecorded
<1>4. /\ handler' = [handler EXCEPT ![w] = next] /\ UNCHANGED vars
      /\ source' = source /\ up' = up /\ running' = running /\ snapshot' = snapshot
      /\ overtaken' = overtaken /\ phase' = phase /\ claim' = claim /\ run' = run
      /\ events' = events
  BY <1>1, <1>3 DEF GoOn, sourceVars, vars
<1>5. handler'[w] = next /\ \A v \in Workers : v # w => handler'[v] = handler[v]
  BY <1>4 DEF Invariants, SourceTypeOK
<1>6. /\ next.stage = "changing" => /\ next.want = Workloads /\ next.todo = Workloads
                                    /\ NeedsStop(w)
      /\ next.stage = "done" /\ StopRecorded(r) => "COMPOSE_SOURCE_RESTARTED" \in events[r]
      /\ next.stage \in {"changing", "done"}
  BY <1>2, <1>3 DEF At, Changing, RecordIsConsistent, NeedsStop, PlanOf
<1>7. Target(w)' = Workloads
  BY <1>1, <1>4, QueueRests DEF Target, RecoverySteps
<1>8. HandlerIsConsistent(w)'
  BY <1>1, <1>4, <1>5, <1>6, <1>7, QueueRests DEF HandlerIsConsistent, Forward
<1>9. ASSUME IsOnlyRun(r) PROVE PartsOf(w, r)'
  <2>1. r \notin overtaken => StartedStaysStarted(r)
    BY <1>9 DEF Invariants, SourceInvariant
  <2>2. Before(r)' \subseteq Workloads
    BY <1>2, <1>4 DEF Before, Invariants, SourceTypeOK, Sources
  <2>3. Restartable(r)' => StopRecorded(r)
    BY <1>1, <1>2, <1>4 DEF Restartable, IsCompose, PlanOf, StopRecorded
  <2>4. Restored(r) => Restored(r)'
    BY <1>4 DEF Restored, Before
  <2>5. r \notin overtaken => HasStarted(w, r)'
    BY <1>4, <1>5, <1>6, <2>1, <2>2, <2>3, <2>4 DEF HasStarted, StartedStaysStarted
  <2>6. StoresOriginal(w, r)' /\ HasStopped(w, r)'
    BY <1>1, <1>4 DEF StoresOriginal, HasStopped, Stopped, Handles, RecoverySteps
  <2>7. QED
    BY <1>4, <2>5, <2>6 DEF PartsOf
<1>10. QED
  BY <1>1, <1>2, <1>4, <1>5, <1>8, <1>9, WorkerMoves

\* A step of a handler that changes what is stored or runs for its run.
LEMMA RunIsChanged ==
  ASSUME Invariants, NEW w \in Workers, NEW r \in Runs, claim[w].run = r,
         UNCHANGED vars, source' = source,
         \A v \in Workers : v # w => handler'[v] = handler[v],
         \A q \in Runs : q # r => snapshot'[q] = snapshot[q] /\ events'[q] = events[q],
         snapshot[r] # {} => snapshot'[r] = snapshot[r],
         \A p \in Plans : p # run[r].plan => up'[p] = up[p] /\ running'[p] = running[p],
         overtaken \subseteq overtaken',
         HandlerIsConsistent(w)', RecordIsConsistent(r)',
         IsOnlyRun(r) => /\ OriginalIsKept(r)'
                         /\ Forward(r) => StoppedStaysStopped(r)'
                         /\ r \notin overtaken' => StartedStaysStarted(r)'
  PROVE  SourceInvariant'
<1>1. /\ run' = run /\ steps' = steps /\ jobs' = jobs /\ phase' = phase /\ claim' = claim
  BY DEF vars
<1>2. ASSUME NEW v \in Workers PROVE HandlerIsConsistent(v)'
  <2>1. SUFFICES ASSUME v # w PROVE HandlerIsConsistent(v)'
    OBVIOUS
  <2>2. HandlerIsConsistent(v) /\ handler'[v] = handler[v]
    BY <2>1 DEF Invariants, SourceInvariant
  <2>3. CASE phase[v] = "idle"
    BY <1>1, <2>2, <2>3 DEF HandlerIsConsistent
  <2>4. CASE phase[v] # "idle"
    <3>1. PICK q \in Runs : q = claim[v].run
      BY <2>4, WorksOnScheduled
    <3>2. HasSnapshot(v) => snapshot'[q] = snapshot[q]
      BY <3>1 DEF HasSnapshot
    <3>3. HasSnapshot(v) => HasSnapshot(v)'
      BY <1>1, <3>1, <3>2 DEF HasSnapshot
    <3>4. HasSnapshot(v) \/ IsCompose(v) \/ claim[v].step = "QUIESCE" => Target(v)' = Target(v)
      BY <1>1, <3>1, <3>2, QueueRests DEF Target, Ran
    <3>5. phase[v] = "handling" /\ handler[v].stage \in {"changing", "waiting"}
            => HasSnapshot(v) \/ IsCompose(v)
      BY <2>2 DEF HandlerIsConsistent
    <3>6. QED
      BY <1>1, <2>2, <3>3, <3>4, <3>5, QueueRests DEF HandlerIsConsistent
  <2>5. QED
    BY <2>3, <2>4
<1>3. ASSUME NEW q \in Runs, q # r PROVE RecordIsConsistent(q)'
  <2>1. RecordIsConsistent(q) /\ snapshot'[q] = snapshot[q] /\ events'[q] = events[q]
    BY <1>3 DEF Invariants, SourceInvariant
  <2>2. /\ Ran(q)' = Ran(q) /\ Rows(Ran(q))' = Rows(Ran(q))
        /\ StopRecorded(q)' <=> StopRecorded(q)
        /\ Forward(q)' <=> Forward(q)
    BY <1>1, <2>1, QueueRests DEF Ran, Rows, StopRecorded
  <2>3. QED
    BY <1>1, <2>1, <2>2 DEF RecordIsConsistent
<1>4. ASSUME NEW p \in Plans PROVE UntouchedSource(p)'
  BY <1>1 DEF Invariants, SourceInvariant, UntouchedSource, Undisturbed
<1>5. ASSUME NEW q \in Runs, q # r, IsOnlyRun(q)
      PROVE  /\ OriginalIsKept(q)'
             /\ Forward(q) => StoppedStaysStopped(q)'
             /\ q \notin overtaken' => StartedStaysStarted(q)'
  <2>1. /\ OriginalIsKept(q)
        /\ Forward(q) => StoppedStaysStopped(q)
        /\ q \notin overtaken => StartedStaysStarted(q)
        /\ Before(q)' = Before(q)
    BY <1>5, QueueRests DEF Invariants, SourceInvariant
  <2>2. run[q].plan \in Plans /\ run[q].plan # run[r].plan
    BY <1>5, UnscheduledHasNoPlan DEF IsOnlyRun, RunStatuses, Invariants, RunInvariant,
       RunIsConsistent, IsScheduled
  <2>3. /\ up'[run[q].plan] = up[run[q].plan] /\ running'[run[q].plan] = running[run[q].plan]
        /\ snapshot'[q] = snapshot[q] /\ events'[q] = events[q]
    BY <1>5, <2>2
  <2>4. ASSUME NEW v \in Workers
        PROVE  /\ StoresOriginal(v, q) => StoresOriginal(v, q)'
               /\ HasStopped(v, q) => HasStopped(v, q)'
               /\ HasStarted(v, q) => HasStarted(v, q)'
    <3>1. CASE claim[v].run = q
      <4>1. handler'[v] = handler[v] /\ (NeedsStop(v)' <=> NeedsStop(v))
            /\ HeldJobs(v)' = HeldJobs(v)
        BY <1>5, <3>1, QueueRests
      <4>2. StoresOriginal(v, q) => StoresOriginal(v, q)'
        BY <1>1, <2>1, <2>3, <4>1 DEF StoresOriginal, Handles
      <4>3. HasStopped(v, q) => HasStopped(v, q)'
        BY <1>1, <2>3, <4>1 DEF HasStopped, Stopped, Handles
      <4>4. HasStarted(v, q) => HasStarted(v, q)'
        BY <1>1, <2>1, <2>3, <4>1 DEF HasStarted, Handles, Restored, Restartable, StopRecorded
      <4>5. QED
        BY <4>2, <4>3, <4>4
    <3>2. CASE claim[v].run # q
      BY <1>1, <3>2 DEF StoresOriginal, HasStopped, Stopped, HasStarted, Handles
    <3>3. QED
      BY <3>1, <3>2
  <2>5. OriginalIsKept(q)'
    BY <1>1, <2>1, <2>3, <2>4 DEF OriginalIsKept, Undisturbed, Rows
  <2>6. Forward(q) => StoppedStaysStopped(q)'
    BY <1>1, <2>1, <2>3, <2>4 DEF StoppedStaysStopped, Stopped, StopRecorded
  <2>7. q \notin overtaken' => StartedStaysStarted(q)'
    BY <1>1, <2>1, <2>3, <2>4 DEF StartedStaysStarted, Restored, Restartable, StopRecorded
  <2>8. QED
    BY <2>5, <2>6, <2>7
<1>6. QED
  BY <1>2, <1>3, <1>4, <1>5, QueueRests DEF SourceInvariant

\* The worker with the job of a run is the only one, and a run of which a worker
\* has the QUIESCE job has no recovery step yet.
LEMMA OnlyHolder ==
  ASSUME Invariants, NEW w \in Workers, NEW v \in Workers, v # w,
         claim[v].run = claim[w].run, HeldJobs(w) # {}
  PROVE  HeldJobs(v) = {}
  BY DEF Invariants, JobInvariant, OneJobPerRun, HeldJobs

LEMMA QuiesceIsForward ==
  ASSUME Invariants, NEW w \in Workers, HeldJobs(w) # {}, NEW r \in Runs, r = claim[w].run,
         NEW k \in {"QUIESCE", "FINAL_BACKUP"}, claim[w].step = k
  PROVE  /\ Forward(r)
         /\ \A m \in RecoverySteps : steps[r][m] # "SUCCEEDED"
         /\ k \in ChainOf(r) /\ ReachedStep(r, k)
<1>1. k \in PipelineSteps /\ k \in StepKeys
  BY DEF PipelineSteps, StepKeys
<1>2. run[r].status = k /\ k \in ForwardStatuses /\ GoesForward(r)
      /\ k \in ChainOf(r) /\ ReachedStep(r, k)
  BY <1>1, HeldStep DEF Invariants
<1>3. QED
  BY <1>2 DEF Forward, GoesForward, NoRecovery, RecoverySteps

\* A handler acts with its job, or the run is overtaken.
LEMMA ActsWithItsJob ==
  ASSUME NEW w, ActsOnRun(w), NEW r, r = claim[w].run
  PROVE  /\ overtaken \subseteq overtaken'
         /\ r \notin overtaken' => HeldJobs(w) # {} /\ r \notin overtaken
  BY DEF ActsOnRun

LEMMA RowsOfListing ==
  ASSUME NEW listing \in SUBSET Workloads
  PROVE  /\ Rows(listing) # {}
         /\ {x \in Workloads : <<x, TRUE>> \in Rows(listing)} = listing
  BY SourceAssumption DEF Rows

\* ON CONFLICT DO NOTHING: the first listing of a run is the one that is kept.
LEMMA FirstListingIsKept ==
  ASSUME NEW r, NEW listing,
         \/ snapshot[r] = {}
         \/ snapshot[r] = Rows(Ran(r))
  PROVE  FirstListing(r, listing) = IF snapshot[r] = {} THEN Rows(listing) ELSE snapshot[r]
<1>1. CASE snapshot[r] = {}
  BY <1>1 DEF FirstListing
<1>2. CASE snapshot[r] # {} /\ snapshot[r] = Rows(Ran(r))
  <2>1. ASSUME NEW row \in Rows(listing) PROVE \E kept \in snapshot[r] : kept[1] = row[1]
    <3>1. PICK x \in Workloads : row = <<x, x \in listing>>
      BY DEF Rows
    <3>2. <<x, x \in Ran(r)>> \in snapshot[r]
      BY <1>2 DEF Rows
    <3>3. QED
      BY <3>1, <3>2
  <2>2. QED
    BY <1>2, <2>1 DEF FirstListing
<1>3. QED
  BY <1>1, <1>2

LEMMA VeleroSaveSnapshotKeeps ==
  ASSUME Invariants, NEW w \in Workers, VeleroSaveSnapshot(w)
  PROVE  SourceInvariant'
<1> DEFINE want == handler[w].want
<1>1. /\ phase[w] = "handling" /\ claim[w].step = "QUIESCE" /\ handler[w].stage = "listed"
      /\ HandlerIsConsistent(w) /\ handler[w] \in Handlers
  BY AtWork DEF VeleroSaveSnapshot
<1>2. PICK r \in Runs : r = claim[w].run /\ RecordIsConsistent(r) /\ run[r].status # "NONE"
                        /\ run[r].plan \in Plans
  BY AtWork DEF VeleroSaveSnapshot
<1>3. /\ snapshot' = [snapshot EXCEPT ![r] = FirstListing(r, want)]
      /\ handler' = [handler EXCEPT ![w] = Changing({})]
      /\ UNCHANGED vars /\ ActsOnRun(w)
      /\ source' = source /\ up' = up /\ running' = running /\ events' = events
      /\ run' = run /\ steps' = steps /\ phase' = phase /\ claim' = claim
  BY <1>2 DEF VeleroSaveSnapshot, GoOn, vars
<1>4. /\ handler'[w] = Changing({})
      /\ \A v \in Workers : v # w => handler'[v] = handler[v]
      /\ snapshot'[r] = FirstListing(r, want)
      /\ \A q \in Runs : q # r => snapshot'[q] = snapshot[q]
  BY <1>3 DEF Invariants, SourceTypeOK
<1>5. want \in SUBSET Workloads
  BY <1>1 DEF Handlers
<1>6. snapshot'[r] = IF snapshot[r] = {} THEN Rows(want) ELSE snapshot[r]
  BY <1>2, <1>4, FirstListingIsKept DEF RecordIsConsistent
<1>7. snapshot'[r] # {} /\ snapshot'[r] = Rows(Ran(r)')
  <2>1. CASE snapshot[r] = {}
    <3>1. snapshot'[r] = Rows(want)
      BY <1>6, <2>1
    <3>2. Ran(r)' = want
      <4>1. {x \in Workloads : <<x, TRUE>> \in Rows(want)} = want
        BY <1>5, RowsOfListing
      <4>2. Ran(r)' = {x \in Workloads : <<x, TRUE>> \in Rows(want)}
        BY <3>1 DEF Ran
      <4>3. QED
        BY <4>1, <4>2
    <3>3. QED
      BY <1>5, <3>1, <3>2, RowsOfListing
  <2>2. CASE snapshot[r] # {}
    BY <1>2, <1>6, <2>2 DEF RecordIsConsistent, Ran
  <2>3. QED
    BY <2>1, <2>2
<1>8. ~IsCompose(w) /\ NeedsStop(w)
  BY <1>1 DEF HandlerIsConsistent
<1>9. HandlerIsConsistent(w)'
  <2>1. Target(w)' = {} /\ HasSnapshot(w)'
    BY <1>1, <1>2, <1>3, <1>7 DEF Target, HasSnapshot
  <2>2. QED
    BY <1>1, <1>3, <1>4, <1>8, <2>1, QueueRests
       DEF HandlerIsConsistent, Changing, RecoverySteps, Forward
<1>10. RecordIsConsistent(r)'
  <2>1. Rows(Ran(r))' = Rows(Ran(r)')
    BY DEF Rows
  <2>2. (StopRecorded(r)' <=> StopRecorded(r)) /\ (Forward(r)' <=> Forward(r))
    BY <1>3, QueueRests DEF StopRecorded
  <2>3. QED
    BY <1>2, <1>3, <1>7, <1>8, <2>1, <2>2 DEF RecordIsConsistent, IsCompose, NeedsStop, PlanOf
<1>11. ASSUME IsOnlyRun(r)
       PROVE  /\ OriginalIsKept(r)'
              /\ Forward(r) => StoppedStaysStopped(r)'
              /\ r \notin overtaken' => StartedStaysStarted(r)'
  <2>1. /\ OriginalIsKept(r)
        /\ Forward(r) => StoppedStaysStopped(r)
        /\ r \notin overtaken => StartedStaysStarted(r)
        /\ Before(r)' = Before(r)
    BY <1>3, <1>11, QueueRests DEF Invariants, SourceInvariant
  <2>2. snapshot[r] = {} => want = Before(r)
    BY <1>1, <1>2, <2>1 DEF OriginalIsKept, Undisturbed, StoresOriginal, Handles
  <2>3. snapshot'[r] = Rows(Before(r))
    BY <1>6, <2>1, <2>2 DEF OriginalIsKept, Undisturbed
  <2>4. \A v \in Workers : StoresOriginal(v, r)'
    BY <1>7 DEF StoresOriginal
  <2>5. OriginalIsKept(r)'
    BY <1>2, <1>3, <1>7, <1>8, <2>1, <2>3, <2>4
       DEF OriginalIsKept, Undisturbed, Rows, IsCompose, NeedsStop, PlanOf
  <2>6. Forward(r) => StoppedStaysStopped(r)'
    <3>1. up[run[r].plan] \subseteq Workloads /\ running[run[r].plan] \subseteq Workloads
      BY <1>2 DEF Invariants, SourceTypeOK
    <3>2. HasStopped(w, r)'
      BY <1>3, <1>4, <3>1 DEF HasStopped, Stopped, Changing
    <3>3. ASSUME NEW v \in Workers, v # w PROVE HasStopped(v, r) => HasStopped(v, r)'
      <4>1. handler'[v] = handler[v] /\ (NeedsStop(v)' <=> NeedsStop(v))
        BY <1>3, <1>4, <3>3, QueueRests
      <4>2. QED
        BY <1>3, <4>1 DEF HasStopped, Stopped, Handles
    <3>4. QED
      BY <1>3, <2>1, <3>2, <3>3 DEF StoppedStaysStopped, Stopped, StopRecorded
  <2>7. r \notin overtaken' => StartedStaysStarted(r)'
    <3>1. HasStarted(w, r)'
      BY <1>1, <1>3 DEF HasStarted, Handles, RecoverySteps
    <3>2. ASSUME NEW v \in Workers, v # w PROVE HasStarted(v, r) => HasStarted(v, r)'
      <4>1. handler'[v] = handler[v] /\ HeldJobs(v)' = HeldJobs(v)
        BY <1>3, <1>4, <3>2, QueueRests
      <4>2. QED
        BY <1>3, <2>1, <4>1 DEF HasStarted, Handles, Restored, Restartable, StopRecorded
    <3>3. r \notin overtaken' => r \notin overtaken
      BY <1>2, <1>3, ActsWithItsJob
    <3>4. QED
      BY <1>3, <2>1, <3>1, <3>2, <3>3
         DEF StartedStaysStarted, Restored, Restartable, StopRecorded
  <2>8. QED
    BY <2>5, <2>6, <2>7
<1>12. overtaken \subseteq overtaken'
  BY <1>2, <1>3, ActsWithItsJob
<1>13. QED
  BY <1>2, <1>3, <1>4, <1>6, <1>9, <1>10, <1>11, <1>12, RunIsChanged

LEMMA ComposeRecordKeeps ==
  ASSUME Invariants, NEW w \in Workers, ComposeRecord(w)
  PROVE  SourceInvariant'
<1>1. /\ phase[w] = "handling" /\ handler[w].stage = "changed" /\ HandlerIsConsistent(w)
  BY AtWork DEF ComposeRecord
<1>2. PICK r \in Runs : r = claim[w].run /\ RecordIsConsistent(r) /\ run[r].status # "NONE"
                        /\ run[r].plan \in Plans
  BY AtWork DEF ComposeRecord
<1>3. /\ events' = [events EXCEPT ![r] = @ \cup {EventOf(w)}]
      /\ handler' = [handler EXCEPT ![w] = At("done")]
      /\ UNCHANGED vars /\ ActsOnRun(w)
      /\ source' = source /\ up' = up /\ running' = running /\ snapshot' = snapshot
      /\ run' = run /\ steps' = steps /\ phase' = phase /\ claim' = claim
  BY <1>2 DEF ComposeRecord, GoOn, vars
<1>4. /\ handler'[w] = At("done")
      /\ \A v \in Workers : v # w => handler'[v] = handler[v]
      /\ events'[r] = events[r] \cup {EventOf(w)}
      /\ \A q \in Runs : q # r => events'[q] = events[q]
  BY <1>3 DEF Invariants, SourceTypeOK
<1>5. /\ claim[w].step \in SourceStepKeys /\ NeedsStop(w) /\ IsCompose(w)
      /\ claim[w].step \in RecoverySteps => ~Forward(r)
  BY <1>1, <1>2 DEF HandlerIsConsistent, SourceStepKeys
<1>6. /\ claim[w].step = "QUIESCE" => EventOf(w) = "COMPOSE_SOURCE_STOPPED"
      /\ claim[w].step \in RecoverySteps => EventOf(w) = "COMPOSE_SOURCE_RESTARTED"
      /\ claim[w].step = "QUIESCE" \/ claim[w].step \in RecoverySteps
  BY <1>5 DEF EventOf, SourceStepKeys, RecoverySteps
<1>7. HandlerIsConsistent(w)'
  BY <1>1, <1>3, <1>4, QueueRests DEF HandlerIsConsistent, At, Forward
<1>8. RecordIsConsistent(r)'
  <2>1. Ran(r)' = Ran(r) /\ Rows(Ran(r))' = Rows(Ran(r)) /\ (Forward(r)' <=> Forward(r))
    BY <1>3, QueueRests DEF Ran, Rows
  <2>2. source[run[r].plan].stateful /\ source[run[r].plan].compose
    BY <1>2, <1>5 DEF NeedsStop, IsCompose, PlanOf
  <2>3. QED
    BY <1>2, <1>3, <1>4, <1>5, <1>6, <2>1, <2>2 DEF RecordIsConsistent, StopRecorded
<1>9. ASSUME IsOnlyRun(r)
      PROVE  /\ OriginalIsKept(r)'
             /\ Forward(r) => StoppedStaysStopped(r)'
             /\ r \notin overtaken' => StartedStaysStarted(r)'
  <2>1. /\ OriginalIsKept(r)
        /\ Forward(r) => StoppedStaysStopped(r)
        /\ r \notin overtaken => StartedStaysStarted(r)
        /\ Before(r)' = Before(r)
    BY <1>3, <1>9, QueueRests DEF Invariants, SourceInvariant
  <2>2. OriginalIsKept(r)'
    <3>1. ASSUME NEW v \in Workers PROVE StoresOriginal(v, r)'
      <4>1. CASE v = w
        BY <1>4, <4>1 DEF StoresOriginal, At
      <4>2. CASE v # w
        BY <1>3, <1>4, <2>1, <4>2 DEF StoresOriginal, Handles, OriginalIsKept, Undisturbed
      <4>3. QED
        BY <4>1, <4>2
    <3>2. QED
      BY <1>3, <2>1, <3>1 DEF OriginalIsKept, Undisturbed, Rows
  <2>3. ASSUME Forward(r) PROVE StoppedStaysStopped(r)'
    <3>1. claim[w].step = "QUIESCE" /\ Stopped(run[r].plan)
      BY <1>1, <1>2, <1>5, <1>6, <2>1, <2>3 DEF StoppedStaysStopped, HasStopped, Handles
    <3>2. Stopped(run[r].plan)'
      BY <1>3, <3>1 DEF Stopped
    <3>3. \A v \in Workers : HasStopped(v, r)'
      BY <3>2 DEF HasStopped, Stopped
    <3>4. QED
      BY <3>2, <3>3 DEF StoppedStaysStopped
  <2>4. ASSUME r \notin overtaken' PROVE StartedStaysStarted(r)'
    <3>1. HeldJobs(w) # {} /\ StartedStaysStarted(r)
      BY <1>2, <1>3, <2>1, <2>4, ActsWithItsJob
    <3>2. ASSUME NEW v \in Workers, v # w PROVE HasStarted(v, r)'
      BY <1>2, <1>3, <3>1, <3>2, OnlyHolder, QueueRests DEF HasStarted, Handles
    <3>3. Restored(r)' <=> Restored(r)
      BY <1>3, <2>1 DEF Restored
    <3>4. CASE claim[w].step = "QUIESCE"
      <4>1. \A m \in RecoverySteps : steps[r][m] # "SUCCEEDED"
        BY <1>2, <3>1, <3>4, QuiesceIsForward
      <4>2. "COMPOSE_SOURCE_RESTARTED" \in events'[r] => Restored(r)
        BY <1>4, <1>6, <3>1, <3>4 DEF StartedStaysStarted
      <4>3. HasStarted(w, r)'
        BY <1>3, <3>4 DEF HasStarted, Handles, RecoverySteps
      <4>4. QED
        BY <1>3, <3>2, <3>3, <4>1, <4>2, <4>3 DEF StartedStaysStarted
    <3>5. CASE claim[w].step \in RecoverySteps
      <4>1. Restored(r)
        BY <1>1, <1>2, <3>1, <3>5 DEF StartedStaysStarted, HasStarted, Handles
      <4>2. QED
        BY <1>4, <3>2, <3>3, <4>1 DEF StartedStaysStarted, HasStarted, At
    <3>6. QED
      BY <1>6, <3>4, <3>5
  <2>5. QED
    BY <2>2, <2>3, <2>4
<1>10. overtaken \subseteq overtaken'
  BY <1>2, <1>3, ActsWithItsJob
<1>11. QED
  BY <1>2, <1>3, <1>4, <1>7, <1>8, <1>9, <1>10, RunIsChanged

LEMMA BeforeIsTarget ==
  ASSUME Invariants, NEW w \in Workers, NEW r \in Runs, r = claim[w].run, IsOnlyRun(r),
         RecordIsConsistent(r), OriginalIsKept(r), run[r].plan \in Plans,
         claim[w].step \in RecoverySteps, IsCompose(w) \/ HasSnapshot(w)
  PROVE  Before(r) \subseteq Target(w)
<1>1. Before(r) \in SUBSET Workloads /\ Ran(r) \in SUBSET Workloads
  BY DEF Before, Ran, Invariants, SourceTypeOK, Sources
<1>2. CASE IsCompose(w)
  BY <1>1, <1>2 DEF Target, RecoverySteps
<1>3. CASE ~IsCompose(w)
  <2>1. snapshot[r] = Rows(Before(r))
    BY <1>3 DEF HasSnapshot, OriginalIsKept, Undisturbed
  <2>2. {x \in Workloads : <<x, TRUE>> \in Rows(Before(r))} = Before(r)
    BY <1>1, RowsOfListing
  <2>3. Ran(r) = Before(r)
    BY <2>1, <2>2 DEF Ran
  <2>4. QED
    BY <1>3, <2>3 DEF Target, RecoverySteps
<1>4. QED
  BY <1>2, <1>3

LEMMA VeleroWaitKeeps ==
  ASSUME Invariants, NEW w \in Workers, NEW x \in Workloads, VeleroWait(w, x)
  PROVE  SourceInvariant'
<1>1. /\ phase[w] = "handling" /\ handler[w].stage = "waiting" /\ HandlerIsConsistent(w)
      /\ handler[w] \in Handlers /\ UNCHANGED sourceVars
  BY AtWork DEF VeleroWait
<1>2. PICK r \in Runs : /\ r = claim[w].run /\ run[r].plan \in Plans /\ RecordIsConsistent(r)
                        /\ x \in running[run[r].plan] <=> x \in handler[w].want
  BY AtWork DEF VeleroWait, HasCaughtUp, PlanOf
<1>3. PICK next : /\ GoOn(w, next)
                  /\ \/ next = [handler[w] EXCEPT !.todo = handler[w].todo \ {x}]
                     \/ handler[w].todo \ {x} = {} /\ next = At("done")
  BY DEF VeleroWait
<1>4. /\ handler' = [handler EXCEPT ![w] = next] /\ UNCHANGED vars
      /\ source' = source /\ up' = up /\ running' = running /\ snapshot' = snapshot
      /\ overtaken' = overtaken /\ phase' = phase /\ claim' = claim /\ run' = run
      /\ events' = events
  BY <1>1, <1>3 DEF GoOn, sourceVars, vars
<1>5. handler'[w] = next /\ \A v \in Workers : v # w => handler'[v] = handler[v]
  BY <1>4 DEF Invariants, SourceTypeOK
<1>6. /\ next.stage \in {"waiting", "done"}
      /\ next.stage = "waiting" => next.want = handler[w].want /\ next.todo = handler[w].todo \ {x}
      /\ next.stage = "done" => handler[w].todo \ {x} = {}
  BY <1>1, <1>3 DEF At, Handlers
<1>7. Target(w)' = Target(w) /\ (HasSnapshot(w)' <=> HasSnapshot(w))
  BY <1>4, QueueRests DEF Target, Ran, HasSnapshot
<1>8. HandlerIsConsistent(w)'
  BY <1>1, <1>4, <1>5, <1>6, <1>7, QueueRests DEF HandlerIsConsistent, Forward
<1>9. ASSUME IsOnlyRun(r) PROVE PartsOf(w, r)'
  <2>1. /\ Forward(r) => HasStopped(w, r)
        /\ r \notin overtaken => HasStarted(w, r)
    BY <1>9 DEF Invariants, SourceInvariant, StoppedStaysStopped, Stopped, StartedStaysStarted
  <2>2. StoresOriginal(w, r)'
    BY <1>5, <1>6 DEF StoresOriginal
  <2>3. Forward(r) => HasStopped(w, r)'
    <3>1. SUFFICES ASSUME Forward(r), Handles(w, r, {"QUIESCE"}) PROVE HasStopped(w, r)'
      BY <1>4, QueueRests DEF HasStopped
    <3>2. handler[w].want = {} /\ running[run[r].plan] \subseteq handler[w].todo \ {x}
          /\ up[run[r].plan] = {}
      BY <1>1, <1>2, <2>1, <3>1 DEF HasStopped, HandlerIsConsistent, Target, Handles
    <3>3. QED
      BY <1>4, <1>5, <1>6, <3>2 DEF HasStopped, Stopped
  <2>4. r \notin overtaken => HasStarted(w, r)'
    <3>1. SUFFICES ASSUME r \notin overtaken, Handles(w, r, RecoverySteps), HeldJobs(w) # {}
                   PROVE  HasStarted(w, r)'
      BY <1>4, QueueRests DEF HasStarted
    <3>2. /\ Before(r) \subseteq up[run[r].plan]
          /\ Before(r) \ handler[w].todo \subseteq running[run[r].plan]
      BY <1>1, <2>1, <3>1 DEF HasStarted
    <3>3. Before(r) \subseteq handler[w].want
      <4>1. /\ OriginalIsKept(r) /\ claim[w].step \in RecoverySteps
            /\ IsCompose(w) \/ HasSnapshot(w)
            /\ handler[w].want = Target(w)
        BY <1>1, <1>9, <3>1 DEF Invariants, SourceInvariant, Handles, HandlerIsConsistent
      <4>2. QED
        BY <1>2, <1>9, <4>1, BeforeIsTarget
    <3>4. Before(r) \ (handler[w].todo \ {x}) \subseteq running[run[r].plan]
      BY <1>2, <3>2, <3>3
    <3>5. QED
      BY <1>4, <1>5, <1>6, <3>2, <3>4 DEF HasStarted, Restored, Before
  <2>5. QED
    BY <1>4, <2>2, <2>3, <2>4, QueueRests DEF PartsOf
<1>10. QED
  BY <1>1, <1>2, <1>4, <1>5, <1>8, <1>9, WorkerMoves

LEMMA ChangeKeeps ==
  ASSUME Invariants, NEW w \in Workers, NEW x \in Workloads, Change(w, x)
  PROVE  SourceInvariant'
<1>1. /\ phase[w] = "handling" /\ handler[w].stage = "changing" /\ HandlerIsConsistent(w)
      /\ handler[w] \in Handlers
  BY AtWork DEF Change
<1>2. PICK r \in Runs : r = claim[w].run /\ RecordIsConsistent(r) /\ run[r].status # "NONE"
                        /\ run[r].plan \in Plans
  BY AtWork DEF Change
<1>3. PICK p \in Plans : p = run[r].plan
  BY <1>2
<1>4. /\ up' = [up EXCEPT ![p] = Put(x, handler[w].want, up[p])]
      /\ running' = IF IsCompose(w) THEN [running EXCEPT ![p] = Put(x, handler[w].want, running[p])]
                    ELSE running
      /\ UNCHANGED vars /\ ActsOnRun(w)
      /\ source' = source /\ snapshot' = snapshot /\ events' = events
      /\ run' = run /\ steps' = steps /\ phase' = phase /\ claim' = claim
  BY <1>2, <1>3 DEF Change, GoOn, PlanOf, vars
<1>5. /\ handler' = [handler EXCEPT ![w] =
           IF handler[w].todo \ {x} # {} THEN [handler[w] EXCEPT !.todo = handler[w].todo \ {x}]
           ELSE IF IsCompose(w) THEN At("changed")
           ELSE [Changing(handler[w].want) EXCEPT !.stage = "waiting"]]
      /\ \A v \in Workers : v # w => handler'[v] = handler[v]
  <2>1. \A v \in Workers : v # w => handler'[v] = handler[v]
    BY DEF Change, GoOn, Invariants, SourceTypeOK
  <2>2. QED
    BY <2>1 DEF Change, GoOn
<1>6. /\ handler'[w].stage \in {"changing", "waiting", "changed"}
      /\ handler'[w].stage = "changing" => handler'[w].todo = handler[w].todo \ {x}
      /\ handler'[w].stage \in {"changing", "waiting"} => handler'[w].want = handler[w].want
      /\ handler'[w].stage \in {"waiting", "changed"} => handler[w].todo \ {x} = {}
      /\ handler'[w].stage = "waiting" => ~IsCompose(w) /\ handler'[w].todo = Workloads
      /\ handler'[w].stage = "changed" => IsCompose(w)
  <2>1. CASE handler[w].todo \ {x} # {}
    <3>1. handler'[w] = [handler[w] EXCEPT !.todo = handler[w].todo \ {x}]
      <4> DEFINE one == [handler[w] EXCEPT !.todo = handler[w].todo \ {x}]
      <4>1. handler' = [handler EXCEPT ![w] = one]
        BY <1>5, <2>1
      <4> HIDE DEF one
      <4>2. handler'[w] = one
        BY <4>1 DEF Invariants, SourceTypeOK
      <4>3. QED
        BY <4>2 DEF one
    <3>2. QED
      BY <1>1, <2>1, <3>1 DEF Handlers
  <2>2. CASE handler[w].todo \ {x} = {} /\ IsCompose(w)
    <3>1. handler'[w] = At("changed")
      BY <1>5, <2>2 DEF Invariants, SourceTypeOK
    <3>2. QED
      BY <2>2, <3>1 DEF At
  <2>3. CASE handler[w].todo \ {x} = {} /\ ~IsCompose(w)
    <3>1. handler'[w] = [Changing(handler[w].want) EXCEPT !.stage = "waiting"]
      <4> DEFINE waits == [Changing(handler[w].want) EXCEPT !.stage = "waiting"]
      <4>1. handler' = [handler EXCEPT ![w] = waits]
        BY <1>5, <2>3
      <4>2. QED
        BY <4>1 DEF Invariants, SourceTypeOK
    <3>2. QED
      BY <2>3, <3>1 DEF Changing
  <2>4. QED
    BY <2>1, <2>2, <2>3
<1>7. /\ up'[p] = Put(x, handler[w].want, up[p])
      /\ running'[p] = IF source[p].compose THEN Put(x, handler[w].want, running[p]) ELSE running[p]
      /\ \A q \in Plans : q # p => up'[q] = up[q] /\ running'[q] = running[q]
      /\ running[p] \subseteq Workloads /\ Before(r) \subseteq Workloads
  <2>1. IsCompose(w) <=> source[p].compose
    BY <1>2, <1>3 DEF IsCompose, PlanOf
  <2>2. QED
    BY <1>3, <1>4, <2>1 DEF Invariants, SourceTypeOK, Sources, Before
<1>8. /\ claim[w].step \in SourceStepKeys /\ NeedsStop(w)
      /\ claim[w].step \in RecoverySteps => ~Forward(r)
      /\ handler[w].want = Target(w)
      /\ IsCompose(w) \/ HasSnapshot(w)
  BY <1>1, <1>2 DEF HandlerIsConsistent, SourceStepKeys
<1>9. HandlerIsConsistent(w)'
  <2>1. Target(w)' = Target(w) /\ (HasSnapshot(w)' <=> HasSnapshot(w))
    BY <1>4, QueueRests DEF Target, Ran, HasSnapshot
  <2>2. QED
    BY <1>1, <1>4, <1>5, <1>6, <1>7, <1>8, <2>1, QueueRests DEF HandlerIsConsistent, Forward, SourceStepKeys
<1>10. RecordIsConsistent(r)'
  <2>1. /\ Ran(r)' = Ran(r) /\ Rows(Ran(r))' = Rows(Ran(r)) /\ (Forward(r)' <=> Forward(r))
        /\ StopRecorded(r)' <=> StopRecorded(r)
    BY <1>4, QueueRests DEF Ran, Rows, StopRecorded
  <2>2. QED
    BY <1>2, <1>4, <2>1 DEF RecordIsConsistent
<1>11. ASSUME IsOnlyRun(r)
       PROVE  /\ OriginalIsKept(r)'
              /\ Forward(r) => StoppedStaysStopped(r)'
              /\ r \notin overtaken' => StartedStaysStarted(r)'
  <2>1. /\ OriginalIsKept(r)
        /\ Forward(r) => StoppedStaysStopped(r)
        /\ r \notin overtaken => StartedStaysStarted(r)
        /\ Before(r)' = Before(r)
    BY <1>4, <1>11, QueueRests DEF Invariants, SourceInvariant
  <2>2. OriginalIsKept(r)'
    <3>1. ASSUME NEW v \in Workers PROVE StoresOriginal(v, r)'
      <4>1. CASE v = w
        BY <1>5, <1>6, <1>7, <4>1 DEF StoresOriginal
      <4>2. CASE v # w
        BY <1>4, <1>5, <1>7, <2>1, <4>2 DEF StoresOriginal, Handles, OriginalIsKept, Undisturbed
      <4>3. QED
        BY <4>1, <4>2
    <3>2. source[p].stateful /\ (source[p].compose \/ snapshot[r] # {})
      BY <1>2, <1>3, <1>8 DEF NeedsStop, IsCompose, HasSnapshot, PlanOf
    <3>3. snapshot'[r] # {} => snapshot'[r] = Rows(Before(r))'
      BY <1>4, <2>1 DEF OriginalIsKept, Undisturbed, Rows
    <3>4. QED
      BY <1>3, <1>4, <3>1, <3>2, <3>3 DEF OriginalIsKept, Undisturbed
  <2>3. ASSUME Forward(r) PROVE StoppedStaysStopped(r)'
    <3>1. claim[w].step = "QUIESCE" /\ StoppedStaysStopped(r)
      BY <1>8, <2>1, <2>3 DEF SourceStepKeys
    <3>2. handler[w].want = {}
      BY <1>8, <3>1 DEF Target
    <3>3. /\ up'[p] = up[p] \ {x}
          /\ running'[p] = IF source[p].compose THEN running[p] \ {x} ELSE running[p]
          /\ run'[r].plan = p /\ source' = source
      BY <1>3, <1>4, <1>7, <3>2 DEF Put
    <3>4. /\ up[p] \subseteq handler[w].todo
          /\ source[p].compose => running[p] \subseteq handler[w].todo
      BY <1>1, <1>2, <1>3, <3>1 DEF StoppedStaysStopped, HasStopped, Handles
    <3>5. HasStopped(w, r)'
      <4>1. handler'[w].stage = "changed" => source[p].compose
        BY <1>2, <1>3, <1>6 DEF IsCompose, PlanOf
      <4>2. QED
        BY <1>6, <1>7, <3>3, <3>4, <4>1 DEF HasStopped, Stopped
    <3>6. ASSUME NEW v \in Workers, v # w PROVE HasStopped(v, r)'
      <4>1. handler'[v] = handler[v] /\ (NeedsStop(v)' <=> NeedsStop(v)) /\ HasStopped(v, r)
        BY <1>4, <1>5, <3>1, <3>6, QueueRests DEF StoppedStaysStopped
      <4>2. QED
        BY <1>3, <1>4, <3>3, <4>1 DEF HasStopped, Stopped, Handles
    <3>7. QED
      BY <1>3, <1>4, <3>1, <3>3, <3>5, <3>6 DEF StoppedStaysStopped, Stopped, StopRecorded
  <2>4. ASSUME r \notin overtaken' PROVE StartedStaysStarted(r)'
    <3>1. HeldJobs(w) # {} /\ StartedStaysStarted(r)
      BY <1>2, <1>4, <2>1, <2>4, ActsWithItsJob
    <3>2. ASSUME NEW v \in Workers, v # w PROVE HasStarted(v, r)'
      BY <1>2, <1>4, <3>1, <3>2, OnlyHolder, QueueRests DEF HasStarted, Handles
    <3>3. Restartable(r)' <=> Restartable(r)
      BY <1>4 DEF Restartable, StopRecorded
    <3>4. CASE claim[w].step = "QUIESCE"
      <4>1. Forward(r) /\ \A m \in RecoverySteps : steps[r][m] # "SUCCEEDED"
        BY <1>2, <3>1, <3>4, QuiesceIsForward
      <4>2. "COMPOSE_SOURCE_RESTARTED" \notin events[r]
        BY <1>2, <4>1 DEF RecordIsConsistent
      <4>3. HasStarted(w, r)'
        BY <1>4, <3>4 DEF HasStarted, Handles, RecoverySteps
      <4>4. QED
        BY <1>4, <3>2, <4>1, <4>2, <4>3 DEF StartedStaysStarted
    <3>5. CASE claim[w].step \in RecoverySteps
      <4>1. Before(r) \subseteq handler[w].want
        BY <1>2, <1>8, <1>11, <2>1, <3>5, BeforeIsTarget
      <4>2. Restored(r) => Restored(r)'
        BY <1>3, <1>4, <1>7, <2>1, <4>1 DEF Restored, Put
      <4>3. /\ Before(r) \ handler[w].todo \subseteq up[p]
            /\ source[p].compose => Before(r) \ handler[w].todo \subseteq running[p]
        BY <1>1, <1>2, <1>3, <3>1, <3>5 DEF StartedStaysStarted, HasStarted, Handles
      <4>4. /\ Before(r) \ (handler[w].todo \ {x}) \subseteq up'[p]
            /\ source[p].compose => Before(r) \ (handler[w].todo \ {x}) \subseteq running'[p]
        BY <1>7, <4>1, <4>3 DEF Put
      <4>5. handler'[w].stage = "changed" => source[p].compose
        BY <1>2, <1>3, <1>6 DEF IsCompose, PlanOf
      <4>6. HasStarted(w, r)'
        BY <1>3, <1>4, <1>6, <1>7, <2>1, <4>4, <4>5 DEF HasStarted, Restored
      <4>7. QED
        BY <1>4, <3>1, <3>2, <3>3, <4>2, <4>6 DEF StartedStaysStarted
    <3>6. QED
      BY <1>8, <3>4, <3>5 DEF SourceStepKeys
  <2>5. QED
    BY <2>2, <2>3, <2>4
<1>12. overtaken \subseteq overtaken'
  BY <1>2, <1>4, ActsWithItsJob
<1>13. QED
  BY <1>2, <1>3, <1>4, <1>5, <1>7, <1>9, <1>10, <1>11, <1>12, RunIsChanged

\* The pods of a workload start or stop, as they were told to.
LEMMA FollowKeeps ==
  ASSUME Invariants, NEW p \in Plans, NEW x \in Workloads, Follow(p, x)
  PROVE  SourceInvariant'
<1>1. /\ UNCHANGED vars /\ source' = source /\ up' = up /\ snapshot' = snapshot
      /\ events' = events /\ overtaken' = overtaken /\ handler' = handler
      /\ run' = run /\ steps' = steps /\ jobs' = jobs /\ phase' = phase /\ claim' = claim
  BY DEF Follow, vars
<1>2. /\ running'[p] = Put(x, up[p], running[p]) /\ running'[p] # running[p]
      /\ \A q \in Plans : q # p => running'[q] = running[q]
      /\ ~source[p].compose
  BY DEF Follow, Invariants, SourceTypeOK
<1>3. ~Undisturbed(p)
  BY <1>2 DEF Undisturbed, Put
<1>4. ASSUME NEW q \in Plans
      PROVE  /\ Stopped(q) => Stopped(q)'
             /\ running'[q] \subseteq running[q] \cup up[q]
             /\ running[q] \cap up[q] \subseteq running'[q]
             /\ source[q].compose => running'[q] = running[q]
  BY <1>1, <1>2 DEF Stopped, Put
<1>5. ASSUME NEW w \in Workers PROVE HandlerIsConsistent(w)'
  <2>1. Target(w)' = Target(w) /\ (HasSnapshot(w)' <=> HasSnapshot(w))
    BY <1>1 DEF Target, HasSnapshot, Ran, IsCompose, PlanOf
  <2>2. QED
    BY <1>1, <2>1, QueueRests DEF Invariants, SourceInvariant, HandlerIsConsistent
<1>6. ASSUME NEW r \in Runs PROVE RecordIsConsistent(r)'
  <2>1. /\ Ran(r)' = Ran(r) /\ Rows(Ran(r))' = Rows(Ran(r))
        /\ StopRecorded(r)' <=> StopRecorded(r)
        /\ Forward(r)' <=> Forward(r)
    BY <1>1, QueueRests DEF Ran, Rows, StopRecorded
  <2>2. QED
    BY <1>1, <2>1 DEF Invariants, SourceInvariant, RecordIsConsistent
<1>7. ASSUME NEW q \in Plans PROVE UntouchedSource(q)'
  BY <1>1, <1>2, <1>3 DEF Invariants, SourceInvariant, UntouchedSource, Undisturbed
<1>8. ASSUME NEW r \in Runs, IsOnlyRun(r)
      PROVE  /\ OriginalIsKept(r)'
             /\ Forward(r) => StoppedStaysStopped(r)'
             /\ r \notin overtaken => StartedStaysStarted(r)'
  <2>1. /\ OriginalIsKept(r)
        /\ Forward(r) => StoppedStaysStopped(r)
        /\ r \notin overtaken => StartedStaysStarted(r)
        /\ Before(r)' = Before(r)
    BY <1>1, <1>8, QueueRests DEF Invariants, SourceInvariant
  <2>2. PICK q \in Plans : q = run[r].plan
    BY <1>8, UnscheduledHasNoPlan DEF IsOnlyRun, RunStatuses, Invariants, RunInvariant,
       RunIsConsistent, IsScheduled
  <2>3. OriginalIsKept(r)'
    <3>1. Undisturbed(q) => Undisturbed(q)'
      BY <1>1, <1>2, <1>3 DEF Undisturbed
    <3>2. \A w \in Workers : StoresOriginal(w, r)'
      BY <1>1, <2>1 DEF OriginalIsKept, StoresOriginal, Handles
    <3>3. QED
      BY <1>1, <2>1, <2>2, <3>1, <3>2 DEF OriginalIsKept, Rows
  <2>4. ASSUME Forward(r) PROVE StoppedStaysStopped(r)'
    <3>1. ASSUME NEW w \in Workers PROVE HasStopped(w, r)'
      <4>1. HasStopped(w, r) /\ (NeedsStop(w)' <=> NeedsStop(w))
        BY <1>1, <2>1, <2>4, QueueRests DEF StoppedStaysStopped
      <4>2. Handles(w, r, {"QUIESCE"})' <=> Handles(w, r, {"QUIESCE"})
        BY <1>1 DEF Handles
      <4>3. up[q] \subseteq handler[w].todo /\ source[q].compose /\ running[q] \subseteq handler[w].todo
              => running'[q] \subseteq handler[w].todo
        BY <1>4
      <4>4. up[q] = {} /\ running[q] \subseteq handler[w].todo => running'[q] \subseteq handler[w].todo
        BY <1>4
      <4>5. Stopped(q) => Stopped(q)'
        BY <1>4
      <4>6. Stopped(run[r].plan)' <=> Stopped(q)'
        BY <1>1, <2>2 DEF Stopped
      <4>7. QED
        BY <1>1, <1>4, <2>2, <4>1, <4>2, <4>3, <4>4, <4>5, <4>6 DEF HasStopped
    <3>2. QED
      BY <1>1, <1>4, <2>1, <2>2, <2>4, <3>1 DEF StoppedStaysStopped, StopRecorded
  <2>5. ASSUME r \notin overtaken PROVE StartedStaysStarted(r)'
    <3>1. Restored(r) => Restored(r)'
      <4>1. Before(r) \subseteq up[q] /\ Before(r) \subseteq running[q] => Before(r) \subseteq running'[q]
        BY <1>4
      <4>2. QED
        BY <1>1, <2>1, <2>2, <4>1 DEF Restored
    <3>2. ASSUME NEW w \in Workers PROVE HasStarted(w, r)'
      <4>1. HasStarted(w, r) /\ HeldJobs(w)' = HeldJobs(w)
        BY <1>1, <2>1, <2>5, QueueRests DEF StartedStaysStarted
      <4>2. Handles(w, r, RecoverySteps)' <=> Handles(w, r, RecoverySteps)
        BY <1>1 DEF Handles
      <4>3. Before(r) \subseteq up[q] /\ Before(r) \ handler[w].todo \subseteq running[q]
              => Before(r) \ handler[w].todo \subseteq running'[q]
        BY <1>4
      <4>4. source[q].compose => running'[q] = running[q]
        BY <1>4
      <4>5. Restartable(r)' <=> Restartable(r)
        BY <1>1 DEF Restartable, StopRecorded
      <4>6. QED
        BY <1>1, <2>1, <2>2, <3>1, <4>1, <4>2, <4>3, <4>4, <4>5 DEF HasStarted
    <3>3. QED
      BY <1>1, <2>1, <2>5, <3>1, <3>2 DEF StartedStaysStarted, Restartable, StopRecorded
  <2>6. QED
    BY <2>3, <2>4, <2>5
<1>9. QED
  BY <1>1, <1>5, <1>6, <1>7, <1>8, QueueRests DEF SourceInvariant

-----------------------------------------------------------------------------
(***************************************************************************)
(* The inductive invariant.                                                *)
(***************************************************************************)
LEMMA HandlerStepKeeps ==
  ASSUME Invariants, NEW w \in Workers, HandlerStep(w)
  PROVE  SourceInvariant'
  BY FinalBackupKeeps, VeleroListKeeps, VeleroReadSnapshotKeeps, ComposeQuiesceKeeps,
     ComposeRollbackKeeps, VeleroWaitKeeps, VeleroSaveSnapshotKeeps, ComposeRecordKeeps, ChangeKeeps
     DEF HandlerStep

LEMMA HandlerStepTyped ==
  ASSUME Invariants, NEW w \in Workers, HandlerStep(w)
  PROVE  SourceTypeOK'
<1>1. /\ SourceTypeOK /\ handler[w] \in Handlers
      /\ \A stage \in Stages : At(stage) \in Handlers
      /\ \A want \in SUBSET Workloads : Changing(want) \in Handlers
  BY DEF Invariants, SourceTypeOK, Handlers, At, Changing, Stages
<1>2. \A r \in Runs : Ran(r) \in SUBSET Workloads
  BY DEF Ran
<1>3. phase[w] # "idle" => claim[w].run \in Runs /\ PlanOf(w) \in Plans
  BY WorksOnScheduled
<1>4. {"listed", "changing", "waiting", "changed", "copying", "done"} \subseteq Stages
  BY DEF Stages
<1>5. ASSUME NEW next \in Handlers, GoOn(w, next), UNCHANGED sourceVars PROVE SourceTypeOK'
  BY <1>1, <1>5 DEF GoOn, sourceVars, SourceTypeOK
<1>6. CASE VeleroFinalBackup(w) \/ ComposeFinalBackup(w) \/ BackupCompletes(w)
  BY <1>1, <1>4, <1>5, <1>6 DEF VeleroFinalBackup, ComposeFinalBackup, BackupCompletes
<1>7. CASE VeleroList(w)
  <2>1. up[PlanOf(w)] \in SUBSET Workloads
    BY <1>1, <1>3, <1>7 DEF VeleroList, AtStage, SourceTypeOK
  <2>2. [At("listed") EXCEPT !.want = up[PlanOf(w)]] \in Handlers
    BY <1>4, <2>1 DEF At, Handlers
  <2>3. QED
    BY <1>1, <1>4, <1>5, <1>7, <2>2 DEF VeleroList
<1>8. CASE VeleroReadSnapshot(w) \/ ComposeQuiesce(w) \/ ComposeRollback(w)
  <2>1. phase[w] # "idle"
    BY <1>8 DEF VeleroReadSnapshot, ComposeQuiesce, ComposeRollback, AtStage
  <2>2. \E next \in Handlers : GoOn(w, next)
    BY <1>1, <1>2, <1>3, <1>4, <1>8, <2>1 DEF VeleroReadSnapshot, ComposeQuiesce, ComposeRollback
  <2>3. QED
    BY <1>5, <1>8, <2>2 DEF VeleroReadSnapshot, ComposeQuiesce, ComposeRollback
<1>9. ASSUME NEW x \in Workloads, VeleroWait(w, x) PROVE SourceTypeOK'
  <2>1. [handler[w] EXCEPT !.todo = handler[w].todo \ {x}] \in Handlers
    BY <1>1 DEF Handlers
  <2>2. QED
    BY <1>1, <1>4, <1>5, <1>9, <2>1 DEF VeleroWait
<1>10. ASSUME ActsOnRun(w), phase[w] # "idle" PROVE overtaken' \subseteq Runs
  BY <1>1, <1>3, <1>10 DEF ActsOnRun, SourceTypeOK
<1>11. CASE VeleroSaveSnapshot(w)
  <2>1. phase[w] # "idle"
    BY <1>11 DEF VeleroSaveSnapshot, AtStage
  <2>2. overtaken' \subseteq Runs
    BY <1>10, <1>11, <2>1 DEF VeleroSaveSnapshot
  <2>3. \A r \in Runs : \A listing : FirstListing(r, listing) \in SUBSET (Workloads \X BOOLEAN)
    <3>1. ASSUME NEW listing PROVE Rows(listing) \subseteq Workloads \X BOOLEAN
      <4>1. ASSUME NEW x \in Workloads PROVE <<x, x \in listing>> \in Workloads \X BOOLEAN
        <5>1. CASE x \in listing
          <6>1. (x \in listing) = TRUE
            BY <5>1
          <6>2. QED
            BY <6>1
        <5>2. CASE x \notin listing
          <6>1. (x \in listing) = FALSE
            BY <5>2
          <6>2. QED
            BY <6>1
        <5>3. QED
          BY <5>1, <5>2
      <4>2. QED
        BY <4>1 DEF Rows
    <3>2. QED
      BY <1>1, <3>1 DEF FirstListing, SourceTypeOK
  <2>4. snapshot' \in [Runs -> SUBSET (Workloads \X BOOLEAN)]
    BY <1>1, <1>3, <1>11, <2>1, <2>3 DEF VeleroSaveSnapshot, SourceTypeOK
  <2>5. Changing({}) \in Handlers
    BY <1>1
  <2>6. QED
    BY <1>1, <1>11, <2>2, <2>4, <2>5 DEF VeleroSaveSnapshot, GoOn, SourceTypeOK
<1>12. CASE ComposeRecord(w)
  <2>1. phase[w] # "idle"
    BY <1>12 DEF ComposeRecord, AtStage
  <2>2. overtaken' \subseteq Runs
    BY <1>10, <1>12, <2>1 DEF ComposeRecord
  <2>3. EventOf(w) \in SourceEvents
    BY DEF EventOf, SourceEvents
  <2>4. events' \in [Runs -> SUBSET SourceEvents]
    BY <1>1, <1>3, <1>12, <2>1, <2>3 DEF ComposeRecord, SourceTypeOK
  <2>5. At("done") \in Handlers
    BY <1>1, <1>4
  <2>6. QED
    BY <1>1, <1>12, <2>2, <2>4, <2>5 DEF ComposeRecord, GoOn, SourceTypeOK
<1>13. ASSUME NEW x \in Workloads, Change(w, x) PROVE SourceTypeOK'
  <2>1. phase[w] # "idle"
    BY <1>13 DEF Change, AtStage
  <2>2. overtaken' \subseteq Runs
    BY <1>10, <1>13, <2>1 DEF Change
  <2>3. up' \in [Plans -> SUBSET Workloads] /\ running' \in [Plans -> SUBSET Workloads]
    BY <1>1, <1>3, <1>13, <2>1 DEF Change, SourceTypeOK, Put
  <2>4. [handler[w] EXCEPT !.todo = handler[w].todo \ {x}] \in Handlers
    BY <1>1 DEF Handlers
  <2>5. [Changing(handler[w].want) EXCEPT !.stage = "waiting"] \in Handlers
    BY <1>1, <1>4 DEF Handlers, Changing
  <2>6. handler' \in [Workers -> Handlers]
    BY <1>1, <1>4, <1>13, <2>4, <2>5 DEF Change, GoOn, SourceTypeOK
  <2>7. QED
    BY <1>1, <1>13, <2>2, <2>3, <2>6 DEF Change, SourceTypeOK
<1>14. QED
  BY <1>6, <1>7, <1>8, <1>9, <1>11, <1>12, <1>13 DEF HandlerStep

LEMMA InitInvariants == SourceInit => Invariants
<1> SUFFICES ASSUME SourceInit PROVE Invariants
  OBVIOUS
<1>1. TypeOK /\ JobInvariant /\ RunInvariant /\ SourceTypeOK
  BY InitTyped, InitExclusive, InitConsistent, SourceInitTyped DEF SourceInit
<1>2. /\ \A w \in Workers : phase[w] = "idle" /\ handler[w].stage = "done"
      /\ \A r \in Runs : run[r].status = "NONE" /\ snapshot[r] = {} /\ events[r] = {}
      /\ \A p \in Plans : Undisturbed(p)
  BY DEF SourceInit, Init, At, Undisturbed
<1>3. \A w \in Workers : HandlerIsConsistent(w)
  BY <1>2 DEF HandlerIsConsistent
<1>4. \A r \in Runs : RecordIsConsistent(r)
  BY <1>2 DEF RecordIsConsistent, StopRecorded
<1>5. \A p \in Plans : UntouchedSource(p)
  BY <1>2 DEF UntouchedSource
<1>6. \A r \in Runs : ~IsOnlyRun(r)
  BY <1>2 DEF IsOnlyRun, RunStatuses, PipelineSteps
<1>7. QED
  BY <1>1, <1>3, <1>4, <1>5, <1>6 DEF Invariants, SourceInvariant

LEMMA NextInvariants == Invariants /\ [SourceNext]_allVars => Invariants'
<1> SUFFICES ASSUME Invariants, [SourceNext]_allVars PROVE Invariants'
  OBVIOUS
<1>1. ASSUME [Next]_vars PROVE (TypeOK /\ JobInvariant /\ RunInvariant)'
  BY <1>1, NextTyped, NextExclusive, NextConsistent DEF Invariants
<1>2. CASE JobsStep
  <2>1. SourceTypeOK' /\ SourceInvariant'
    BY <1>2, JobsStepTyped, QueueKeepsInvariant DEF Invariants
  <2>2. QED
    BY <1>1, <1>2, <2>1 DEF JobsStep, Invariants
<1>3. ASSUME NEW w \in Workers, HandlerStep(w) PROVE Invariants'
  <2>1. UNCHANGED vars
    BY <1>3 DEF HandlerStep, VeleroList, VeleroSaveSnapshot, VeleroReadSnapshot, ComposeQuiesce,
       ComposeRollback, ComposeRecord, VeleroFinalBackup, ComposeFinalBackup, BackupCompletes,
       Change, VeleroWait, GoOn
  <2>2. SourceTypeOK' /\ SourceInvariant'
    BY <1>3, HandlerStepTyped, HandlerStepKeeps
  <2>3. QED
    BY <1>1, <2>1, <2>2 DEF Invariants
<1>4. CASE UNCHANGED allVars
  <2>1. UNCHANGED vars /\ UNCHANGED sourceVars /\ handler' = handler
    BY <1>4 DEF allVars
  <2>2. SourceTypeOK'
    BY <2>1 DEF Invariants, SourceTypeOK, sourceVars
  <2>3. \A w \in Workers : HandlerIsConsistent(w)'
    BY <2>1 DEF Invariants, SourceInvariant, HandlerIsConsistent, Target, HasSnapshot, Ran,
       IsCompose, NeedsStop, PlanOf, Forward, vars, sourceVars
  <2>4. \A r \in Runs : RecordIsConsistent(r)'
    BY <2>1 DEF Invariants, SourceInvariant, RecordIsConsistent, Ran, Rows, Forward,
       StopRecorded, vars, sourceVars
  <2>5. \A p \in Plans : UntouchedSource(p)'
    BY <2>1 DEF Invariants, SourceInvariant, UntouchedSource, Undisturbed, vars, sourceVars
  <2>6. ASSUME NEW r \in Runs, IsOnlyRun(r)'
        PROVE  /\ OriginalIsKept(r)'
               /\ Forward(r)' => StoppedStaysStopped(r)'
               /\ r \notin overtaken' => StartedStaysStarted(r)'
    <3>1. IsOnlyRun(r) /\ (Forward(r)' <=> Forward(r)) /\ overtaken' = overtaken
      BY <2>1, <2>6, QueueRests DEF sourceVars
    <3>2. OriginalIsKept(r) => OriginalIsKept(r)'
      BY <2>1 DEF OriginalIsKept, Undisturbed, StoresOriginal, Handles, Rows, Before, vars, sourceVars
    <3>3. StoppedStaysStopped(r) => StoppedStaysStopped(r)'
      BY <2>1 DEF StoppedStaysStopped, HasStopped, Stopped, Handles, NeedsStop, PlanOf, StopRecorded,
         vars, sourceVars
    <3>4. StartedStaysStarted(r) => StartedStaysStarted(r)'
      BY <2>1 DEF StartedStaysStarted, HasStarted, Handles, HeldJobs, Restored, Restartable,
         StopRecorded, Before, vars, sourceVars
    <3>5. QED
      BY <3>1, <3>2, <3>3, <3>4 DEF Invariants, SourceInvariant
  <2>7. SourceInvariant'
    BY <2>3, <2>4, <2>5, <2>6 DEF SourceInvariant
  <2>8. QED
    BY <1>1, <2>1, <2>2, <2>7 DEF Invariants
<1>5. ASSUME NEW p \in Plans, NEW x \in Workloads, Follow(p, x) PROVE Invariants'
  <2>1. SourceTypeOK'
    BY <1>5 DEF Follow, Put, Invariants, SourceTypeOK
  <2>2. QED
    BY <1>1, <1>5, <2>1, FollowKeeps DEF Follow, Invariants
<1>6. QED
  BY <1>2, <1>3, <1>4, <1>5 DEF SourceNext

LEMMA SourceIsConsistent == SourceSpec => []Invariants
  BY InitInvariants, NextInvariants, PTL DEF SourceSpec

-----------------------------------------------------------------------------
(***************************************************************************)
(* The theorems.                                                           *)
(***************************************************************************)
\* Snapshots, events, running workloads and the handlers' progress keep their
\* types, whatever the workers, the administrators and the faults do.
THEOREM SourceTypeCorrect == SourceSpec => []SourceTypeOK
<1>1. Invariants => SourceTypeOK
  BY DEF Invariants
<1>2. QED
  BY <1>1, SourceIsConsistent, PTL

\* The replica snapshot of a run is what ran before the run, however often
\* QUIESCE was retried, taken over or left running behind its lease; and no
\* workload of a Kubernetes source is stopped before its snapshot is stored.
THEOREM SnapshotsAreOriginal == SourceSpec => []SnapshotIsOriginal
<1>1. Invariants => SnapshotIsOriginal
  BY DEF Invariants, SourceInvariant, OriginalIsKept, Undisturbed, SnapshotIsOriginal
<1>2. QED
  BY <1>1, SourceIsConsistent, PTL

\* While the worker that has the job takes the final backup of a source with
\* data, nothing runs in the source, although stale QUIESCE handlers go on.
THEOREM SourceStoppedForFinalBackup == SourceSpec => []FinalBackupOfStoppedSource
<1>1. Invariants => FinalBackupOfStoppedSource
  <2> SUFFICES ASSUME Invariants, NEW w \in Workers, handler[w].stage = "copying",
                      HeldJobs(w) # {}, IsOnlyRun(claim[w].run), NeedsStop(w)
               PROVE  running[PlanOf(w)] = {}
    BY DEF FinalBackupOfStoppedSource
  <2>1. claim[w].step = "FINAL_BACKUP" /\ phase[w] = "handling"
    BY DEF Invariants, SourceInvariant, HandlerIsConsistent
  <2>2. PICK r \in Runs : r = claim[w].run
    BY <2>1, WorksOnScheduled
  <2>3. Forward(r) /\ ReachedStep(r, "FINAL_BACKUP")
    BY <2>1, <2>2, QuiesceIsForward
  <2>4. steps[r]["QUIESCE"] = "SUCCEEDED"
    <3>1. "QUIESCE" \in ChainOf(r)
      BY ChainIsPipeline DEF PipelineSteps
    <3>2. Rank["QUIESCE"] < Rank["FINAL_BACKUP"]
      BY DEF Rank, StepKeys, PipelineSteps, RecoverySteps
    <3>3. QED
      BY <2>3, <3>1, <3>2 DEF ReachedStep
  <2>5. StoppedStaysStopped(r)
    BY <2>2, <2>3 DEF Invariants, SourceInvariant
  <2>6. QED
    BY <2>2, <2>4, <2>5 DEF StoppedStaysStopped, Stopped, NeedsStop, PlanOf
<1>2. QED
  BY <1>1, SourceIsConsistent, PTL

\* A rollback or a restoration of the source that succeeded has started every
\* workload that ran before the run, if only workers with the job acted on it.
THEOREM RollbacksRestoreSource == SourceSpec => []RollbackRestoresSource
<1>1. Invariants => RollbackRestoresSource
  <2> SUFFICES ASSUME Invariants, NEW r \in Runs, IsOnlyRun(r), r \notin overtaken,
                      \E k \in RecoverySteps : steps[r][k] = "SUCCEEDED",
                      source[run[r].plan].compose => "COMPOSE_SOURCE_STOPPED" \in events[r]
               PROVE  Before(r) \subseteq running[run[r].plan]
    BY DEF RollbackRestoresSource
  <2>1. StartedStaysStarted(r)
    BY DEF Invariants, SourceInvariant
  <2>2. QED
    BY <2>1 DEF StartedStaysStarted, Restartable, Restored, StopRecorded
<1>2. QED
  BY <1>1, SourceIsConsistent, PTL
=============================================================================
