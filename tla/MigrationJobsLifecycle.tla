----------------------- MODULE MigrationJobsLifecycle -----------------------
(***************************************************************************)
(* For every number of plans, runs, workers, attempts and faults: the      *)
(* status of a run agrees with its steps, its job and what has been done to*)
(* its source.  RunInvariant is inductive together with TypeOK and         *)
(* JobInvariant; the orders in which a run is executed, rolled back and    *)
(* completed follow from it.                                               *)
(***************************************************************************)
EXTENDS MigrationJobsExclusion

-----------------------------------------------------------------------------
(***************************************************************************)
(* The order of the steps, and the chains.                                 *)
(***************************************************************************)
LEMMA RankIsNumber == \A k \in StepKeys : Rank[k] \in Nat
  BY DEF Rank, StepKeys, PipelineSteps, RecoverySteps

LEMMA RankIsStrict == \A k, m \in StepKeys : Rank[k] = Rank[m] => k = m
  BY DEF Rank, StepKeys, PipelineSteps, RecoverySteps

LEMMA ChainIsPipeline ==
  ASSUME NEW r
  PROVE  /\ ChainOf(r) \subseteq PipelineSteps
         /\ PipelineSteps \ {"PRESYNC", "TRANSFER"} \subseteq ChainOf(r)
  BY DEF ChainOf, ScheduledSteps

LEMMA PipelineInSteps == PipelineSteps \subseteq StepKeys
  BY DEF StepKeys

\* A step is followed by the next one, or by the one after an optional step.
Successors ==
  {<<"PREFLIGHT", "PRESYNC">>, <<"PREFLIGHT", "QUIESCE">>, <<"PRESYNC", "QUIESCE">>,
   <<"QUIESCE", "FINAL_BACKUP">>, <<"FINAL_BACKUP", "TRANSFER">>,
   <<"FINAL_BACKUP", "TRANSFORM">>, <<"TRANSFER", "TRANSFORM">>,
   <<"TRANSFORM", "RESTORE">>, <<"RESTORE", "VALIDATION">>,
   <<"VALIDATION", "AWAIT_CUTOVER">>}

LEMMA ChainFollows ==
  ASSUME NEW r, NEW k, NEW n, FollowsInChain(r, k, n)
  PROVE  <<k, n>> \in Successors
<1>1. k \in PipelineSteps /\ n \in PipelineSteps
  BY ChainIsPipeline DEF FollowsInChain
<1>2. \A m \in PipelineSteps \ {"PRESYNC", "TRANSFER"} : Rank[m] <= Rank[k] \/ Rank[n] <= Rank[m]
  BY ChainIsPipeline DEF FollowsInChain
<1>3. Rank[k] < Rank[n]
  BY DEF FollowsInChain
<1>4. QED
  BY <1>1, <1>2, <1>3 DEF Rank, PipelineSteps, Successors

-----------------------------------------------------------------------------
(***************************************************************************)
(* A step changes one run: what it leaves alone stays consistent.          *)
(***************************************************************************)
\* Neither the rows of the run nor its history change.
RunIsKept(q) ==
  /\ run'[q] = run[q] /\ steps'[q] = steps[q]
  /\ q \in quiesced' <=> q \in quiesced
  /\ q \in confirmed' <=> q \in confirmed

LEMMA KeptChain ==
  ASSUME NEW q, RunIsKept(q)
  PROVE  /\ ChainOf(q)' = ChainOf(q)
         /\ \A k : ReachedStep(q, k)' <=> ReachedStep(q, k)
         /\ \A k, n : FollowsInChain(q, k, n)' <=> FollowsInChain(q, k, n)
         /\ Interrupted(q)' <=> Interrupted(q)
<1>1. ChainOf(q)' = ChainOf(q)
  BY DEF RunIsKept, ChainOf
<1>2. QED
  BY <1>1 DEF RunIsKept, ReachedStep, FollowsInChain, Interrupted, InOrder

LEMMA KeptRun ==
  ASSUME NEW q, RunIsKept(q), RunIsConsistent(q)
  PROVE  RunIsConsistent(q)'
<1>1. Accomplished(q)' <=> Accomplished(q)
  BY KeptChain DEF RunIsKept, Accomplished
<1>2. (IF run[q].status = "NONE" THEN Unscheduled(q) ELSE IsScheduled(q))'
  BY KeptChain DEF RunIsKept, RunIsConsistent, Unscheduled, IsScheduled
<1>3. /\ (run[q].status \in ForwardStatuses => GoesForward(q))'
      /\ (run[q].status = "ROLLING_BACK" => GoesBack(q))'
  BY <1>1, KeptChain DEF RunIsKept, RunIsConsistent, GoesForward, NoRecovery, GoesBack, AtGate
<1>4. /\ (run[q].status = "COMPLETED" => HasCompleted(q))'
      /\ (run[q].status = "CANCELLED" => WasCancelled(q))'
  BY <1>1, KeptChain DEF RunIsKept, RunIsConsistent, HasCompleted, WasCancelled
<1>5. (run[q].status = "FAILED" => HasFailed(q))'
  BY <1>1, KeptChain DEF RunIsKept, RunIsConsistent, HasFailed, NoRecovery
<1>6. QED
  BY <1>2, <1>3, <1>4, <1>5 DEF RunIsConsistent

LEMMA KeptJob ==
  ASSUME NEW j, RunIsKept(j.run), JobIsConsistent(j)
  PROVE  JobIsConsistent(j)'
  BY KeptChain DEF RunIsKept, JobIsConsistent

LEMMA OneRunChanges ==
  ASSUME TypeOK, RunInvariant, NEW r \in Runs,
         \A q \in Runs : q # r => RunIsKept(q),
         \A j \in jobs' : j \in jobs \/ j.run = r,
         RunIsConsistent(r)',
         \A j \in jobs' : j.run = r => JobIsConsistent(j)'
  PROVE  RunInvariant'
<1>1. \A q \in Runs : RunIsConsistent(q)'
  BY KeptRun DEF RunInvariant
<1>2. \A j \in jobs' : JobIsConsistent(j)'
  BY KeptJob DEF RunInvariant, TypeOK, Jobs
<1>3. QED
  BY <1>1, <1>2 DEF RunInvariant

LEMMA NoRunChanges ==
  ASSUME RunInvariant, run' = run, steps' = steps, quiesced' = quiesced,
         confirmed' = confirmed, jobs' = jobs
  PROVE  RunInvariant'
<1>1. \A q : RunIsKept(q)
  BY DEF RunIsKept
<1>2. QED
  BY <1>1, KeptRun, KeptJob DEF RunInvariant

-----------------------------------------------------------------------------
(***************************************************************************)
(* The transactions of the API.                                            *)
(***************************************************************************)
LEMMA InitConsistent == Init => RunInvariant
<1> SUFFICES ASSUME Init PROVE RunInvariant
  OBVIOUS
<1>1. ASSUME NEW r \in Runs PROVE RunIsConsistent(r)
  <2>1. run[r].status = "NONE" /\ Unscheduled(r)
    BY DEF Init, Unscheduled
  <2>2. QED
    BY <2>1 DEF RunIsConsistent, ForwardStatuses, PipelineSteps
<1>2. QED
  BY <1>1 DEF Init, RunInvariant

LEMMA ScheduleConsistent ==
  ASSUME TypeOK, JobInvariant, RunInvariant, NEW p \in Plans, NEW r \in Runs, ScheduleRun(p, r)
  PROVE  RunInvariant'
<1> DEFINE chain == ScheduledSteps(p \in PreSyncPlans, p \in VolumePlans)
<1>1. /\ run'[r] = [plan |-> p, status |-> "PENDING", code |-> "NO_ERROR"]
      /\ steps'[r] = [k \in StepKeys |-> IF k \in chain THEN "PENDING" ELSE "ABSENT"]
  BY DEF TypeOK, ScheduleRun
<1>2. \A q \in Runs : q # r => RunIsKept(q)
  BY DEF TypeOK, ScheduleRun, RunIsKept
<1>3. ChainOf(r)' = chain
  BY <1>1 DEF ChainOf
<1>4. Unscheduled(r) /\ JobsOf(r) = {}
  BY DEF ScheduleRun, RunInvariant, RunIsConsistent, JobInvariant, JobsDriveActiveRuns,
     AwaitsWorker, Active, RunStatuses, JobsOf
<1>5. chain \subseteq PipelineSteps /\ {"PREFLIGHT", "QUIESCE"} \subseteq chain
  BY DEF ScheduledSteps, PipelineSteps
<1> HIDE DEF chain
<1>6. RunIsConsistent(r)'
  <2>1. IsScheduled(r)'
    BY <1>1, <1>3, <1>5, PipelineInSteps DEF IsScheduled
  <2>2. GoesForward(r)'
    BY <1>1, <1>4, <1>5 DEF ScheduleRun, Unscheduled, GoesForward, NoRecovery, AtGate,
       RequiresRollback, StepKeys, RecoverySteps, PipelineSteps
  <2>3. QED
    BY <1>1, <2>1, <2>2 DEF RunIsConsistent
<1>7. ReachedStep(r, "PREFLIGHT")'
  <2>1. \A m \in PipelineSteps : ~(Rank[m] < Rank["PREFLIGHT"])
    BY DEF Rank, PipelineSteps
  <2>2. \A m \in chain : steps'[r][m] = "PENDING" /\ m \in PipelineSteps
    BY <1>1, <1>5, PipelineInSteps
  <2>3. QED
    BY <1>3, <2>1, <2>2 DEF ReachedStep
<1>8. \A j \in jobs' : j.run = r => j = NewJob(r, "PREFLIGHT")
  BY <1>4 DEF ScheduleRun, JobsOf
<1>9. JobIsConsistent(NewJob(r, "PREFLIGHT"))'
  BY <1>1, <1>3, <1>5, <1>7, PipelineInSteps DEF JobIsConsistent, NewJob, Open
<1>10. \A j \in jobs' : j \in jobs \/ j.run = r
  BY DEF ScheduleRun, NewJob
<1>11. QED
  BY <1>2, <1>6, <1>8, <1>9, <1>10, OneRunChanges

LEMMA EndedIsScheduled ==
  ASSUME TypeOK, RunInvariant, NEW r \in Runs, ReadAsEnded(r)
  PROVE  run[r].plan \in Plans
  BY DEF ReadAsEnded, IsTerminal, RunInvariant, RunIsConsistent, Unscheduled, IsScheduled

\* Skipping what is unfinished leaves the chain in order.
LEMMA SkippingInterrupts ==
  ASSUME TypeOK, NEW r \in Runs, NEW k \in StepKeys, IsScheduled(r), ReachedStep(r, k),
         steps[r][k] \in Open, r \notin confirmed', ChainOf(r)' = ChainOf(r),
         \A m \in PipelineSteps : steps'[r][m] = SkipUnfinished(r)[m]
  PROVE  Interrupted(r)'
<1>1. \A m \in ChainOf(r) : m \in StepKeys /\ m \in PipelineSteps
  BY ChainIsPipeline, PipelineInSteps
<1>2. \A m \in ChainOf(r) :
        /\ Rank[m] < Rank[k] => steps'[r][m] = "SUCCEEDED"
        /\ ~(Rank[m] < Rank[k]) => steps'[r][m] = "SKIPPED"
  <2> SUFFICES ASSUME NEW m \in ChainOf(r)
               PROVE  /\ Rank[m] < Rank[k] => steps'[r][m] = "SUCCEEDED"
                      /\ ~(Rank[m] < Rank[k]) => steps'[r][m] = "SKIPPED"
    OBVIOUS
  <2>1. steps'[r][m] = IF steps[r][m] \in Open THEN "SKIPPED" ELSE steps[r][m]
    BY <1>1 DEF SkipUnfinished, Open
  <2>2. Rank[m] < Rank[k] \/ Rank[k] < Rank[m] \/ m = k
    BY <1>1, RankIsNumber, RankIsStrict
  <2>3. QED
    BY <2>1, <2>2, <1>1, RankIsNumber DEF ReachedStep, Open
<1>3. QED
  BY <1>1, <1>2, RankIsNumber DEF Interrupted, InOrder

\* The step an active run is at: that of its job, or the gate.
LEMMA ForwardReached ==
  ASSUME TypeOK, JobInvariant, RunInvariant, NEW r \in Runs, run[r].status \in ForwardStatuses
  PROVE  \E k \in StepKeys : ReachedStep(r, k) /\ steps[r][k] \in Open
<1>1. CASE AtGate(r)
  BY <1>1 DEF RunInvariant, RunIsConsistent, GoesForward, Open, StepKeys, PipelineSteps
<1>2. CASE ~AtGate(r)
  <2>1. AwaitsWorker(r)
    BY <1>2 DEF AtGate, AwaitsWorker, Active, IsTerminal, ForwardStatuses, PipelineSteps, RunStatuses
  <2>2. PICK j \in jobs : j.run = r
    BY <2>1 DEF JobInvariant, JobsDriveActiveRuns
  <2>3. QED
    BY <2>2 DEF RunInvariant, JobIsConsistent, TypeOK, Jobs
<1>3. QED
  BY <1>1, <1>2

LEMMA CancelConsistent ==
  ASSUME TypeOK, JobInvariant, RunInvariant, NEW r \in Runs, CancelRun(r)
  PROVE  RunInvariant'
<1>1. run[r].status \in ForwardStatuses
  BY DEF CancelRun, Active, IsTerminal, ForwardStatuses, PipelineSteps, RunStatuses
<1>2. IsScheduled(r) /\ GoesForward(r)
  BY <1>1 DEF RunInvariant, RunIsConsistent, ForwardStatuses, PipelineSteps
<1>3. PICK k \in StepKeys : ReachedStep(r, k) /\ steps[r][k] \in Open
  BY <1>1, ForwardReached
<1>4. \A m \in PipelineSteps : SkipUnfinished(r)[m] = "ABSENT" <=> m \notin ChainOf(r)
  BY <1>2, PipelineInSteps DEF SkipUnfinished, IsScheduled
<1>5. CASE CancelBeforeQuiesce(r)
  <2>1. /\ run'[r].status = "CANCELLED" /\ run'[r].code = "CANCEL_REQUESTED"
        /\ run'[r].plan = run[r].plan /\ steps'[r] = SkipUnfinished(r)
        /\ ChainOf(r)' = ChainOf(r)
        /\ \A q \in Runs : q # r => RunIsKept(q)
    <3>1. /\ run'[r].status = "CANCELLED" /\ run'[r].code = "CANCEL_REQUESTED"
          /\ run'[r].plan = run[r].plan /\ \A q \in Runs : q # r => run'[q] = run[q]
      BY <1>5 DEF TypeOK, CancelBeforeQuiesce, SetRun, RunRows
    <3>2. steps'[r] = SkipUnfinished(r) /\ \A q \in Runs : q # r => steps'[q] = steps[q]
      BY <1>5 DEF TypeOK, CancelBeforeQuiesce
    <3>3. \A q \in Runs : q # r => RunIsKept(q)
      BY <1>5, <3>1, <3>2 DEF CancelBeforeQuiesce, RunIsKept
    <3>4. QED
      BY <3>1, <3>2, <3>3 DEF ChainOf
  <2>2. r \notin confirmed' /\ r \notin quiesced'
    BY <1>2, <1>5 DEF CancelBeforeQuiesce, GoesForward
  <2>3. Interrupted(r)'
    BY <1>2, <1>3, <2>1, <2>2, SkippingInterrupts
  <2>4. NoRecovery(r)'
    BY <1>2, <2>1 DEF GoesForward, NoRecovery, SkipUnfinished, StepKeys, RecoverySteps
  <2>5. WasCancelled(r)'
    BY <2>1, <2>2, <2>3, <2>4 DEF WasCancelled, NoRecovery
  <2>6. RunIsConsistent(r)'
    <3>1. IsScheduled(r)'
      BY <1>2, <1>4, <2>1 DEF IsScheduled
    <3>2. QED
      BY <2>1, <2>5, <3>1 DEF RunIsConsistent, ForwardStatuses, PipelineSteps
  <2>7. \A j \in jobs' : j \in jobs /\ j.run # r
    BY <1>5 DEF CancelBeforeQuiesce, JobsRemoved, JobsOf
  <2>8. QED
    BY <2>1, <2>6, <2>7, OneRunChanges
<1>6. CASE CancelAfterQuiesce(r)
  <2>1. /\ run'[r].status = "ROLLING_BACK" /\ run'[r].code = "CANCEL_REQUESTED"
        /\ run'[r].plan = run[r].plan
        /\ steps'[r] = [SkipUnfinished(r) EXCEPT !["ROLLBACK"] = "PENDING"]
        /\ ChainOf(r)' = ChainOf(r)
        /\ \A q \in Runs : q # r => RunIsKept(q)
    <3>1. /\ run'[r].status = "ROLLING_BACK" /\ run'[r].code = "CANCEL_REQUESTED"
          /\ run'[r].plan = run[r].plan /\ \A q \in Runs : q # r => run'[q] = run[q]
      BY <1>6 DEF TypeOK, CancelAfterQuiesce, SetRun, RunRows
    <3>2. /\ steps'[r] = [SkipUnfinished(r) EXCEPT !["ROLLBACK"] = "PENDING"]
          /\ \A q \in Runs : q # r => steps'[q] = steps[q]
      BY <1>6 DEF TypeOK, CancelAfterQuiesce
    <3>3. \A q \in Runs : q # r => RunIsKept(q)
      BY <1>6, <3>1, <3>2 DEF CancelAfterQuiesce, RunIsKept
    <3>4. QED
      BY <3>1, <3>2, <3>3 DEF ChainOf
  <2>2. r \notin confirmed' /\ r \in quiesced'
    BY <1>2, <1>6 DEF CancelAfterQuiesce, GoesForward
  <2>3. \A m \in PipelineSteps : steps'[r][m] = SkipUnfinished(r)[m]
    BY <2>1 DEF SkipUnfinished, StepKeys, PipelineSteps
  <2>4. Interrupted(r)'
    BY <1>2, <1>3, <2>1, <2>2, <2>3, SkippingInterrupts
  <2>5. steps'[r]["ROLLBACK"] = "PENDING" /\ steps'[r]["RESTORE_SOURCE"] = "ABSENT"
    BY <1>2, <2>1 DEF GoesForward, NoRecovery, SkipUnfinished, StepKeys, RecoverySteps
  <2>6. GoesBack(r)'
    BY <2>1, <2>2, <2>4, <2>5 DEF GoesBack, Open
  <2>7. RunIsConsistent(r)'
    <3>1. IsScheduled(r)'
      BY <1>2, <1>4, <2>1, <2>3 DEF IsScheduled
    <3>2. QED
      BY <2>1, <2>6, <3>1 DEF RunIsConsistent, ForwardStatuses, PipelineSteps
  <2>8. \A j \in jobs' : (j \in jobs /\ j.run # r) \/ j = NewJob(r, "ROLLBACK")
    BY <1>6 DEF CancelAfterQuiesce, JobsRemoved, JobsOf
  <2>9. JobIsConsistent(NewJob(r, "ROLLBACK"))'
    BY <2>1, <2>5 DEF JobIsConsistent, NewJob, Open, ForwardStatuses, PipelineSteps
  <2>10. \A j \in jobs' : j \in jobs \/ j.run = r
    BY <2>8 DEF NewJob
  <2>11. QED
    BY <2>1, <2>7, <2>8, <2>9, <2>10, OneRunChanges
<1>7. QED
  BY <1>5, <1>6 DEF CancelRun

\* A step that is no step of the chain changes.
LEMMA RecoveryStepSet ==
  ASSUME TypeOK, NEW r \in Runs, NEW k \in RecoverySteps, NEW status,
         steps' = [steps EXCEPT ![r][k] = status]
  PROVE  /\ steps'[r][k] = status
         /\ \A m \in StepKeys : m # k => steps'[r][m] = steps[r][m]
         /\ \A m \in PipelineSteps : steps'[r][m] = steps[r][m]
         /\ \A q \in Runs : q # r => steps'[q] = steps[q]
<1>1. \A m \in PipelineSteps : m \in StepKeys /\ m # k
  BY DEF StepKeys, PipelineSteps, RecoverySteps
<1>2. k \in StepKeys
  BY DEF StepKeys
<1>3. QED
  BY <1>1, <1>2 DEF TypeOK, StepRows

\* The chain of a run and what it tells do not depend on recovery steps.
LEMMA SameChain ==
  ASSUME NEW r, ChainOf(r)' = ChainOf(r), r \in confirmed' <=> r \in confirmed,
         \A m \in PipelineSteps : steps'[r][m] = steps[r][m]
  PROVE  /\ Interrupted(r)' <=> Interrupted(r)
         /\ \A k : ReachedStep(r, k)' <=> ReachedStep(r, k)
         /\ \A k \in ChainOf(r) : steps'[r][k] = steps[r][k]
<1>1. \A m \in ChainOf(r) : m \in PipelineSteps
  BY ChainIsPipeline
<1>2. QED
  BY <1>1 DEF Interrupted, InOrder, ReachedStep

LEMMA RestoreSourceConsistent ==
  ASSUME TypeOK, JobInvariant, RunInvariant, NEW r \in Runs, RestoreSource(r)
  PROVE  RunInvariant'
<1>1. HasCompleted(r) /\ IsScheduled(r)
  BY DEF RestoreSource, RunInvariant, RunIsConsistent
<1>2. /\ steps'[r]["RESTORE_SOURCE"] = "PENDING" /\ steps'[r]["ROLLBACK"] = steps[r]["ROLLBACK"]
      /\ \A m \in PipelineSteps : steps'[r][m] = steps[r][m]
      /\ \A q \in Runs : q # r => steps'[q] = steps[q]
  BY RecoveryStepSet DEF RestoreSource, RecoverySteps, StepKeys
<1>3. /\ run'[r].status = "ROLLING_BACK" /\ run'[r].code = "SOURCE_RESTORE_REQUESTED"
      /\ run'[r].plan = run[r].plan /\ \A q \in Runs : q # r => run'[q] = run[q]
  BY DEF TypeOK, RestoreSource, SetRun, RunRows
<1>4. \A q \in Runs : q # r => RunIsKept(q)
  BY <1>2, <1>3 DEF RestoreSource, RunIsKept
<1>5. ChainOf(r)' = ChainOf(r)
  BY <1>3 DEF ChainOf
<1>6. /\ quiesced' = quiesced /\ confirmed' = confirmed
      /\ Interrupted(r)' <=> Interrupted(r)
      /\ \A k \in ChainOf(r) : steps'[r][k] = steps[r][k]
  BY <1>2, <1>5, SameChain DEF RestoreSource
<1>7. Accomplished(r)'
  BY <1>1, <1>2, <1>5, <1>6 DEF HasCompleted, Accomplished, PipelineSteps
<1>8. RunIsConsistent(r)'
  BY <1>1, <1>2, <1>3, <1>5, <1>7 DEF RunIsConsistent, IsScheduled, GoesBack, Accomplished, Open,
     ForwardStatuses, PipelineSteps
<1>9. \A j \in jobs' : j \in jobs \/ j.run = r
  BY DEF RestoreSource, NewJob
<1>10. JobsOf(r) = {}
  BY DEF RestoreSource, JobInvariant, JobsDriveActiveRuns, AwaitsWorker, Active, IsTerminal, JobsOf
<1>11. \A j \in jobs' : j.run = r => j = NewJob(r, "RESTORE_SOURCE")
  BY <1>10 DEF RestoreSource, JobsOf
<1>12. JobIsConsistent(NewJob(r, "RESTORE_SOURCE"))'
  BY <1>2, <1>3 DEF JobIsConsistent, NewJob, Open, ForwardStatuses, PipelineSteps
<1>13. QED
  BY <1>4, <1>8, <1>9, <1>11, <1>12, OneRunChanges

\* One step of the run changes.
LEMMA StepSet ==
  ASSUME TypeOK, NEW r \in Runs, NEW k \in StepKeys, NEW status,
         steps' = [steps EXCEPT ![r][k] = status]
  PROVE  /\ steps'[r][k] = status
         /\ \A m \in StepKeys : m # k => steps'[r][m] = steps[r][m]
         /\ \A q \in Runs : q # r => steps'[q] = steps[q]
  BY DEF TypeOK, StepRows

LEMMA ConfirmCutoverConsistent ==
  ASSUME TypeOK, JobInvariant, RunInvariant, NEW r \in Runs, ConfirmCutover(r)
  PROVE  RunInvariant'
<1>1. GoesForward(r) /\ IsScheduled(r)
  BY DEF ConfirmCutover, AtGate, RunInvariant, RunIsConsistent, ForwardStatuses
<1>2. steps[r]["AWAIT_CUTOVER"] = "RUNNING" /\ ReachedStep(r, "AWAIT_CUTOVER")
  BY <1>1 DEF ConfirmCutover, GoesForward
<1>3. "AWAIT_CUTOVER" \in StepKeys /\ "AWAIT_CUTOVER" \in ChainOf(r)
  BY ChainIsPipeline DEF StepKeys, PipelineSteps
<1>4. /\ steps'[r]["AWAIT_CUTOVER"] = "SUCCEEDED"
      /\ \A m \in StepKeys : m # "AWAIT_CUTOVER" => steps'[r][m] = steps[r][m]
      /\ \A q \in Runs : q # r => steps'[q] = steps[q]
  BY <1>2, <1>3 DEF TypeOK, StepRows, ConfirmCutover
<1>5. /\ run'[r].status = "COMPLETED" /\ run'[r].code = run[r].code /\ run'[r].plan = run[r].plan
      /\ \A q \in Runs : q # r => run'[q] = run[q]
  BY DEF TypeOK, RunRows, ConfirmCutover
<1>6. \A q \in Runs : q # r => RunIsKept(q)
  BY <1>4, <1>5 DEF ConfirmCutover, RunIsKept
<1>7. ChainOf(r)' = ChainOf(r)
  BY <1>5 DEF ChainOf
<1>8. Accomplished(r)'
  <2>1. r \in quiesced' /\ r \in confirmed'
    BY <1>1 DEF ConfirmCutover, AtGate, GoesForward, RequiresRollback
  <2>2. steps'[r]["ROLLBACK"] = "ABSENT"
    BY <1>1, <1>4 DEF GoesForward, NoRecovery, StepKeys, RecoverySteps
  <2>3. ASSUME NEW k \in ChainOf(r) PROVE steps'[r][k] = "SUCCEEDED"
    <3>1. k \in PipelineSteps /\ k \in StepKeys
      BY ChainIsPipeline, PipelineInSteps
    <3>2. k = "AWAIT_CUTOVER" \/ Rank[k] < Rank["AWAIT_CUTOVER"]
      BY <3>1 DEF Rank, PipelineSteps
    <3>3. QED
      BY <1>2, <1>4, <3>1, <3>2 DEF ReachedStep
  <2>4. QED
    BY <1>7, <2>1, <2>2, <2>3 DEF Accomplished
<1>9. steps'[r]["RESTORE_SOURCE"] = "ABSENT"
  BY <1>1, <1>4 DEF GoesForward, NoRecovery, StepKeys, RecoverySteps
<1>10. HasCompleted(r)'
  BY <1>1, <1>5, <1>8, <1>9 DEF HasCompleted, GoesForward
<1>11. IsScheduled(r)'
  BY <1>1, <1>3, <1>4, <1>5, <1>7, PipelineInSteps DEF IsScheduled
<1>12. RunIsConsistent(r)'
  BY <1>5, <1>10, <1>11 DEF RunIsConsistent, ForwardStatuses, PipelineSteps
<1>13. \A j \in jobs' : j \in jobs /\ j.run # r
  BY DEF ConfirmCutover, AtGate, JobInvariant, JobsDriveActiveRuns, AwaitsWorker
<1>14. QED
  BY <1>6, <1>12, <1>13, OneRunChanges

LEMMA ReconcileConsistent ==
  ASSUME TypeOK, JobInvariant, RunInvariant, NEW r \in Runs, ReconcileValidation(r)
  PROVE  RunInvariant'
<1>1. HasFailed(r) /\ IsScheduled(r)
  BY DEF ReconcileValidation, RunInvariant, RunIsConsistent
<1>2. /\ r \in quiesced /\ Interrupted(r)
      /\ steps[r]["ROLLBACK"] = "SUCCEEDED" /\ steps[r]["RESTORE_SOURCE"] = "ABSENT"
  BY <1>1 DEF ReconcileValidation, HasFailed, StepKeys, PipelineSteps, RecoverySteps
<1>3. "VALIDATION" \in StepKeys /\ "VALIDATION" \in ChainOf(r)
  BY ChainIsPipeline DEF StepKeys, PipelineSteps
<1>4. /\ steps'[r]["VALIDATION"] = "SUCCEEDED"
      /\ \A m \in StepKeys : m # "VALIDATION" => steps'[r][m] = steps[r][m]
      /\ \A q \in Runs : q # r => steps'[q] = steps[q]
  BY <1>3 DEF TypeOK, StepRows, ReconcileValidation
<1>5. /\ run'[r].status = "COMPLETED" /\ run'[r].code = "VALIDATION_RECONCILED"
      /\ run'[r].plan = run[r].plan /\ \A q \in Runs : q # r => run'[q] = run[q]
  BY DEF TypeOK, RunRows, ReconcileValidation, SetRun
<1>6. \A q \in Runs : q # r => RunIsKept(q)
  BY <1>4, <1>5 DEF ReconcileValidation, RunIsKept
<1>7. ChainOf(r)' = ChainOf(r)
  BY <1>5 DEF ChainOf
<1>8. Interrupted(r)'
  <2>1. \A k \in ChainOf(r) : k \in StepKeys
    BY ChainIsPipeline, PipelineInSteps
  <2>2. steps[r]["VALIDATION"] = "FAILED"
    BY <1>3 DEF ReconcileValidation
  <2>3. InOrder(r)'
    BY <1>2, <1>3, <1>4, <1>7, <2>1, <2>2 DEF Interrupted, InOrder
  <2>4. QED
    BY <1>2, <1>3, <1>4, <1>7, <2>1, <2>3 DEF ReconcileValidation, Interrupted
<1>9. /\ steps'[r]["ROLLBACK"] = "SUCCEEDED" /\ steps'[r]["RESTORE_SOURCE"] = "ABSENT"
  BY <1>2, <1>4 DEF StepKeys, RecoverySteps
<1>10. HasCompleted(r)'
  BY <1>2, <1>4, <1>5, <1>8, <1>9 DEF ReconcileValidation, HasCompleted, Accomplished
<1>11. IsScheduled(r)'
  BY <1>1, <1>3, <1>4, <1>5, <1>7, PipelineInSteps DEF IsScheduled
<1>12. RunIsConsistent(r)'
  BY <1>5, <1>10, <1>11 DEF RunIsConsistent, ForwardStatuses, PipelineSteps
<1>13. \A j \in jobs' : j \in jobs /\ j.run # r
  BY DEF ReconcileValidation, JobInvariant, JobsDriveActiveRuns, AwaitsWorker, Active, IsTerminal
<1>14. QED
  BY <1>6, <1>12, <1>13, OneRunChanges

-----------------------------------------------------------------------------
(***************************************************************************)
(* The transactions of the workers.                                        *)
(***************************************************************************)
\* The job of a run is its only one.
LEMMA OnlyJob ==
  ASSUME TypeOK, JobInvariant, RunInvariant, NEW j \in jobs
  PROVE  /\ j.run \in Runs /\ j.step \in StepKeys /\ j.step # "AWAIT_CUTOVER"
         /\ \A i \in jobs : i.run = j.run => i = j
         /\ JobIsConsistent(j) /\ RunIsConsistent(j.run) /\ IsScheduled(j.run)
         /\ run[j.run].status \in (ForwardStatuses \ {"AWAITING_CUTOVER"}) \cup {"ROLLING_BACK"}
<1>1. j.run \in Runs /\ j.step \in StepKeys
  BY DEF TypeOK, Jobs
<1>2. AwaitsWorker(j.run)
  BY <1>1 DEF JobInvariant, JobsDriveActiveRuns
<1>3. run[j.run].status \in (ForwardStatuses \ {"AWAITING_CUTOVER"}) \cup {"ROLLING_BACK"}
  BY <1>2 DEF AwaitsWorker, Active, IsTerminal, RunStatuses, ForwardStatuses, PipelineSteps
<1>4. run[j.run].status # "NONE"
  BY <1>3 DEF ForwardStatuses, PipelineSteps
<1>5. RunIsConsistent(j.run) /\ JobIsConsistent(j)
  BY <1>1 DEF RunInvariant
<1>6. QED
  BY <1>1, <1>3, <1>4, <1>5 DEF JobInvariant, OneJobPerRun, NoJobForGate, RunIsConsistent

\* A step of the chain that is started leaves what precedes and follows it.
LEMMA ReachedKept ==
  ASSUME NEW r, NEW k \in StepKeys, ChainOf(r)' = ChainOf(r), ReachedStep(r, k),
         \A m \in StepKeys : m # k => steps'[r][m] = steps[r][m]
  PROVE  ReachedStep(r, k)'
<1>1. \A m \in ChainOf(r) : m \in StepKeys
  BY ChainIsPipeline, PipelineInSteps
<1>2. \A m \in ChainOf(r) : Rank[m] < Rank[k] \/ Rank[k] < Rank[m] => m # k
  BY <1>1, RankIsNumber
<1>3. QED
  BY <1>1, <1>2 DEF ReachedStep

LEMMA ClaimConsistent ==
  ASSUME TypeOK, JobInvariant, RunInvariant, NEW w \in Workers, NEW j \in jobs, Claim(w, j)
  PROVE  RunInvariant'
<1> DEFINE r == j.run  k == j.step  lease == Leased(j, w)
<1>1. /\ r \in Runs /\ k \in StepKeys /\ k # "AWAIT_CUTOVER"
      /\ \A i \in jobs : i.run = r => i = j
      /\ JobIsConsistent(j) /\ RunIsConsistent(r) /\ IsScheduled(r)
      /\ run[r].status \in (ForwardStatuses \ {"AWAITING_CUTOVER"}) \cup {"ROLLING_BACK"}
  BY OnlyJob
<1>2. lease.run = r /\ lease.step = k /\ lease.owner = w
  BY DEF Leased
<1>3. \A i \in jobs' : (i \in jobs /\ i.run # r) \/ i = lease
  BY <1>1 DEF Claim
<1>4. /\ steps' = [steps EXCEPT ![r][k] = "RUNNING"]
      /\ run' = [run EXCEPT ![r].status = StatusForStep(k)]
      /\ quiesced' = IF k = "QUIESCE" THEN quiesced \cup {r} ELSE quiesced
      /\ confirmed' = confirmed
  BY DEF Claim
<1> HIDE DEF r, k, lease
<1>5. /\ steps'[r][k] = "RUNNING"
      /\ \A m \in StepKeys : m # k => steps'[r][m] = steps[r][m]
      /\ \A q \in Runs : q # r => steps'[q] = steps[q]
  BY <1>1, <1>4, StepSet
<1>6. /\ run'[r].status = StatusForStep(k) /\ run'[r].code = run[r].code
      /\ run'[r].plan = run[r].plan /\ \A q \in Runs : q # r => run'[q] = run[q]
  BY <1>1, <1>4 DEF TypeOK, RunRows
<1>7. \A q \in Runs : q # r => RunIsKept(q)
  BY <1>4, <1>5, <1>6 DEF RunIsKept
<1>8. ChainOf(r)' = ChainOf(r)
  BY <1>6 DEF ChainOf
<1>9. steps[r][k] \in Open
  BY <1>1 DEF JobIsConsistent, r, k
<1>10. IsScheduled(r)'
  BY <1>1, <1>5, <1>6, <1>8, <1>9, PipelineInSteps DEF IsScheduled, Open
<1>11. CASE run[r].status \in ForwardStatuses
  <2>1. /\ k \in ChainOf(r) /\ ReachedStep(r, k)
        /\ \/ run[r].status = k
           \/ run[r].status = "PENDING" /\ k = "PREFLIGHT"
           \/ FollowsInChain(r, run[r].status, k)
    BY <1>1, <1>11 DEF JobIsConsistent, r, k
  <2>2. k \in PipelineSteps /\ k \notin RecoverySteps /\ StatusForStep(k) = k
    BY <1>1, <2>1, ChainIsPipeline DEF PipelineSteps, RecoverySteps, StatusForStep
  <2>3. k \in ForwardStatuses
    BY <1>1, <2>2 DEF ForwardStatuses
  <2>4. GoesForward(r)
    BY <1>1, <1>11 DEF RunIsConsistent
  <2>5. r \in quiesced' <=> RequiresRollback(k)
    <3>1. r \in quiesced <=> RequiresRollback(run[r].status)
      BY <2>4 DEF GoesForward
    <3>2. \/ run[r].status = k
          \/ run[r].status = "PENDING" /\ k = "PREFLIGHT"
          \/ <<run[r].status, k>> \in Successors
      BY <2>1, ChainFollows
    <3>3. CASE k = "QUIESCE"
      BY <3>3, <1>4 DEF RequiresRollback
    <3>4. CASE k # "QUIESCE"
      BY <1>1, <1>4, <3>1, <3>2, <3>4 DEF Successors, RequiresRollback
    <3>5. QED
      BY <3>3, <3>4
  <2>6. NoRecovery(r)'
    BY <1>5, <2>2, <2>4 DEF GoesForward, NoRecovery, StepKeys, RecoverySteps
  <2>7. GoesForward(r)'
    BY <1>1, <1>4, <1>6, <2>2, <2>4, <2>5, <2>6 DEF GoesForward, AtGate, PipelineSteps
  <2>8. RunIsConsistent(r)'
    BY <1>6, <1>10, <2>2, <2>3, <2>7 DEF RunIsConsistent, ForwardStatuses, PipelineSteps
  <2>9. ReachedStep(r, k)'
    BY <1>1, <1>5, <1>8, <2>1, ReachedKept
  <2>10. JobIsConsistent(lease)'
    BY <1>2, <1>5, <1>6, <1>8, <2>1, <2>2, <2>3, <2>9
       DEF JobIsConsistent, Open, ForwardStatuses, PipelineSteps
  <2>11. QED
    BY <1>1, <1>2, <1>3, <1>7, <2>8, <2>10, OneRunChanges
<1>12. CASE run[r].status = "ROLLING_BACK"
  <2>1. k = IF run[r].code = "SOURCE_RESTORE_REQUESTED" THEN "RESTORE_SOURCE" ELSE "ROLLBACK"
    BY <1>1, <1>12 DEF JobIsConsistent, r, k
  <2>2. /\ k \in RecoverySteps /\ k # "QUIESCE" /\ StatusForStep(k) = "ROLLING_BACK"
        /\ quiesced' = quiesced
    BY <1>4, <2>1 DEF RecoverySteps, StatusForStep
  <2>3. GoesBack(r)
    BY <1>1, <1>12 DEF RunIsConsistent
  <2>4. /\ \A m \in PipelineSteps : steps'[r][m] = steps[r][m]
        /\ Interrupted(r)' <=> Interrupted(r)
        /\ \A m \in ChainOf(r) : steps'[r][m] = steps[r][m]
    <3>1. \A m \in PipelineSteps : m \in StepKeys /\ m # k
      BY <2>2 DEF StepKeys, PipelineSteps, RecoverySteps
    <3>2. \A m \in PipelineSteps : steps'[r][m] = steps[r][m]
      BY <1>5, <3>1
    <3>3. QED
      BY <1>4, <1>8, <3>2, SameChain
  <2>5. GoesBack(r)'
    <3>1. CASE run[r].code = "SOURCE_RESTORE_REQUESTED"
      <4>1. Accomplished(r)
        BY <2>3, <3>1 DEF GoesBack
      <4>2. steps'[r]["ROLLBACK"] = steps[r]["ROLLBACK"]
        BY <1>5, <2>1, <3>1 DEF StepKeys, RecoverySteps
      <4>3. Accomplished(r)'
        BY <1>4, <1>8, <2>2, <2>4, <4>1, <4>2 DEF Accomplished, PipelineSteps
      <4>4. QED
        BY <1>5, <1>6, <2>1, <2>2, <2>3, <3>1, <4>3 DEF GoesBack, Open
    <3>2. CASE run[r].code # "SOURCE_RESTORE_REQUESTED"
      <4>1. steps'[r]["RESTORE_SOURCE"] = steps[r]["RESTORE_SOURCE"]
        BY <1>5, <2>1, <3>2 DEF StepKeys, RecoverySteps
      <4>2. QED
        BY <1>5, <1>6, <2>1, <2>2, <2>3, <2>4, <3>2, <4>1 DEF GoesBack, Open
    <3>3. QED
      BY <3>1, <3>2
  <2>6. RunIsConsistent(r)'
    BY <1>6, <1>10, <2>2, <2>5 DEF RunIsConsistent, ForwardStatuses, PipelineSteps
  <2>7. JobIsConsistent(lease)'
    BY <1>2, <1>5, <1>6, <2>1, <2>2 DEF JobIsConsistent, Open, ForwardStatuses, PipelineSteps
  <2>8. QED
    BY <1>1, <1>2, <1>3, <1>7, <2>6, <2>7, OneRunChanges
<1>13. QED
  BY <1>1, <1>11, <1>12

\* What a worker that still owns the job it claimed knows about the run.
LEMMA HeldStep ==
  ASSUME TypeOK, JobInvariant, RunInvariant, NEW w \in Workers, HeldJobs(w) # {},
         NEW r, r = claim[w].run, NEW k, k = claim[w].step
  PROVE  /\ r \in Runs /\ k \in StepKeys /\ k # "AWAIT_CUTOVER"
         /\ \A i \in jobs : i \in HeldJobs(w) \/ i.run # r
         /\ \A i \in HeldJobs(w) : i.run = r
         /\ steps[r][k] = "RUNNING" /\ run[r].status = StatusForStep(k)
         /\ IsScheduled(r)
         /\ k \in PipelineSteps => /\ run[r].status = k /\ k \in ForwardStatuses
                                  /\ k \in ChainOf(r) /\ ReachedStep(r, k) /\ GoesForward(r)
         /\ k \in RecoverySteps => /\ run[r].status = "ROLLING_BACK" /\ GoesBack(r)
                                  /\ k = IF run[r].code = "SOURCE_RESTORE_REQUESTED"
                                           THEN "RESTORE_SOURCE" ELSE "ROLLBACK"
<1>1. PICK j \in HeldJobs(w) : TRUE
  OBVIOUS
<1>2. j \in jobs /\ j.run = r /\ j.step = k /\ j.owner # None
  BY WorkerAssumption DEF HeldJobs
<1>3. /\ r \in Runs /\ k \in StepKeys /\ k # "AWAIT_CUTOVER"
      /\ \A i \in jobs : i.run = r => i = j
      /\ JobIsConsistent(j) /\ RunIsConsistent(r) /\ IsScheduled(r)
  BY <1>2, OnlyJob
<1>4. steps[r][k] = "RUNNING" /\ run[r].status = StatusForStep(k)
  BY <1>2, <1>3 DEF JobIsConsistent
<1>5. ASSUME k \in PipelineSteps
      PROVE  /\ run[r].status = k /\ k \in ForwardStatuses
             /\ k \in ChainOf(r) /\ ReachedStep(r, k) /\ GoesForward(r)
  <2>1. run[r].status = k /\ k \in ForwardStatuses
    <3>1. k \notin RecoverySteps
      BY <1>5 DEF RecoverySteps, PipelineSteps
    <3>2. StatusForStep(k) = k
      BY <1>3, <3>1 DEF StatusForStep
    <3>3. QED
      BY <1>3, <1>4, <1>5, <3>2 DEF ForwardStatuses
  <2>2. k \in ChainOf(r) /\ ReachedStep(r, k)
    BY <1>2, <1>3, <2>1 DEF JobIsConsistent
  <2>3. QED
    BY <1>3, <2>1, <2>2 DEF RunIsConsistent
<1>6. ASSUME k \in RecoverySteps
      PROVE  /\ run[r].status = "ROLLING_BACK" /\ GoesBack(r)
             /\ k = IF run[r].code = "SOURCE_RESTORE_REQUESTED" THEN "RESTORE_SOURCE"
                                                               ELSE "ROLLBACK"
  <2>1. run[r].status = "ROLLING_BACK"
    BY <1>4, <1>6 DEF StatusForStep, RecoverySteps
  <2>2. QED
    BY <1>2, <1>3, <2>1 DEF JobIsConsistent, RunIsConsistent
<1>7. QED
  BY <1>1, <1>2, <1>3, <1>4, <1>5, <1>6 DEF HeldJobs

LEMMA HeldRun ==
  ASSUME TypeOK, NEW w \in Workers, HeldJobs(w) # {}
  PROVE  \E r \in Runs, k \in StepKeys : r = claim[w].run /\ k = claim[w].step
  BY DEF HeldJobs, TypeOK, Jobs

\* In a rollback or restoration no step is pending but its own.
LEMMA NothingPendingBehind ==
  ASSUME TypeOK, NEW r \in Runs, IsScheduled(r), GoesBack(r), NEW n \in StepKeys,
         steps[r][n] = "PENDING"
  PROVE  n \in RecoverySteps
<1> SUFFICES ASSUME n \in PipelineSteps PROVE FALSE
  BY DEF StepKeys
<1>1. n \in ChainOf(r)
  BY DEF IsScheduled
<1>2. QED
  BY <1>1 DEF GoesBack, Accomplished, Interrupted

LEMMA NextStepFollows ==
  ASSUME TypeOK, NEW r \in Runs, NEW k \in PipelineSteps, NEW n \in StepKeys,
         IsScheduled(r), GoesForward(r), k \in ChainOf(r), ReachedStep(r, k),
         steps[r][k] = "RUNNING", IsNextStep(r, n)
  PROVE  /\ n \in PipelineSteps /\ n # k
         /\ FollowsInChain(r, k, n)
         /\ \A m \in ChainOf(r) : m # k /\ m # n =>
              /\ Rank[m] < Rank[n] => steps[r][m] = "SUCCEEDED"
              /\ Rank[n] < Rank[m] => steps[r][m] = "PENDING"
<1>1. n \in PipelineSteps /\ n \in ChainOf(r) /\ n # k /\ steps[r][n] = "PENDING"
  BY DEF IsNextStep, GoesForward, NoRecovery, StepKeys, RecoverySteps, IsScheduled
<1>2. \A m \in ChainOf(r) : m \in StepKeys /\ Rank[m] \in Nat
  BY ChainIsPipeline, PipelineInSteps, RankIsNumber
<1>3. k \in StepKeys /\ \A m \in ChainOf(r) : Rank[m] < Rank[k] \/ Rank[k] < Rank[m] \/ m = k
  BY <1>2, PipelineInSteps, RankIsStrict, RankIsNumber
<1>4. Rank[k] < Rank[n]
  BY <1>1, <1>2, <1>3 DEF ReachedStep
<1>5. \A m \in ChainOf(r) : Rank[k] < Rank[m] => steps[r][m] = "PENDING" /\ Rank[n] <= Rank[m]
  BY <1>2 DEF ReachedStep, IsNextStep
<1>6. FollowsInChain(r, k, n)
  BY <1>1, <1>2, <1>3, <1>4, <1>5 DEF FollowsInChain
<1>7. ASSUME NEW m \in ChainOf(r), m # k, m # n
      PROVE  /\ Rank[m] < Rank[n] => steps[r][m] = "SUCCEEDED"
             /\ Rank[n] < Rank[m] => steps[r][m] = "PENDING"
  BY <1>1, <1>2, <1>3, <1>4, <1>5, <1>7 DEF ReachedStep
<1>8. QED
  BY <1>1, <1>6, <1>7

\* The chain after step k has succeeded and n is next.
LEMMA StepSucceeds ==
  ASSUME TypeOK, NEW r \in Runs, NEW k \in PipelineSteps, NEW n \in PipelineSteps,
         ChainOf(r)' = ChainOf(r), k \in ChainOf(r), FollowsInChain(r, k, n),
         \A m \in ChainOf(r) : m # k /\ m # n =>
           /\ Rank[m] < Rank[n] => steps[r][m] = "SUCCEEDED"
           /\ Rank[n] < Rank[m] => steps[r][m] = "PENDING",
         steps'[r][k] = "SUCCEEDED",
         \A m \in StepKeys : m # k /\ m # n => steps'[r][m] = steps[r][m]
  PROVE  ReachedStep(r, n)'
<1>1. \A m \in ChainOf(r) : m \in StepKeys /\ Rank[m] \in Nat
  BY ChainIsPipeline, PipelineInSteps, RankIsNumber
<1>2. n \in ChainOf(r) /\ Rank[k] < Rank[n]
  BY DEF FollowsInChain
<1>3. QED
  BY <1>1, <1>2 DEF ReachedStep

\* A worker that completes a step before another one is not rolling back.
LEMMA HeldIsForward ==
  ASSUME TypeOK, JobInvariant, RunInvariant, NEW w \in Workers, HeldJobs(w) # {},
         NEW r \in Runs, NEW k \in StepKeys, r = claim[w].run, k = claim[w].step,
         NEW n \in StepKeys, IsNextStep(r, n)
  PROVE  k \in PipelineSteps
<1>1. SUFFICES ASSUME k \in RecoverySteps PROVE FALSE
  BY DEF StepKeys
<1>2. steps[r][k] = "RUNNING" /\ steps[r][n] = "PENDING" /\ IsScheduled(r) /\ GoesBack(r)
  BY <1>1, HeldStep DEF IsNextStep
<1>3. k = IF run[r].code = "SOURCE_RESTORE_REQUESTED" THEN "RESTORE_SOURCE" ELSE "ROLLBACK"
  BY <1>1, HeldStep
<1>4. n \in RecoverySteps /\ n # k
  BY <1>2, NothingPendingBehind
<1>5. CASE run[r].code = "SOURCE_RESTORE_REQUESTED"
  BY <1>2, <1>3, <1>4, <1>5 DEF GoesBack, Accomplished, RecoverySteps
<1>6. CASE run[r].code # "SOURCE_RESTORE_REQUESTED"
  BY <1>2, <1>3, <1>4, <1>6 DEF GoesBack, RecoverySteps
<1>7. QED
  BY <1>5, <1>6

LEMMA CompleteAndEnqueueConsistent ==
  ASSUME TypeOK, JobInvariant, RunInvariant, NEW w \in Workers, CompleteAndEnqueue(w)
  PROVE  RunInvariant'
<1>0. PICK r \in Runs, k \in StepKeys : r = claim[w].run /\ k = claim[w].step
  BY HeldRun DEF CompleteAndEnqueue
<1>1. PICK n \in StepKeys \ {"AWAIT_CUTOVER"} :
        IsNextStep(r, n) /\ jobs' = (jobs \ HeldJobs(w)) \cup {NewJob(r, n)}
  BY <1>0 DEF CompleteAndEnqueue
<1>2. /\ HeldJobs(w) # {} /\ steps' = [steps EXCEPT ![r][k] = "SUCCEEDED"]
      /\ run' = run /\ confirmed' = confirmed /\ quiesced' = quiesced
  BY <1>0 DEF CompleteAndEnqueue
<1>3. /\ r \in Runs /\ k \in StepKeys
      /\ \A i \in jobs : i \in HeldJobs(w) \/ i.run # r
      /\ \A i \in HeldJobs(w) : i.run = r
      /\ steps[r][k] = "RUNNING" /\ IsScheduled(r)
  BY <1>2, <1>0, HeldStep
<1>4. k \in PipelineSteps
  BY <1>0, <1>1, <1>2, HeldIsForward
<1>5. /\ run[r].status = k /\ k \in ForwardStatuses
      /\ k \in ChainOf(r) /\ ReachedStep(r, k) /\ GoesForward(r)
  BY <1>2, <1>4, <1>0, HeldStep
<1>6. /\ n \in PipelineSteps /\ n # k /\ FollowsInChain(r, k, n)
      /\ \A m \in ChainOf(r) : m # k /\ m # n =>
           /\ Rank[m] < Rank[n] => steps[r][m] = "SUCCEEDED"
           /\ Rank[n] < Rank[m] => steps[r][m] = "PENDING"
  BY <1>1, <1>3, <1>4, <1>5, NextStepFollows
<1>7. /\ steps'[r][k] = "SUCCEEDED"
      /\ \A m \in StepKeys : m # k => steps'[r][m] = steps[r][m]
      /\ \A q \in Runs : q # r => steps'[q] = steps[q]
  BY <1>2, <1>3, StepSet
<1>8. ChainOf(r)' = ChainOf(r)
  BY <1>2 DEF ChainOf
<1>9. ReachedStep(r, n)'
  BY <1>3, <1>4, <1>5, <1>6, <1>7, <1>8, StepSucceeds
<1>10. \A q \in Runs : q # r => RunIsKept(q)
  BY <1>2, <1>7 DEF RunIsKept
<1>11. RunIsConsistent(r)'
  <2>1. IsScheduled(r)'
    BY <1>2, <1>3, <1>5, <1>7, <1>8, PipelineInSteps DEF IsScheduled
  <2>2. NoRecovery(r)'
    BY <1>4, <1>5, <1>7 DEF GoesForward, NoRecovery, StepKeys, PipelineSteps, RecoverySteps
  <2>3. GoesForward(r)'
    BY <1>2, <1>4, <1>5, <2>2 DEF GoesForward, AtGate, PipelineSteps
  <2>4. QED
    BY <1>2, <1>5, <2>1, <2>3 DEF RunIsConsistent, ForwardStatuses, PipelineSteps
<1>12. steps'[r][n] = "PENDING"
  BY <1>1, <1>6, <1>7 DEF IsNextStep
<1>13. FollowsInChain(r, k, n)'
  BY <1>6, <1>8 DEF FollowsInChain
<1>14. JobIsConsistent(NewJob(r, n))'
  BY <1>2, <1>5, <1>6, <1>8, <1>9, <1>12, <1>13
     DEF JobIsConsistent, NewJob, Open, FollowsInChain, ForwardStatuses, PipelineSteps
<1>15. \A j \in jobs' : (j \in jobs /\ j.run # r) \/ j = NewJob(r, n)
  BY <1>1, <1>3
<1>16. \A j \in jobs' : j \in jobs \/ j.run = r
  BY <1>15 DEF NewJob
<1>17. QED
  BY <1>3, <1>10, <1>11, <1>14, <1>15, <1>16, OneRunChanges

LEMMA CompleteAndOpenGateConsistent ==
  ASSUME TypeOK, JobInvariant, RunInvariant, NEW w \in Workers, CompleteAndOpenGate(w)
  PROVE  RunInvariant'
<1> DEFINE gate == "AWAIT_CUTOVER"
<1>0. PICK r \in Runs, k \in StepKeys : r = claim[w].run /\ k = claim[w].step
  BY HeldRun DEF CompleteAndOpenGate
<1>1. /\ HeldJobs(w) # {} /\ IsNextStep(r, gate) /\ jobs' = jobs \ HeldJobs(w)
      /\ steps' = [steps EXCEPT ![r][k] = "SUCCEEDED", ![r]["AWAIT_CUTOVER"] = "RUNNING"]
      /\ run' = [run EXCEPT ![r].status = "AWAITING_CUTOVER"]
      /\ confirmed' = confirmed /\ quiesced' = quiesced
  BY <1>0 DEF CompleteAndOpenGate
<1>2. /\ r \in Runs /\ k \in StepKeys /\ k # gate
      /\ \A i \in jobs : i \in HeldJobs(w) \/ i.run # r
      /\ steps[r][k] = "RUNNING" /\ IsScheduled(r)
  BY <1>1, <1>0, HeldStep
<1>3. gate \in StepKeys /\ gate \in PipelineSteps /\ steps[r][gate] = "PENDING"
  BY <1>1 DEF StepKeys, PipelineSteps, IsNextStep
<1>4. k \in PipelineSteps
  BY <1>0, <1>1, <1>3, HeldIsForward
<1>5. /\ run[r].status = k /\ k \in ForwardStatuses
      /\ k \in ChainOf(r) /\ ReachedStep(r, k) /\ GoesForward(r)
  BY <1>1, <1>4, <1>0, HeldStep
<1>6. /\ FollowsInChain(r, k, gate)
      /\ \A m \in ChainOf(r) : m # k /\ m # gate =>
           /\ Rank[m] < Rank[gate] => steps[r][m] = "SUCCEEDED"
           /\ Rank[gate] < Rank[m] => steps[r][m] = "PENDING"
  BY <1>1, <1>2, <1>3, <1>4, <1>5, NextStepFollows
<1>7. k = "VALIDATION"
  BY <1>6, ChainFollows DEF Successors
<1>8. /\ steps'[r][k] = "SUCCEEDED" /\ steps'[r][gate] = "RUNNING"
      /\ \A m \in StepKeys : m # k /\ m # gate => steps'[r][m] = steps[r][m]
      /\ \A q \in Runs : q # r => steps'[q] = steps[q]
  BY <1>1, <1>2, <1>3 DEF TypeOK, StepRows
<1>9. /\ run'[r].status = "AWAITING_CUTOVER" /\ run'[r].code = run[r].code
      /\ run'[r].plan = run[r].plan /\ \A q \in Runs : q # r => run'[q] = run[q]
  BY <1>1, <1>2 DEF TypeOK, RunRows
<1>10. ChainOf(r)' = ChainOf(r)
  BY <1>9 DEF ChainOf
<1>11. ReachedStep(r, gate)'
  BY <1>2, <1>3, <1>4, <1>5, <1>6, <1>8, <1>10, StepSucceeds
<1>12. \A q \in Runs : q # r => RunIsKept(q)
  BY <1>1, <1>8, <1>9 DEF RunIsKept
<1>13. RunIsConsistent(r)'
  <2>1. \A m \in PipelineSteps : steps'[r][m] = "ABSENT" <=> steps[r][m] = "ABSENT"
    BY <1>2, <1>3, <1>8, PipelineInSteps
  <2>2. IsScheduled(r)'
    BY <1>2, <1>9, <1>10, <2>1 DEF IsScheduled
  <2>3. NoRecovery(r)'
    BY <1>5, <1>7, <1>8 DEF GoesForward, NoRecovery, StepKeys, RecoverySteps
  <2>4. GoesForward(r)'
    BY <1>1, <1>5, <1>7, <1>8, <1>9, <1>11, <2>3 DEF GoesForward, RequiresRollback
  <2>5. QED
    BY <1>9, <2>2, <2>4 DEF RunIsConsistent, ForwardStatuses, PipelineSteps
<1>14. \A j \in jobs' : j \in jobs /\ j.run # r
  BY <1>1, <1>2
<1>15. QED
  BY <1>2, <1>12, <1>13, <1>14, OneRunChanges

\* Recovery step k of run r changes: what else the run has done is as before.
RestIsKept(r, k) ==
  /\ IsScheduled(r)'
  /\ Interrupted(r)' <=> Interrupted(r)
  /\ \A m \in RecoverySteps : m # k => steps'[r][m] = steps[r][m]
  /\ k = "RESTORE_SOURCE" => (Accomplished(r)' <=> Accomplished(r))

LEMMA RecoveryKept ==
  ASSUME TypeOK, NEW r \in Runs, NEW k \in RecoverySteps, NEW status, IsScheduled(r),
         steps' = [steps EXCEPT ![r][k] = status], run'[r].plan = run[r].plan,
         quiesced' = quiesced, confirmed' = confirmed
  PROVE  RestIsKept(r, k)
<1>1. /\ steps'[r][k] = status
      /\ \A m \in StepKeys : m # k => steps'[r][m] = steps[r][m]
      /\ \A m \in PipelineSteps : steps'[r][m] = steps[r][m]
  <2>1. \A m \in PipelineSteps : m \in StepKeys /\ m # k
    BY DEF StepKeys, PipelineSteps, RecoverySteps
  <2>2. k \in StepKeys
    BY DEF StepKeys
  <2>3. QED
    BY <2>1, <2>2 DEF TypeOK, StepRows
<1>2. ChainOf(r)' = ChainOf(r)
  BY DEF ChainOf
<1>3. Interrupted(r)' <=> Interrupted(r)
  BY <1>1, <1>2, SameChain
<1>4. \A m \in ChainOf(r) : steps'[r][m] = steps[r][m]
  BY <1>1, ChainIsPipeline
<1>5. \A m \in RecoverySteps : m # k => steps'[r][m] = steps[r][m]
  BY <1>1 DEF StepKeys
<1>6. k = "RESTORE_SOURCE" => (Accomplished(r)' <=> Accomplished(r))
  BY <1>1, <1>2, <1>3, <1>4, <1>5 DEF Accomplished, RecoverySteps, PipelineSteps
<1>7. QED
  BY <1>1, <1>2, <1>3, <1>5, <1>6 DEF IsScheduled, RestIsKept

LEMMA CompleteRollbackConsistent ==
  ASSUME TypeOK, JobInvariant, RunInvariant, NEW w \in Workers, CompleteRollback(w)
  PROVE  RunInvariant'
<1>0. PICK r \in Runs, k \in StepKeys : r = claim[w].run /\ k = claim[w].step
  BY HeldRun DEF CompleteRollback
<1> DEFINE outcome == AfterRollback(run[r].code)
           code == IF run[r].code = "SOURCE_RESTORE_REQUESTED" THEN "SOURCE_RESTORED"
                                                               ELSE run[r].code
<1>1. /\ HeldJobs(w) # {} /\ k \in RecoverySteps /\ jobs' = jobs \ HeldJobs(w)
      /\ steps' = [steps EXCEPT ![r][k] = "SUCCEEDED"]
      /\ SetRun(r, outcome.run, code)
      /\ confirmed' = confirmed /\ quiesced' = quiesced
  BY <1>0 DEF CompleteRollback
<1> HIDE DEF outcome, code
<1>2. /\ \A i \in jobs : i \in HeldJobs(w) \/ i.run # r
      /\ IsScheduled(r) /\ GoesBack(r)
      /\ k = IF run[r].code = "SOURCE_RESTORE_REQUESTED" THEN "RESTORE_SOURCE" ELSE "ROLLBACK"
  BY <1>1, <1>0, HeldStep
<1>3. /\ run'[r].status = outcome.run /\ run'[r].code = code
      /\ run'[r].plan = run[r].plan /\ \A q \in Runs : q # r => run'[q] = run[q]
  BY <1>1 DEF TypeOK, RunRows, SetRun
<1>4. RestIsKept(r, k)
  BY <1>1, <1>2, <1>3, RecoveryKept
<1>5. \A q \in Runs : q # r => RunIsKept(q)
  BY <1>1, <1>3, RecoveryStepSet DEF RunIsKept
<1>6. IsScheduled(r)' /\ steps'[r][k] = "SUCCEEDED"
  BY <1>1, <1>4 DEF TypeOK, StepRows, RestIsKept
<1>7. RunIsConsistent(r)'
  <2>1. CASE run[r].code = "SOURCE_RESTORE_REQUESTED"
    <3>1. run'[r].status = "COMPLETED" /\ run'[r].code = "SOURCE_RESTORED"
      BY <1>3, <2>1 DEF outcome, code, AfterRollback
    <3>2. HasCompleted(r)'
      BY <1>2, <1>4, <1>6, <2>1, <3>1 DEF GoesBack, HasCompleted, RestIsKept
    <3>3. QED
      BY <1>6, <3>1, <3>2 DEF RunIsConsistent, ForwardStatuses, PipelineSteps
  <2>2. CASE run[r].code = "CANCEL_REQUESTED"
    <3>1. run'[r].status = "CANCELLED" /\ run'[r].code = "CANCEL_REQUESTED"
      BY <1>3, <2>2 DEF outcome, code, AfterRollback
    <3>2. WasCancelled(r)'
      BY <1>1, <1>2, <1>4, <1>6, <2>2, <3>1 DEF GoesBack, WasCancelled, RestIsKept, RecoverySteps
    <3>3. QED
      BY <1>6, <3>1, <3>2 DEF RunIsConsistent, ForwardStatuses, PipelineSteps
  <2>3. CASE run[r].code = "STEP_FAILED"
    <3>1. run'[r].status = "FAILED" /\ run'[r].code = "STEP_FAILED"
      BY <1>3, <2>3 DEF outcome, code, AfterRollback
    <3>2. HasFailed(r)'
      BY <1>1, <1>2, <1>4, <1>6, <2>3, <3>1 DEF GoesBack, HasFailed, RestIsKept, RecoverySteps
    <3>3. QED
      BY <1>6, <3>1, <3>2 DEF RunIsConsistent, ForwardStatuses, PipelineSteps
  <2>4. QED
    BY <1>2, <2>1, <2>2, <2>3 DEF GoesBack
<1>8. \A j \in jobs' : j \in jobs /\ j.run # r
  BY <1>1, <1>2
<1>9. QED
  BY <1>5, <1>7, <1>8, OneRunChanges

LEMMA RetryJobConsistent ==
  ASSUME TypeOK, JobInvariant, RunInvariant, NEW w \in Workers, RetryJob(w)
  PROVE  RunInvariant'
<1>0. PICK r \in Runs, k \in StepKeys : r = claim[w].run /\ k = claim[w].step
  BY HeldRun DEF RetryJob
<1>1. PICK j \in HeldJobs(w) : TRUE
  BY DEF RetryJob
<1>2. j \in jobs /\ j \in Jobs /\ HeldJobs(w) = {j} /\ j.run = r /\ j.step = k
  BY <1>0 DEF HeldJobs, TypeOK, JobInvariant, OneJobPerRun
<1> DEFINE freed == [j EXCEPT !.owner = None, !.expired = FALSE]
<1>3. jobs' = (jobs \ {j}) \cup {freed}
  BY <1>2 DEF RetryJob
<1>4. freed.run = r /\ freed.step = k /\ freed.owner = None
  BY <1>2 DEF Jobs
<1> HIDE DEF freed
<1>5. /\ steps' = [steps EXCEPT ![r][k] = "PENDING"]
      /\ run' = run /\ confirmed' = confirmed /\ quiesced' = quiesced
  BY <1>0 DEF RetryJob
<1>6. /\ k # "AWAIT_CUTOVER" /\ \A i \in jobs : i = j \/ i.run # r
      /\ steps[r][k] = "RUNNING" /\ run[r].status = StatusForStep(k) /\ IsScheduled(r)
  BY <1>0, <1>2, HeldStep
<1>7. /\ steps'[r][k] = "PENDING"
      /\ \A m \in StepKeys : m # k => steps'[r][m] = steps[r][m]
      /\ \A q \in Runs : q # r => steps'[q] = steps[q]
  BY <1>5 DEF TypeOK, StepRows
<1>8. ChainOf(r)' = ChainOf(r)
  BY <1>5 DEF ChainOf
<1>9. \A q \in Runs : q # r => RunIsKept(q)
  BY <1>5, <1>7 DEF RunIsKept
<1>10. \A i \in jobs' : (i \in jobs /\ i.run # r) \/ i = freed
  BY <1>3, <1>6
<1>11. IsScheduled(r)'
  BY <1>5, <1>6, <1>7, <1>8, PipelineInSteps DEF IsScheduled
<1>12. CASE k \in PipelineSteps
  <2>1. /\ run[r].status = k /\ k \in ForwardStatuses
        /\ k \in ChainOf(r) /\ ReachedStep(r, k) /\ GoesForward(r)
    BY <1>0, <1>2, <1>12, HeldStep
  <2>2. NoRecovery(r)'
    BY <1>7, <1>12, <2>1 DEF GoesForward, NoRecovery, StepKeys, PipelineSteps, RecoverySteps
  <2>3. GoesForward(r)'
    BY <1>5, <1>12, <2>1, <2>2 DEF GoesForward, AtGate, PipelineSteps
  <2>4. RunIsConsistent(r)'
    BY <1>5, <1>11, <1>12, <2>1, <2>3 DEF RunIsConsistent, PipelineSteps
  <2>5. ReachedStep(r, k)'
    BY <1>7, <1>8, <2>1, ReachedKept
  <2>6. JobIsConsistent(freed)'
    BY <1>4, <1>5, <1>7, <1>8, <1>12, <2>1, <2>5 DEF JobIsConsistent, Open, PipelineSteps
  <2>7. QED
    BY <1>4, <1>9, <1>10, <2>4, <2>6, OneRunChanges
<1>13. CASE k \in RecoverySteps
  <2>1. /\ run[r].status = "ROLLING_BACK" /\ GoesBack(r)
        /\ k = IF run[r].code = "SOURCE_RESTORE_REQUESTED" THEN "RESTORE_SOURCE"
                                                           ELSE "ROLLBACK"
    BY <1>0, <1>2, <1>13, HeldStep
  <2>2. RestIsKept(r, k)
    BY <1>5, <1>6, <1>13, RecoveryKept
  <2>3. GoesBack(r)'
    BY <1>5, <1>7, <1>13, <2>1, <2>2 DEF GoesBack, RestIsKept, RecoverySteps, Open
  <2>4. RunIsConsistent(r)'
    BY <1>5, <1>11, <2>1, <2>3 DEF RunIsConsistent, ForwardStatuses, PipelineSteps
  <2>5. JobIsConsistent(freed)'
    BY <1>4, <1>5, <1>7, <2>1 DEF JobIsConsistent, Open, ForwardStatuses, PipelineSteps
  <2>6. QED
    BY <1>4, <1>9, <1>10, <2>4, <2>5, OneRunChanges
<1>14. QED
  BY <1>12, <1>13 DEF StepKeys

LEMMA FailRunConsistent ==
  ASSUME TypeOK, JobInvariant, RunInvariant, NEW w \in Workers, FailRun(w)
  PROVE  RunInvariant'
<1>0. PICK r \in Runs, k \in StepKeys : r = claim[w].run /\ k = claim[w].step
  BY HeldRun DEF FailRun
<1>1. /\ HeldJobs(w) # {} /\ EndsRun(r, k) /\ jobs' = jobs \ HeldJobs(w)
      /\ steps' = [steps EXCEPT ![r][k] = "FAILED"]
      /\ SetRun(r, "FAILED", "STEP_FAILED")
      /\ confirmed' = confirmed /\ quiesced' = quiesced
  BY <1>0 DEF FailRun
<1>2. /\ k # "AWAIT_CUTOVER" /\ \A i \in jobs : i \in HeldJobs(w) \/ i.run # r
      /\ steps[r][k] = "RUNNING" /\ IsScheduled(r)
  BY <1>0, <1>1, HeldStep
<1>3. /\ run'[r].status = "FAILED" /\ run'[r].code = "STEP_FAILED"
      /\ run'[r].plan = run[r].plan /\ \A q \in Runs : q # r => run'[q] = run[q]
  BY <1>1 DEF TypeOK, RunRows, SetRun
<1>4. /\ steps'[r][k] = "FAILED"
      /\ \A m \in StepKeys : m # k => steps'[r][m] = steps[r][m]
      /\ \A q \in Runs : q # r => steps'[q] = steps[q]
  BY <1>1 DEF TypeOK, StepRows
<1>5. ChainOf(r)' = ChainOf(r)
  BY <1>3 DEF ChainOf
<1>6. \A q \in Runs : q # r => RunIsKept(q)
  BY <1>1, <1>3, <1>4 DEF RunIsKept
<1>7. \A j \in jobs' : j \in jobs /\ j.run # r
  BY <1>1, <1>2
<1>8. IsScheduled(r)'
  BY <1>2, <1>3, <1>4, <1>5, PipelineInSteps DEF IsScheduled
<1>9. HasFailed(r)'
  <2>1. CASE k \in PipelineSteps
    <3>1. /\ run[r].status = k /\ k \in ChainOf(r) /\ ReachedStep(r, k) /\ GoesForward(r)
      BY <1>0, <1>1, <2>1, HeldStep
    <3>2. ~RequiresRollback(k)
      BY <1>1, <2>1, <3>1 DEF EndsRun, PipelineSteps, RecoverySteps
    <3>3. k \in {"PREFLIGHT", "PRESYNC"}
      BY <1>2, <2>1, <3>2 DEF RequiresRollback, PipelineSteps
    <3>4. ReachedStep(r, k)'
      BY <1>4, <1>5, <3>1, ReachedKept
    <3>5. NoRecovery(r)'
      BY <1>4, <2>1, <3>1 DEF GoesForward, NoRecovery, StepKeys, PipelineSteps, RecoverySteps
    <3>6. r \notin quiesced' /\ r \notin confirmed'
      BY <1>1, <3>1, <3>2 DEF GoesForward
    <3>7. QED
      BY <1>3, <1>4, <1>5, <3>1, <3>3, <3>4, <3>5, <3>6 DEF HasFailed
  <2>2. CASE k \in RecoverySteps
    <3>1. /\ GoesBack(r)
          /\ k = IF run[r].code = "SOURCE_RESTORE_REQUESTED" THEN "RESTORE_SOURCE"
                                                             ELSE "ROLLBACK"
      BY <1>0, <1>1, <2>2, HeldStep
    <3>2. RestIsKept(r, k)
      BY <1>1, <1>2, <1>3, <2>2, RecoveryKept
    <3>3. QED
      BY <1>1, <1>3, <1>4, <2>2, <3>1, <3>2 DEF GoesBack, HasFailed, RestIsKept, RecoverySteps
  <2>3. QED
    BY <2>1, <2>2 DEF StepKeys
<1>10. RunIsConsistent(r)'
  BY <1>3, <1>8, <1>9 DEF RunIsConsistent, ForwardStatuses, PipelineSteps
<1>11. QED
  BY <1>6, <1>7, <1>10, OneRunChanges

LEMMA FailAndRollBackConsistent ==
  ASSUME TypeOK, JobInvariant, RunInvariant, NEW w \in Workers, FailAndRollBack(w)
  PROVE  RunInvariant'
<1>0. PICK r \in Runs, k \in StepKeys : r = claim[w].run /\ k = claim[w].step
  BY HeldRun DEF FailAndRollBack
<1>1. /\ HeldJobs(w) # {} /\ ~EndsRun(r, k)
      /\ jobs' = (jobs \ HeldJobs(w)) \cup {NewJob(r, "ROLLBACK")}
      /\ steps' = [steps EXCEPT ![r] =
           [m \in StepKeys |->
              CASE m = "ROLLBACK"           -> "PENDING"
                [] m = k                    -> "FAILED"
                [] steps[r][m] = "PENDING"  -> "SKIPPED"
                [] OTHER                    -> steps[r][m]]]
      /\ SetRun(r, "ROLLING_BACK", "STEP_FAILED")
      /\ confirmed' = confirmed /\ quiesced' = quiesced
  BY <1>0 DEF FailAndRollBack
<1>2. /\ k \in PipelineSteps /\ k \notin RecoverySteps
      /\ \A i \in jobs : i \in HeldJobs(w) \/ i.run # r
      /\ steps[r][k] = "RUNNING" /\ IsScheduled(r)
  BY <1>0, <1>1, HeldStep DEF EndsRun, StepKeys
<1>3. /\ run[r].status = k /\ k \in ChainOf(r) /\ ReachedStep(r, k) /\ GoesForward(r)
  BY <1>0, <1>1, <1>2, HeldStep
<1>4. /\ run'[r].status = "ROLLING_BACK" /\ run'[r].code = "STEP_FAILED"
      /\ run'[r].plan = run[r].plan /\ \A q \in Runs : q # r => run'[q] = run[q]
  BY <1>1 DEF TypeOK, RunRows, SetRun
<1>5. ChainOf(r)' = ChainOf(r)
  BY <1>4 DEF ChainOf
<1>6. \A q \in Runs : q # r => steps'[q] = steps[q]
  BY <1>1 DEF TypeOK
<1>7. \A m \in StepKeys : steps'[r][m] = CASE m = "ROLLBACK"           -> "PENDING"
                                           [] m = k                    -> "FAILED"
                                           [] steps[r][m] = "PENDING"  -> "SKIPPED"
                                           [] OTHER                    -> steps[r][m]
  BY <1>1 DEF TypeOK
<1>8. \A m \in PipelineSteps : /\ m \in StepKeys
                               /\ m = k => steps'[r][m] = "FAILED"
                               /\ m # k /\ steps[r][m] = "PENDING" => steps'[r][m] = "SKIPPED"
                               /\ m # k /\ steps[r][m] # "PENDING" => steps'[r][m] = steps[r][m]
  <2>1. \A m \in PipelineSteps : m \in StepKeys /\ m # "ROLLBACK"
    BY DEF StepKeys, PipelineSteps
  <2>2. QED
    BY <1>2, <1>7, <2>1
<1>9. steps'[r]["ROLLBACK"] = "PENDING" /\ steps'[r]["RESTORE_SOURCE"] = "ABSENT"
  <2>1. \A m \in RecoverySteps : m \in StepKeys /\ m # k
    BY <1>2 DEF StepKeys
  <2>2. NoRecovery(r)
    BY <1>3 DEF GoesForward
  <2>3. QED
    BY <1>7, <2>1, <2>2 DEF NoRecovery, RecoverySteps
<1>10. Interrupted(r)'
  <2>1. \A m \in ChainOf(r) : m \in PipelineSteps /\ Rank[m] \in Nat
    BY ChainIsPipeline, PipelineInSteps, RankIsNumber
  <2>2. \A m \in ChainOf(r) : m = k \/ Rank[m] < Rank[k] \/ Rank[k] < Rank[m]
    BY <2>1, PipelineInSteps, RankIsStrict, RankIsNumber
  <2>3. \A m \in ChainOf(r) : /\ m = k => steps'[r][m] = "FAILED"
                              /\ Rank[m] < Rank[k] => steps'[r][m] = "SUCCEEDED"
                              /\ Rank[k] < Rank[m] => steps'[r][m] = "SKIPPED"
    BY <1>3, <1>8, <2>1 DEF ReachedStep
  <2>4. InOrder(r)'
    BY <1>3, <1>5, <2>1, <2>2, <2>3 DEF InOrder
  <2>5. \A m \in ChainOf(r) : steps'[r][m] \in {"SUCCEEDED", "FAILED", "SKIPPED"}
    BY <2>2, <2>3
  <2>6. QED
    BY <1>1, <1>3, <1>5, <2>4, <2>5 DEF Interrupted, GoesForward
<1>11. GoesBack(r)'
  <2>1. r \in quiesced'
    BY <1>1, <1>2, <1>3 DEF EndsRun, GoesForward
  <2>2. QED
    BY <1>4, <1>9, <1>10, <2>1 DEF GoesBack, Open
<1>12. RunIsConsistent(r)'
  <2>1. IsScheduled(r)'
    BY <1>2, <1>4, <1>5, <1>8 DEF IsScheduled
  <2>2. QED
    BY <1>4, <1>11, <2>1 DEF RunIsConsistent, ForwardStatuses, PipelineSteps
<1>13. JobIsConsistent(NewJob(r, "ROLLBACK"))'
  BY <1>4, <1>9 DEF JobIsConsistent, NewJob, Open, ForwardStatuses, PipelineSteps
<1>14. \A j \in jobs' : (j \in jobs /\ j.run # r) \/ j = NewJob(r, "ROLLBACK")
  BY <1>1, <1>2
<1>15. \A j \in jobs' : j \in jobs \/ j.run = r
  BY <1>14 DEF NewJob
<1>16. \A q \in Runs : q # r => RunIsKept(q)
  BY <1>1, <1>4, <1>6 DEF RunIsKept
<1>17. QED
  BY <1>12, <1>13, <1>14, <1>15, <1>16, OneRunChanges

LEMMA ExpireConsistent ==
  ASSUME TypeOK, JobInvariant, RunInvariant, NEW j \in jobs, LeaseRunsOut(j) \/ HeartbeatLate(j)
  PROVE  RunInvariant'
<1> DEFINE late == [j EXCEPT !.expired = TRUE]
<1>1. /\ jobs' = (jobs \ {j}) \cup {late} /\ run' = run /\ steps' = steps
      /\ quiesced' = quiesced /\ confirmed' = confirmed
  BY DEF LeaseRunsOut, HeartbeatLate, Expire
<1>2. late.run = j.run /\ late.step = j.step /\ late.owner = j.owner
  BY DEF TypeOK, Jobs
<1> HIDE DEF late
<1>3. \A q : RunIsKept(q)
  BY <1>1 DEF RunIsKept
<1>4. JobIsConsistent(j)'
  BY <1>3, KeptJob DEF RunInvariant
<1>5. JobIsConsistent(late)'
  BY <1>2, <1>4 DEF JobIsConsistent
<1>6. QED
  BY <1>1, <1>3, <1>5, KeptRun, KeptJob DEF RunInvariant

LEMMA NextConsistent ==
  TypeOK /\ JobInvariant /\ RunInvariant /\ [Next]_vars => RunInvariant'
<1> SUFFICES ASSUME TypeOK, JobInvariant, RunInvariant, [Next]_vars PROVE RunInvariant'
  OBVIOUS
<1>1. ASSUME NEW p \in Plans, NEW status \in PlanStatuses, Preflight(p, status)
      PROVE  RunInvariant'
  BY <1>1, NoRunChanges DEF Preflight
<1>2. ASSUME NEW p \in Plans, NEW r \in Runs, Start(p, r) PROVE RunInvariant'
  BY <1>2, ScheduleConsistent DEF Start
<1>3. ASSUME NEW previous \in Runs, NEW r \in Runs, RetryRun(previous, r)
      PROVE  RunInvariant'
  <2>1. run[previous].plan \in Plans
    BY <1>3, EndedIsScheduled DEF RetryRun
  <2>2. QED
    BY <1>3, <2>1, ScheduleConsistent DEF RetryRun
<1>4. ASSUME NEW r \in Runs, Administrator(r) PROVE RunInvariant'
  <2>1. CASE DeleteRun(r)
    BY <2>1, NoRunChanges DEF DeleteRun
  <2>2. QED
    BY <1>4, <2>1, CancelConsistent, RestoreSourceConsistent, ConfirmCutoverConsistent,
       ReconcileConsistent DEF Administrator
<1>5. ASSUME NEW w \in Workers, Worker(w) PROVE RunInvariant'
  <2>1. CASE \/ \E result \in {"succeeded", "failed"} : HandlerReturns(w, result)
             \/ HeartbeatRejected(w) \/ AbandonJob(w) \/ StaleResult(w)
    BY <2>1, NoRunChanges DEF HandlerReturns, HeartbeatRejected, AbandonJob, StaleResult, database
  <2>2. CASE \E j \in jobs : Claim(w, j)
    BY <2>2, ClaimConsistent
  <2>3. CASE CompleteAndEnqueue(w) \/ CompleteAndOpenGate(w) \/ CompleteRollback(w)
    BY <2>3, CompleteAndEnqueueConsistent, CompleteAndOpenGateConsistent,
       CompleteRollbackConsistent
  <2>4. CASE RetryJob(w) \/ FailRun(w) \/ FailAndRollBack(w)
    BY <2>4, RetryJobConsistent, FailRunConsistent, FailAndRollBackConsistent
  <2>5. QED
    BY <1>5, <2>1, <2>2, <2>3, <2>4 DEF Worker, StoreResult
<1>6. ASSUME NEW j \in jobs, LeaseRunsOut(j) PROVE RunInvariant'
  BY <1>6, ExpireConsistent
<1>7. CASE Failure
  <2>1. ASSUME NEW j \in jobs, HeartbeatLate(j) PROVE RunInvariant'
    BY <2>1, ExpireConsistent
  <2>2. ASSUME NEW w \in Workers, HeartbeatError(w) \/ StoreError(w) \/ Crash(w)
        PROVE  RunInvariant'
    BY <2>2, NoRunChanges DEF HeartbeatError, StoreError, Crash, database
  <2>3. QED
    BY <1>7, <2>1, <2>2 DEF Failure
<1>8. CASE UNCHANGED vars
  BY <1>8, NoRunChanges DEF vars
<1>9. QED
  BY <1>1, <1>2, <1>3, <1>4, <1>5, <1>6, <1>7, <1>8 DEF Next

-----------------------------------------------------------------------------
(***************************************************************************)
(* The theorems.                                                           *)
(***************************************************************************)
\* Whatever the administrators, the workers, the clock and the faults do, the
\* status and error code of a run agree with its steps, with its job, and with
\* whether its source may have been stopped and its cutover confirmed.
THEOREM RunsAreConsistent == Spec => []RunInvariant
<1>1. Init => TypeOK /\ JobInvariant /\ RunInvariant
  BY InitTyped, InitExclusive, InitConsistent
<1>2. TypeOK /\ JobInvariant /\ RunInvariant /\ [Next]_vars
        => (TypeOK /\ JobInvariant /\ RunInvariant)'
  BY NextTyped, NextExclusive, NextConsistent
<1>3. QED
  BY <1>1, <1>2, PTL DEF Spec

\* Whatever a run's status, its chain is in order.
LEMMA ChainInOrder ==
  ASSUME TypeOK, JobInvariant, RunInvariant, NEW r \in Runs, run[r].status # "NONE"
  PROVE  IsScheduled(r) /\ InOrder(r)
<1>1. IsScheduled(r) /\ RunIsConsistent(r)
  BY DEF RunInvariant, RunIsConsistent
<1> SUFFICES InOrder(r)
  BY <1>1
<1>2. \A k \in ChainOf(r) : k \in StepKeys /\ Rank[k] \in Nat
  BY ChainIsPipeline, PipelineInSteps, RankIsNumber
<1>3. ASSUME NEW k \in StepKeys, ReachedStep(r, k) PROVE InOrder(r)
  BY <1>2, <1>3, RankIsNumber DEF ReachedStep, InOrder
<1>4. ASSUME Accomplished(r) PROVE InOrder(r)
  <2>1. CASE Interrupted(r)
    BY <2>1 DEF Interrupted
  <2>2. CASE \A k \in ChainOf(r) : steps[r][k] = "SUCCEEDED"
    BY <2>2 DEF InOrder
  <2>3. QED
    BY <1>4, <2>1, <2>2 DEF Accomplished
<1>5. CASE run[r].status \in ForwardStatuses
  BY <1>3, <1>5, ForwardReached
<1>6. CASE run[r].status = "ROLLING_BACK"
  BY <1>1, <1>4, <1>6 DEF RunIsConsistent, GoesBack, Interrupted
<1>7. CASE run[r].status = "COMPLETED"
  BY <1>1, <1>4, <1>7 DEF RunIsConsistent, HasCompleted
<1>8. CASE run[r].status = "FAILED"
  <2>1. HasFailed(r)
    BY <1>1, <1>8 DEF RunIsConsistent
  <2>2. ASSUME NEW k \in ChainOf(r), ReachedStep(r, k) PROVE InOrder(r)
    BY <1>2, <1>3, <2>2
  <2>3. CASE Interrupted(r)
    BY <2>3 DEF Interrupted
  <2>4. CASE Accomplished(r)
    BY <1>4, <2>4
  <2>5. QED
    BY <2>1, <2>2, <2>3, <2>4 DEF HasFailed
<1>9. CASE run[r].status = "CANCELLED"
  BY <1>1, <1>9 DEF RunIsConsistent, WasCancelled, Interrupted
<1>10. run[r].status \in RunStatuses
  BY DEF TypeOK, RunRows
<1>11. QED
  BY <1>1, <1>5, <1>6, <1>7, <1>8, <1>9, <1>10
     DEF RunStatuses, ForwardStatuses, PipelineSteps

\* Steps are executed in the order in which they were scheduled: a worker never
\* works on, completes or fails a step before every earlier one has succeeded.
THEOREM StepsRunInOrder == Spec => []StepsInOrder
<1>1. TypeOK /\ JobInvariant /\ RunInvariant => StepsInOrder
  <2> SUFFICES ASSUME TypeOK, JobInvariant, RunInvariant, NEW r \in Runs,
                      NEW k \in PipelineSteps, NEW m \in PipelineSteps, Rank[k] < Rank[m],
                      steps[r][k] # "ABSENT", steps[r][m] \in {"RUNNING", "SUCCEEDED", "FAILED"}
               PROVE  steps[r][k] = "SUCCEEDED"
    BY DEF StepsInOrder
  <2>1. run[r].status # "NONE"
    BY PipelineInSteps DEF RunInvariant, RunIsConsistent, Unscheduled
  <2>2. QED
    BY <2>1, ChainInOrder DEF IsScheduled, InOrder
<1>2. QED
  BY <1>1, TypeCorrect, JobsInvariant, RunsAreConsistent, PTL

\* Once a worker may have stopped the source, a run ends as cancelled only with a
\* rollback that succeeded and as failed only with one that was carried out or
\* exhausted its attempts; a run that never got there has no rollback.
THEOREM QuiescedRunsAreRolledBack == Spec => []QuiescedRunsRollBack
<1>1. TypeOK /\ RunInvariant => QuiescedRunsRollBack
  <2> SUFFICES ASSUME TypeOK, RunInvariant, NEW r \in Runs
               PROVE  /\ r \notin quiesced => steps[r]["ROLLBACK"] = "ABSENT"
                      /\ r \in quiesced /\ run[r].status = "CANCELLED"
                           => steps[r]["ROLLBACK"] = "SUCCEEDED"
                      /\ r \in quiesced /\ run[r].status = "FAILED" =>
                           \/ steps[r]["ROLLBACK"] \in {"SUCCEEDED", "FAILED"}
                           \/ steps[r]["RESTORE_SOURCE"] = "FAILED"
    BY DEF QuiescedRunsRollBack
  <2>1. RunIsConsistent(r) /\ run[r].status \in RunStatuses \cup {"NONE"}
    BY DEF RunInvariant, TypeOK, RunRows
  <2>2. r \notin quiesced => steps[r]["ROLLBACK"] = "ABSENT"
    BY <2>1 DEF RunIsConsistent, RunStatuses, ForwardStatuses, PipelineSteps, Unscheduled,
       StepKeys, RecoverySteps, GoesForward, NoRecovery, GoesBack, HasCompleted, HasFailed,
       WasCancelled, Accomplished
  <2>3. r \in quiesced /\ run[r].status = "CANCELLED" => steps[r]["ROLLBACK"] = "SUCCEEDED"
    BY <2>1 DEF RunIsConsistent, WasCancelled
  <2>4. r \in quiesced /\ run[r].status = "FAILED" =>
          \/ steps[r]["ROLLBACK"] \in {"SUCCEEDED", "FAILED"}
          \/ steps[r]["RESTORE_SOURCE"] = "FAILED"
    BY <2>1 DEF RunIsConsistent, HasFailed
  <2>5. QED
    BY <2>2, <2>3, <2>4
<1>2. QED
  BY <1>1, TypeCorrect, RunsAreConsistent, PTL

\* A confirmed cutover is final: every step before it has succeeded, and no
\* failure or cancellation ever schedules the automatic rollback again.
THEOREM ConfirmedCutoverIsFinal == Spec => []CutoverIsFinal
<1>1. TypeOK /\ RunInvariant => CutoverIsFinal
  <2> SUFFICES ASSUME TypeOK, RunInvariant, NEW r \in confirmed
               PROVE  /\ steps[r]["ROLLBACK"] = "ABSENT"
                      /\ \A k \in PipelineSteps : steps[r][k] \in {"ABSENT", "SUCCEEDED"}
    BY DEF CutoverIsFinal
  <2>1. r \in Runs /\ RunIsConsistent(r) /\ run[r].status \in RunStatuses \cup {"NONE"}
    BY DEF RunInvariant, TypeOK, RunRows
  <2>2. Accomplished(r) /\ IsScheduled(r)
    BY <2>1 DEF RunIsConsistent, RunStatuses, ForwardStatuses, PipelineSteps, Unscheduled,
       GoesForward, GoesBack, HasCompleted, HasFailed, WasCancelled, Interrupted
  <2>3. QED
    BY <2>2 DEF Accomplished, Interrupted, IsScheduled
<1>2. QED
  BY <1>1, TypeCorrect, RunsAreConsistent, PTL

\* A run is COMPLETED only by a confirmed cutover or by reconciling the failed
\* validation of a run whose source has been rolled back.
THEOREM CompletionsAreJustified == Spec => []CompletionIsJustified
<1>1. RunInvariant => CompletionIsJustified
  BY DEF RunInvariant, RunIsConsistent, HasCompleted, Accomplished, CompletionIsJustified
<1>2. QED
  BY <1>1, RunsAreConsistent, PTL

\* No job is poisoned: Claim finds the step of every job open and the transition
\* of its run legal, so no job makes the head of the queue fail for ever.
THEOREM JobsCanBeClaimed == Spec => []EveryJobCanBeClaimed
<1>1. TypeOK /\ JobInvariant /\ RunInvariant => EveryJobCanBeClaimed
  <2> SUFFICES ASSUME TypeOK, JobInvariant, RunInvariant, NEW j \in jobs
               PROVE  steps[j.run][j.step] \in {"PENDING", "RUNNING"} /\ MayStart(j)
    BY DEF EveryJobCanBeClaimed
  <2>1. PICK r \in Runs, k \in StepKeys : r = j.run /\ k = j.step
    BY OnlyJob
  <2>2. /\ JobIsConsistent(j) /\ k # "AWAIT_CUTOVER"
        /\ run[r].status \in (ForwardStatuses \ {"AWAITING_CUTOVER"}) \cup {"ROLLING_BACK"}
    BY <2>1, OnlyJob
  <2> SUFFICES MayStart(j)
    BY <2>2 DEF JobIsConsistent, Open
  <2>3. CASE run[r].status = "ROLLING_BACK"
    <3>1. StatusForStep(k) = "ROLLING_BACK"
      BY <2>1, <2>2, <2>3 DEF JobIsConsistent, StatusForStep, RecoverySteps
    <3>2. QED
      BY <2>1, <2>3, <3>1 DEF MayStart
  <2>4. CASE run[r].status \in ForwardStatuses
    <3>1. /\ k \in ChainOf(r)
          /\ \/ run[r].status = k
             \/ run[r].status = "PENDING" /\ k = "PREFLIGHT"
             \/ FollowsInChain(r, run[r].status, k)
      BY <2>1, <2>2, <2>4 DEF JobIsConsistent
    <3>2. StatusForStep(k) = k
      BY <2>2, <3>1, ChainIsPipeline DEF StatusForStep, PipelineSteps, RecoverySteps
    <3>3. \/ run[r].status = k
          \/ run[r].status = "PENDING" /\ k = "PREFLIGHT"
          \/ <<run[r].status, k>> \in Successors
      BY <3>1, ChainFollows
    <3>4. run[r].status = k \/ ValidateTransition(run[r].status, k)
      BY <2>2, <3>3 DEF Successors, ValidateTransition, AllowedTransitions
    <3>5. QED
      BY <2>1, <3>2, <3>4 DEF MayStart
  <2>5. QED
    BY <2>2, <2>3, <2>4
<1>2. QED
  BY <1>1, TypeCorrect, JobsInvariant, RunsAreConsistent, PTL

-----------------------------------------------------------------------------
(***************************************************************************)
(* What a plan shows of its runs.  Both properties are inductive together  *)
(* with RunInvariant, which says of which plan a run is, and that an error *)
(* code which changes a plan's outcome comes with the status it belongs to.*)
(***************************************************************************)
PlanInvariant == RunningPlanHasActiveRun /\ PlanShowsItsOnlyRun

\* A step that changes one run and at most that run's plan.
LEMMA PlanOfOneRun ==
  ASSUME TypeOK, RunInvariant, PlanInvariant, NEW r \in Runs, NEW p \in Plans,
         run[r].plan = p, run'[r].plan = p, run[r].status # "NONE",
         \A q \in Runs : q # r => run'[q] = run[q],
         \A other \in Plans : other # p => planStatus'[other] = planStatus[other],
         planStatus'[p] = "RUNNING" => Active(r)',
         \/ planStatus'[p] \in OutcomeOf(r)'
         \/ planStatus'[p] = planStatus[p] /\ OutcomeOf(r)' = OutcomeOf(r)
  PROVE  PlanInvariant'
<1>1. RunningPlanHasActiveRun'
  <2> SUFFICES ASSUME NEW other \in Plans, planStatus'[other] = "RUNNING"
               PROVE  \E q \in Runs : run'[q].plan = other /\ Active(q)'
    BY DEF RunningPlanHasActiveRun
  <2>1. CASE other = p
    BY <2>1
  <2>2. CASE other # p
    <3>1. PICK q \in Runs : run[q].plan = other /\ Active(q)
      BY <2>2 DEF PlanInvariant, RunningPlanHasActiveRun
    <3>2. QED
      BY <2>2, <3>1 DEF Active
  <2>3. QED
    BY <2>1, <2>2
<1>2. PlanShowsItsOnlyRun'
  <2> SUFFICES ASSUME NEW q \in Runs, run'[q].status \in RunStatuses
               PROVE  \/ \E other \in Runs \ {q} : run'[other].plan = run'[q].plan
                      \/ planStatus'[run'[q].plan] \in OutcomeOf(q)'
    BY DEF PlanShowsItsOnlyRun
  <2>1. \A other \in Runs : run'[other].plan = run[other].plan
    OBVIOUS
  <2>2. CASE q = r
    <3>1. run[r].status \in RunStatuses
      BY DEF TypeOK, RunRows
    <3>2. \/ \E other \in Runs \ {r} : run[other].plan = p
          \/ planStatus[p] \in OutcomeOf(r)
      BY <3>1 DEF PlanInvariant, PlanShowsItsOnlyRun
    <3>3. QED
      BY <2>1, <2>2, <3>2
  <2>3. CASE q # r
    <3>1. run[q].status \in RunStatuses /\ OutcomeOf(q)' = OutcomeOf(q)
      BY <2>3 DEF OutcomeOf
    <3>2. run[q].plan \in Plans
      BY <3>1 DEF RunInvariant, RunIsConsistent, IsScheduled, RunStatuses
    <3>3. CASE run[q].plan = p
      BY <2>1, <2>3, <3>3
    <3>4. CASE run[q].plan # p
      BY <2>1, <2>3, <3>1, <3>2, <3>4 DEF PlanInvariant, PlanShowsItsOnlyRun
    <3>5. QED
      BY <3>3, <3>4
  <2>4. QED
    BY <2>2, <2>3
<1>3. QED
  BY <1>1, <1>2 DEF PlanInvariant

LEMMA PlanStays ==
  ASSUME PlanInvariant, run' = run, planStatus' = planStatus
  PROVE  PlanInvariant'
  BY DEF PlanInvariant, RunningPlanHasActiveRun, PlanShowsItsOnlyRun, Active, OutcomeOf

LEMMA InitShown == Init => PlanInvariant
  BY DEF Init, PlanInvariant, RunningPlanHasActiveRun, PlanShowsItsOnlyRun, RunStatuses

LEMMA PreflightShown ==
  ASSUME TypeOK, RunInvariant, PlanInvariant, NEW p \in Plans, NEW status \in PlanStatuses,
         Preflight(p, status)
  PROVE  PlanInvariant'
<1>1. /\ status \in {"READY", "BLOCKED"} /\ planStatus[p] \in {"DRAFT", "READY", "BLOCKED"}
      /\ planStatus'[p] = status /\ run' = run
      /\ \A other \in Plans : other # p => planStatus'[other] = planStatus[other]
  BY DEF TypeOK, Preflight
<1>2. RunningPlanHasActiveRun'
  BY <1>1 DEF PlanInvariant, RunningPlanHasActiveRun, Active
<1>3. ASSUME NEW q \in Runs, run[q].plan = p, planStatus[p] \in OutcomeOf(q)
      PROVE  planStatus'[p] \in OutcomeOf(q)
  BY <1>1, <1>3 DEF OutcomeOf
<1>4. PlanShowsItsOnlyRun'
  <2> SUFFICES ASSUME NEW q \in Runs, run[q].status \in RunStatuses
               PROVE  \/ \E other \in Runs \ {q} : run[other].plan = run[q].plan
                      \/ planStatus'[run[q].plan] \in OutcomeOf(q)
    BY <1>1 DEF PlanShowsItsOnlyRun, OutcomeOf
  <2>1. run[q].plan \in Plans
    BY DEF RunInvariant, RunIsConsistent, IsScheduled, RunStatuses
  <2>2. QED
    BY <1>1, <1>3, <2>1 DEF PlanInvariant, PlanShowsItsOnlyRun
<1>5. QED
  BY <1>2, <1>4 DEF PlanInvariant

LEMMA ScheduleShown ==
  ASSUME TypeOK, RunInvariant, PlanInvariant, NEW p \in Plans, NEW r \in Runs, ScheduleRun(p, r)
  PROVE  PlanInvariant'
<1>1. /\ run'[r] = [plan |-> p, status |-> "PENDING", code |-> "NO_ERROR"]
      /\ \A q \in Runs : q # r => run'[q] = run[q]
      /\ planStatus'[p] = "RUNNING"
      /\ \A other \in Plans : other # p => planStatus'[other] = planStatus[other]
  BY DEF TypeOK, ScheduleRun
<1>2. run[r].plan = None /\ ~Active(r)
  BY DEF ScheduleRun, RunInvariant, RunIsConsistent, Unscheduled, Active, RunStatuses
<1>3. Active(r)'
  BY <1>1 DEF Active, RunStatuses, IsTerminal
<1>4. RunningPlanHasActiveRun'
  <2> SUFFICES ASSUME NEW other \in Plans, planStatus'[other] = "RUNNING"
               PROVE  \E q \in Runs : run'[q].plan = other /\ Active(q)'
    BY DEF RunningPlanHasActiveRun
  <2>1. CASE other = p
    BY <1>1, <1>3, <2>1
  <2>2. CASE other # p
    <3>1. PICK q \in Runs : run[q].plan = other /\ Active(q)
      BY <1>1, <2>2 DEF PlanInvariant, RunningPlanHasActiveRun
    <3>2. QED
      BY <1>1, <1>2, <3>1 DEF Active
  <2>3. QED
    BY <2>1, <2>2
<1>5. PlanShowsItsOnlyRun'
  <2> SUFFICES ASSUME NEW q \in Runs, run'[q].status \in RunStatuses
               PROVE  \/ \E other \in Runs \ {q} : run'[other].plan = run'[q].plan
                      \/ planStatus'[run'[q].plan] \in OutcomeOf(q)'
    BY DEF PlanShowsItsOnlyRun
  <2>1. CASE q = r
    BY <1>1, <2>1 DEF OutcomeOf
  <2>2. CASE q # r
    <3>1. run'[q] = run[q] /\ run[q].status \in RunStatuses /\ OutcomeOf(q)' = OutcomeOf(q)
      BY <1>1, <2>2 DEF OutcomeOf
    <3>2. run[q].plan \in Plans
      BY <3>1 DEF RunInvariant, RunIsConsistent, IsScheduled, RunStatuses
    <3>3. CASE run[q].plan = p
      BY <1>1, <2>2, <3>1, <3>3
    <3>4. CASE run[q].plan # p
      <4>1. \/ \E other \in Runs \ {q} : run[other].plan = run[q].plan
            \/ planStatus[run[q].plan] \in OutcomeOf(q)
        BY <3>1 DEF PlanInvariant, PlanShowsItsOnlyRun
      <4>2. \A other \in Runs : run[other].plan = run[q].plan => run'[other].plan = run[q].plan
        BY <1>1, <1>2, <3>2, PlanAssumption
      <4>3. QED
        BY <1>1, <3>1, <3>2, <3>4, <4>1, <4>2
    <3>5. QED
      BY <3>3, <3>4
  <2>3. QED
    BY <2>1, <2>2
<1>6. QED
  BY <1>4, <1>5 DEF PlanInvariant

\* What the plan of an active run shows, if it is its only one.
LEMMA ActiveOutcome ==
  ASSUME NEW r, Active(r)
  PROVE  OutcomeOf(r) = IF run[r].code = "SOURCE_RESTORE_REQUESTED" THEN {"COMPLETED"}
                                                                    ELSE {"RUNNING"}
  BY DEF Active, IsTerminal, OutcomeOf

\* A transaction that leaves its run active and its plan alone.
LEMMA ActiveStays ==
  ASSUME TypeOK, RunInvariant, PlanInvariant, NEW r \in Runs, run[r].status # "NONE",
         run'[r].plan = run[r].plan, Active(r)',
         \A q \in Runs : q # r => run'[q] = run[q],
         OutcomeOf(r)' = OutcomeOf(r), planStatus' = planStatus
  PROVE  PlanInvariant'
<1>1. run[r].plan \in Plans
  BY DEF RunInvariant, RunIsConsistent, IsScheduled
<1>2. QED
  BY <1>1, PlanOfOneRun

\* A transaction that ends its run and tells the plan.
LEMMA EndShown ==
  ASSUME TypeOK, RunInvariant, PlanInvariant, NEW r \in Runs, run[r].status # "NONE",
         NEW shown, run'[r].plan = run[r].plan, \A q \in Runs : q # r => run'[q] = run[q],
         SetPlanOf(r, shown),
         <<run'[r].status, shown>> \in {<<"CANCELLED", "READY">>,
                                         <<"COMPLETED", "COMPLETED">>, <<"FAILED", "FAILED">>},
         run'[r].code # "SOURCE_RESTORE_REQUESTED"
  PROVE  PlanInvariant'
<1>1. run[r].plan \in Plans
  BY DEF RunInvariant, RunIsConsistent, IsScheduled
<1>2. /\ planStatus'[run[r].plan] = shown
      /\ \A other \in Plans : other # run[r].plan => planStatus'[other] = planStatus[other]
  BY <1>1 DEF TypeOK, SetPlanOf
<1>3. shown # "RUNNING" /\ shown \in OutcomeOf(r)'
  BY DEF OutcomeOf
<1>4. QED
  BY <1>1, <1>2, <1>3, PlanOfOneRun

LEMMA CancelShown ==
  ASSUME TypeOK, RunInvariant, PlanInvariant, NEW r \in Runs, CancelRun(r)
  PROVE  PlanInvariant'
<1>1. run[r].status \in ForwardStatuses /\ run[r].status # "NONE"
  BY DEF CancelRun, Active, IsTerminal, ForwardStatuses, PipelineSteps, RunStatuses
<1>2. run[r].code = "NO_ERROR" /\ Active(r)
  BY <1>1 DEF CancelRun, RunInvariant, RunIsConsistent, GoesForward
<1>3. CASE CancelBeforeQuiesce(r)
  <2>1. /\ run'[r].plan = run[r].plan /\ run'[r].status = "CANCELLED"
        /\ run'[r].code = "CANCEL_REQUESTED" /\ \A q \in Runs : q # r => run'[q] = run[q]
        /\ SetPlanOf(r, "READY")
    BY <1>3 DEF TypeOK, RunRows, CancelBeforeQuiesce, SetRun
  <2>2. QED
    BY <1>1, <2>1, EndShown
<1>4. CASE CancelAfterQuiesce(r)
  <2>1. /\ run'[r].plan = run[r].plan /\ run'[r].status = "ROLLING_BACK"
        /\ run'[r].code = "CANCEL_REQUESTED" /\ \A q \in Runs : q # r => run'[q] = run[q]
        /\ planStatus' = planStatus
    BY <1>4 DEF TypeOK, RunRows, CancelAfterQuiesce, SetRun
  <2>2. Active(r)' /\ OutcomeOf(r)' = OutcomeOf(r)
    BY <1>2, <2>1, ActiveOutcome DEF Active, IsTerminal, RunStatuses, OutcomeOf
  <2>3. QED
    BY <1>1, <2>1, <2>2, ActiveStays
<1>5. QED
  BY <1>3, <1>4 DEF CancelRun

LEMMA RestoreSourceShown ==
  ASSUME TypeOK, RunInvariant, PlanInvariant, NEW r \in Runs, RestoreSource(r)
  PROVE  PlanInvariant'
<1>1. /\ run'[r].plan = run[r].plan /\ run'[r].status = "ROLLING_BACK"
      /\ run'[r].code = "SOURCE_RESTORE_REQUESTED" /\ \A q \in Runs : q # r => run'[q] = run[q]
      /\ planStatus' = planStatus /\ run[r].status = "COMPLETED"
  BY DEF TypeOK, RunRows, RestoreSource, SetRun
<1>2. run[r].code # "SOURCE_RESTORE_REQUESTED"
  BY <1>1 DEF RunInvariant, RunIsConsistent, HasCompleted
<1>3. Active(r)' /\ OutcomeOf(r)' = OutcomeOf(r)
  BY <1>1, <1>2 DEF Active, IsTerminal, RunStatuses, OutcomeOf
<1>4. QED
  BY <1>1, <1>3, ActiveStays

LEMMA ConfirmCutoverShown ==
  ASSUME TypeOK, RunInvariant, PlanInvariant, NEW r \in Runs, ConfirmCutover(r)
  PROVE  PlanInvariant'
<1>1. run[r].code = "NO_ERROR" /\ run[r].status # "NONE"
  BY DEF ConfirmCutover, AtGate, RunInvariant, RunIsConsistent, ForwardStatuses, GoesForward
<1>2. /\ run'[r].plan = run[r].plan /\ run'[r].status = "COMPLETED"
      /\ run'[r].code = "NO_ERROR" /\ \A q \in Runs : q # r => run'[q] = run[q]
      /\ SetPlanOf(r, "COMPLETED")
  BY <1>1 DEF TypeOK, RunRows, ConfirmCutover
<1>3. QED
  BY <1>1, <1>2, EndShown

LEMMA ReconcileShown ==
  ASSUME TypeOK, RunInvariant, PlanInvariant, NEW r \in Runs, ReconcileValidation(r)
  PROVE  PlanInvariant'
<1>1. /\ run'[r].plan = run[r].plan /\ run'[r].status = "COMPLETED"
      /\ run'[r].code = "VALIDATION_RECONCILED" /\ \A q \in Runs : q # r => run'[q] = run[q]
      /\ SetPlanOf(r, "COMPLETED") /\ run[r].status # "NONE"
  BY DEF TypeOK, RunRows, ReconcileValidation, SetRun
<1>2. QED
  BY <1>1, EndShown

LEMMA ClaimShown ==
  ASSUME TypeOK, JobInvariant, RunInvariant, PlanInvariant, NEW w \in Workers, NEW j \in jobs,
         Claim(w, j)
  PROVE  PlanInvariant'
<1>1. PICK r \in Runs, k \in StepKeys : r = j.run /\ k = j.step
  BY OnlyJob
<1>2. /\ k # "AWAIT_CUTOVER" /\ RunIsConsistent(r)
      /\ run[r].status \in (ForwardStatuses \ {"AWAITING_CUTOVER"}) \cup {"ROLLING_BACK"}
  BY <1>1, OnlyJob
<1>3. /\ run'[r].status = StatusForStep(k) /\ run'[r].code = run[r].code
      /\ run'[r].plan = run[r].plan /\ \A q \in Runs : q # r => run'[q] = run[q]
      /\ planStatus' = planStatus
  BY <1>1 DEF TypeOK, RunRows, Claim
<1>4. StatusForStep(k) \in RunStatuses /\ ~IsTerminal(StatusForStep(k))
  BY <1>2 DEF StatusForStep, StepKeys, PipelineSteps, RecoverySteps, RunStatuses, IsTerminal
<1>5. Active(r) /\ Active(r)' /\ run[r].status # "NONE"
  BY <1>2, <1>3, <1>4 DEF Active, ForwardStatuses, PipelineSteps, RunStatuses, IsTerminal
<1>6. OutcomeOf(r)' = OutcomeOf(r)
  BY <1>3, <1>5 DEF Active, IsTerminal, OutcomeOf
<1>7. QED
  BY <1>3, <1>5, <1>6, ActiveStays

LEMMA CompleteAndOpenGateShown ==
  ASSUME TypeOK, JobInvariant, RunInvariant, PlanInvariant, NEW w \in Workers,
         CompleteAndOpenGate(w)
  PROVE  PlanInvariant'
<1>1. PICK r \in Runs, k \in StepKeys : r = claim[w].run /\ k = claim[w].step
  BY HeldRun DEF CompleteAndOpenGate
<1>2. run[r].status = StatusForStep(k) /\ k # "AWAIT_CUTOVER"
  BY <1>1, HeldStep DEF CompleteAndOpenGate
<1>3. Active(r)
  BY <1>2 DEF Active, StatusForStep, StepKeys, PipelineSteps, RecoverySteps, RunStatuses, IsTerminal
<1>4. /\ run'[r].status = "AWAITING_CUTOVER" /\ run'[r].code = run[r].code
      /\ run'[r].plan = run[r].plan /\ \A q \in Runs : q # r => run'[q] = run[q]
      /\ planStatus' = planStatus
  BY <1>1 DEF TypeOK, RunRows, CompleteAndOpenGate
<1>5. Active(r)' /\ OutcomeOf(r)' = OutcomeOf(r) /\ run[r].status # "NONE"
  BY <1>3, <1>4 DEF Active, IsTerminal, RunStatuses, OutcomeOf
<1>6. QED
  BY <1>4, <1>5, ActiveStays

LEMMA CompleteRollbackShown ==
  ASSUME TypeOK, JobInvariant, RunInvariant, PlanInvariant, NEW w \in Workers,
         CompleteRollback(w)
  PROVE  PlanInvariant'
<1>1. PICK r \in Runs, k \in StepKeys : r = claim[w].run /\ k = claim[w].step
  BY HeldRun DEF CompleteRollback
<1>2. run[r].status = "ROLLING_BACK" /\ GoesBack(r)
  BY <1>1, HeldStep DEF CompleteRollback
<1> DEFINE outcome == AfterRollback(run[r].code)
           code == IF run[r].code = "SOURCE_RESTORE_REQUESTED" THEN "SOURCE_RESTORED"
                                                               ELSE run[r].code
<1>3. <<outcome.run, outcome.plan>> \in
        {<<"CANCELLED", "READY">>, <<"COMPLETED", "COMPLETED">>, <<"FAILED", "FAILED">>}
  BY DEF AfterRollback
<1>4. SetRun(r, outcome.run, code) /\ SetPlanOf(r, outcome.plan)
  BY <1>1 DEF CompleteRollback
<1>5. code # "SOURCE_RESTORE_REQUESTED"
  OBVIOUS
<1> HIDE DEF outcome, code
<1>6. /\ run'[r].status = outcome.run /\ run'[r].code = code
      /\ run'[r].plan = run[r].plan /\ \A q \in Runs : q # r => run'[q] = run[q]
  BY <1>4 DEF TypeOK, RunRows, SetRun
<1>7. QED
  BY <1>2, <1>3, <1>4, <1>5, <1>6, EndShown

LEMMA FailRunShown ==
  ASSUME TypeOK, JobInvariant, RunInvariant, PlanInvariant, NEW w \in Workers, FailRun(w)
  PROVE  PlanInvariant'
<1>1. PICK r \in Runs, k \in StepKeys : r = claim[w].run /\ k = claim[w].step
  BY HeldRun DEF FailRun
<1>2. run[r].status # "NONE"
  BY <1>1 DEF FailRun, ValidateTransition, AllowedTransitions
<1>3. /\ run'[r].status = "FAILED" /\ run'[r].code = "STEP_FAILED"
      /\ run'[r].plan = run[r].plan /\ \A q \in Runs : q # r => run'[q] = run[q]
      /\ SetPlanOf(r, "FAILED")
  BY <1>1 DEF TypeOK, RunRows, FailRun, SetRun
<1>4. QED
  BY <1>2, <1>3, EndShown

LEMMA FailAndRollBackShown ==
  ASSUME TypeOK, JobInvariant, RunInvariant, PlanInvariant, NEW w \in Workers,
         FailAndRollBack(w)
  PROVE  PlanInvariant'
<1>1. PICK r \in Runs, k \in StepKeys : r = claim[w].run /\ k = claim[w].step
  BY HeldRun DEF FailAndRollBack
<1>2. k \in PipelineSteps
  BY <1>1 DEF FailAndRollBack, EndsRun, StepKeys
<1>3. run[r].status = k /\ k # "AWAIT_CUTOVER" /\ run[r].code = "NO_ERROR"
  BY <1>1, <1>2, HeldStep DEF FailAndRollBack, GoesForward
<1>4. /\ run'[r].status = "ROLLING_BACK" /\ run'[r].code = "STEP_FAILED"
      /\ run'[r].plan = run[r].plan /\ \A q \in Runs : q # r => run'[q] = run[q]
      /\ planStatus' = planStatus
  BY <1>1 DEF TypeOK, RunRows, FailAndRollBack, SetRun
<1>5. Active(r)' /\ OutcomeOf(r)' = OutcomeOf(r) /\ run[r].status # "NONE"
  BY <1>2, <1>3, <1>4 DEF PipelineSteps, Active, IsTerminal, RunStatuses, OutcomeOf
<1>6. QED
  BY <1>4, <1>5, ActiveStays

LEMMA NextShown ==
  TypeOK /\ JobInvariant /\ RunInvariant /\ PlanInvariant /\ [Next]_vars => PlanInvariant'
<1> SUFFICES ASSUME TypeOK, JobInvariant, RunInvariant, PlanInvariant, [Next]_vars
             PROVE  PlanInvariant'
  OBVIOUS
<1>1. ASSUME NEW p \in Plans, NEW status \in PlanStatuses, Preflight(p, status)
      PROVE  PlanInvariant'
  BY <1>1, PreflightShown
<1>2. ASSUME NEW p \in Plans, NEW r \in Runs, Start(p, r) PROVE PlanInvariant'
  BY <1>2, ScheduleShown DEF Start
<1>3. ASSUME NEW previous \in Runs, NEW r \in Runs, RetryRun(previous, r)
      PROVE  PlanInvariant'
  <2>1. run[previous].plan \in Plans
    BY <1>3, EndedIsScheduled DEF RetryRun
  <2>2. QED
    BY <1>3, <2>1, ScheduleShown DEF RetryRun
<1>4. ASSUME NEW r \in Runs, Administrator(r) PROVE PlanInvariant'
  <2>1. CASE DeleteRun(r)
    BY <2>1, PlanStays DEF DeleteRun
  <2>2. QED
    BY <1>4, <2>1, CancelShown, RestoreSourceShown, ConfirmCutoverShown, ReconcileShown
       DEF Administrator
<1>5. ASSUME NEW w \in Workers, Worker(w) PROVE PlanInvariant'
  <2>1. CASE \/ \E result \in {"succeeded", "failed"} : HandlerReturns(w, result)
             \/ HeartbeatRejected(w) \/ AbandonJob(w) \/ StaleResult(w)
             \/ CompleteAndEnqueue(w) \/ RetryJob(w)
    BY <2>1, PlanStays DEF HandlerReturns, HeartbeatRejected, AbandonJob, StaleResult,
       CompleteAndEnqueue, RetryJob, database
  <2>2. CASE \E j \in jobs : Claim(w, j)
    BY <2>2, ClaimShown
  <2>3. QED
    BY <1>5, <2>1, <2>2, CompleteAndOpenGateShown, CompleteRollbackShown, FailRunShown,
       FailAndRollBackShown DEF Worker, StoreResult
<1>6. ASSUME NEW j \in jobs, LeaseRunsOut(j) \/ HeartbeatLate(j) PROVE PlanInvariant'
  BY <1>6, PlanStays DEF LeaseRunsOut, HeartbeatLate, Expire
<1>7. CASE Failure
  <2>1. ASSUME NEW w \in Workers, HeartbeatError(w) \/ StoreError(w) \/ Crash(w)
        PROVE  PlanInvariant'
    BY <2>1, PlanStays DEF HeartbeatError, StoreError, Crash, database
  <2>2. QED
    BY <1>6, <1>7, <2>1 DEF Failure
<1>8. CASE UNCHANGED vars
  BY <1>8, PlanStays DEF vars
<1>9. QED
  BY <1>1, <1>2, <1>3, <1>4, <1>5, <1>6, <1>7, <1>8 DEF Next

LEMMA PlansAreShown == Spec => []PlanInvariant
<1>1. Init => TypeOK /\ JobInvariant /\ RunInvariant /\ PlanInvariant
  BY InitTyped, InitExclusive, InitConsistent, InitShown
<1>2. TypeOK /\ JobInvariant /\ RunInvariant /\ PlanInvariant /\ [Next]_vars
        => (TypeOK /\ JobInvariant /\ RunInvariant /\ PlanInvariant)'
  BY NextTyped, NextExclusive, NextConsistent, NextShown
<1>3. QED
  BY <1>1, <1>2, PTL DEF Spec

\* However a run ends, its plan leaves RUNNING with it unless another run of the
\* plan is active.
THEOREM RunningPlansAreActive == Spec => []RunningPlanHasActiveRun
<1>1. PlanInvariant => RunningPlanHasActiveRun
  BY DEF PlanInvariant
<1>2. QED
  BY <1>1, PlansAreShown, PTL

\* The plan of a single run always shows what has become of it: every transaction
\* that moves the run moves the plan along, whichever table of outcomes it uses.
THEOREM PlansShowTheirRun == Spec => []PlanShowsItsOnlyRun
<1>1. PlanInvariant => PlanShowsItsOnlyRun
  BY DEF PlanInvariant
<1>2. QED
  BY <1>1, PlansAreShown, PTL
=============================================================================
