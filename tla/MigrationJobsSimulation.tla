----------------------- MODULE MigrationJobsSimulation -----------------------
(***************************************************************************)
(* For every number of plans, runs, workers, attempts and faults: the job  *)
(* queue implements RunProgram.  Every step of the queue is, for the run it*)
(* concerns, one step of the sequential program, or none at all.           *)
(***************************************************************************)
EXTENDS MigrationJobsRefinement, MigrationJobsLifecycle

-----------------------------------------------------------------------------
(***************************************************************************)
(* The position of a run.                                                  *)
(***************************************************************************)
LEMMA ChosenJob ==
  ASSUME NEW S, NEW j \in S, \A i \in S : i.run = j.run => i = j
  PROVE  (CHOOSE i \in S : i.run = j.run) = j
  OBVIOUS

LEMMA PositionOfJob == TypeOK /\ JobInvariant => \A j \in jobs : Position(j.run) = j.step
<1> SUFFICES ASSUME TypeOK, JobInvariant, NEW j \in jobs PROVE Position(j.run) = j.step
  OBVIOUS
<1>1. \A i \in jobs : i.run = j.run => i = j
  BY DEF JobInvariant, OneJobPerRun
<1>2. JobStep(j.run) = j.step
  BY <1>1, ChosenJob DEF JobStep
<1>3. j.run \in Runs /\ AwaitsWorker(j.run)
  BY DEF TypeOK, Jobs, JobInvariant, JobsDriveActiveRuns
<1>4. QED
  BY <1>2, <1>3 DEF Position, AwaitsWorker

LEMMA NextPositionOfJob ==
  (TypeOK /\ JobInvariant)' => \A j \in jobs' : Position(j.run)' = j.step
<1>1. (TypeOK /\ JobInvariant => \A j \in jobs : Position(j.run) = j.step)'
  BY PositionOfJob, PTL
<1>2. QED
  BY <1>1

LEMMA PositionWithoutJob ==
  ASSUME NEW r, ~AwaitsWorker(r)
  PROVE  Position(r) = IF AtGate(r) THEN "AWAIT_CUTOVER" ELSE run[r].status
  BY DEF Position, AtGate

\* A job keeps its run where it is, whoever owns it.
JobsAreKept(r) ==
  \A j \in jobs : j.run = r => \E i \in jobs' : i.run = r /\ i.step = j.step

LEMMA PositionKept ==
  ASSUME TypeOK, JobInvariant, TypeOK', JobInvariant', NEW r \in Runs,
         run'[r].status = run[r].status, JobsAreKept(r)
  PROVE  Position(r)' = Position(r)
<1>1. CASE AwaitsWorker(r)
  <2>1. PICK j \in jobs : j.run = r
    BY <1>1 DEF JobInvariant, JobsDriveActiveRuns
  <2>2. PICK i \in jobs' : i.run = r /\ i.step = j.step
    BY <2>1 DEF JobsAreKept
  <2>3. Position(r) = j.step
    BY <2>1, PositionOfJob
  <2>4. Position(r)' = i.step
    BY <2>2, NextPositionOfJob
  <2>5. QED
    BY <2>2, <2>3, <2>4
<1>2. CASE ~AwaitsWorker(r)
  BY <1>2 DEF AwaitsWorker, Active, Position
<1>3. QED
  BY <1>1, <1>2

-----------------------------------------------------------------------------
(***************************************************************************)
(* How the variables of the program change.                                *)
(***************************************************************************)
\* A step that concerns one run leaves the others where they are.
Elsewhere(r) == \A q \in Runs : q # r => run'[q] = run[q] /\ Position(q)' = Position(q)

LEMMA OthersStay ==
  ASSUME TypeOK, JobInvariant, TypeOK', JobInvariant', NEW r \in Runs,
         \A q \in Runs : q # r => run'[q] = run[q],
         \A j \in jobs : j.run # r => j \in jobs'
  PROVE  Elsewhere(r)
  BY PositionKept DEF Elsewhere, JobsAreKept

LEMMA GoesTo ==
  ASSUME NEW r \in Runs, NEW where, Elsewhere(r), Position(r)' = where
  PROVE  Program!GoTo(r, where)
  BY DEF Elsewhere, Program!GoTo

LEMMA PlansStay ==
  ASSUME NEW r \in Runs, Elsewhere(r), run'[r].plan = run[r].plan
  PROVE  [q \in Runs |-> run[q].plan]' = [q \in Runs |-> run[q].plan]
  BY DEF Elsewhere

LEMMA PlanSet ==
  ASSUME NEW r \in Runs, NEW p, Elsewhere(r), run'[r].plan = p
  PROVE  [q \in Runs |-> run[q].plan]' = [[q \in Runs |-> run[q].plan] EXCEPT ![r] = p]
  BY DEF Elsewhere

LEMMA ReasonsStay ==
  ASSUME NEW r \in Runs, Elsewhere(r), Reason(run'[r].code) = Reason(run[r].code)
  PROVE  [q \in Runs |-> Reason(run[q].code)]' = [q \in Runs |-> Reason(run[q].code)]
  BY DEF Elsewhere

LEMMA ReasonSet ==
  ASSUME NEW r \in Runs, NEW why, Elsewhere(r), Reason(run'[r].code) = why
  PROVE  [q \in Runs |-> Reason(run[q].code)]'
           = [[q \in Runs |-> Reason(run[q].code)] EXCEPT ![r] = why]
  BY DEF Elsewhere

\* A step of the queue that is none of the program.
LEMMA NothingHappens ==
  ASSUME TypeOK, JobInvariant, TypeOK', JobInvariant', \A r \in Runs : JobsAreKept(r),
         \A r \in Runs : run'[r] = run[r], quiesced' = quiesced
  PROVE  UNCHANGED Program!programVars
<1>1. \A r \in Runs : Position(r)' = Position(r)
  BY PositionKept
<1>2. QED
  BY <1>1 DEF Program!programVars

\* Where a run is whose status says that it goes forward.
LEMMA ForwardPosition ==
  ASSUME TypeOK, JobInvariant, RunInvariant, NEW r \in Runs, run[r].status \in ForwardStatuses
  PROVE  /\ Position(r) \in ChainOf(r) /\ Position(r) \in PipelineSteps
         /\ AtGate(r) => Position(r) = "AWAIT_CUTOVER"
         /\ ~AtGate(r) => \/ run[r].status = Position(r)
                          \/ run[r].status = "PENDING" /\ Position(r) = "PREFLIGHT"
                          \/ <<run[r].status, Position(r)>> \in Successors
<1>1. CASE AtGate(r)
  BY <1>1, PositionWithoutJob, ChainIsPipeline DEF AtGate, AwaitsWorker, PipelineSteps
<1>2. CASE ~AtGate(r)
  <2>1. AwaitsWorker(r)
    BY <1>2 DEF AtGate, AwaitsWorker, Active, IsTerminal, ForwardStatuses, PipelineSteps, RunStatuses
  <2>2. PICK j \in jobs : j.run = r
    BY <2>1 DEF JobInvariant, JobsDriveActiveRuns
  <2>3. Position(r) = j.step /\ JobIsConsistent(j)
    BY <2>2, PositionOfJob DEF RunInvariant
  <2>4. /\ Position(r) \in ChainOf(r)
        /\ \/ run[r].status = Position(r)
           \/ run[r].status = "PENDING" /\ Position(r) = "PREFLIGHT"
           \/ FollowsInChain(r, run[r].status, Position(r))
    BY <2>2, <2>3 DEF JobIsConsistent
  <2>5. QED
    BY <1>2, <2>4, ChainFollows, ChainIsPipeline
<1>3. QED
  BY <1>1, <1>2

LEMMA PositionOfHeld ==
  ASSUME TypeOK, JobInvariant, NEW w \in Workers, HeldJobs(w) # {}
  PROVE  Position(claim[w].run) = claim[w].step
  BY PositionOfJob DEF HeldJobs

-----------------------------------------------------------------------------
(***************************************************************************)
(* Every step of the queue is a step of the program.                       *)
(***************************************************************************)
\* What every step starts from and leads to.
Steady == TypeOK /\ JobInvariant /\ RunInvariant /\ TypeOK' /\ JobInvariant'

ProgramStep == [Program!ProgramNext]_(Program!programVars)

LEMMA InitSimulates == Init => Program!ProgramInit
<1> SUFFICES ASSUME Init PROVE Program!ProgramInit
  OBVIOUS
<1>1. \A r \in Runs : Position(r) = "NONE" /\ Reason(run[r].code) = "nothing" /\ run[r].plan = None
  BY DEF Init, Position, AwaitsWorker, Active, RunStatuses, Reason
<1>2. QED
  BY <1>1 DEF Init, Program!ProgramInit

LEMMA ScheduleSimulates ==
  ASSUME Steady, NEW p \in Plans, NEW r \in Runs, ScheduleRun(p, r)
  PROVE  ProgramStep
<1>1. /\ run[r].status = "NONE" /\ run[r].code = "NO_ERROR"
      /\ run'[r] = [plan |-> p, status |-> "PENDING", code |-> "NO_ERROR"]
      /\ \A q \in Runs : q # r => run'[q] = run[q]
      /\ quiesced' = quiesced
  BY DEF Steady, TypeOK, ScheduleRun, RunInvariant, RunIsConsistent, Unscheduled
<1>2. Position(r) = "NONE"
  BY <1>1 DEF Position, AwaitsWorker, Active, RunStatuses
<1>3. NewJob(r, "PREFLIGHT") \in jobs' /\ \A j \in jobs : j \in jobs'
  BY DEF ScheduleRun
<1>4. Position(r)' = "PREFLIGHT"
  BY <1>3, NextPositionOfJob DEF Steady, NewJob
<1>5. Elsewhere(r)
  BY <1>1, <1>3, OthersStay DEF Steady
<1>6. [q \in Runs |-> run[q].plan]' = [[q \in Runs |-> run[q].plan] EXCEPT ![r] = p]
  BY <1>1, <1>5, PlanSet
<1>7. Program!Schedule(r, p)
  BY <1>1, <1>2, <1>4, <1>5, <1>6, GoesTo, ReasonsStay DEF Program!Schedule
<1>8. QED
  BY <1>7 DEF ProgramStep, Program!ProgramNext

LEMMA CancelSimulates ==
  ASSUME Steady, NEW r \in Runs, CancelRun(r)
  PROVE  ProgramStep
<1>1. run[r].status \in ForwardStatuses
  BY DEF CancelRun, Active, IsTerminal, ForwardStatuses, PipelineSteps, RunStatuses
<1>2. GoesForward(r)
  BY <1>1 DEF Steady, RunInvariant, RunIsConsistent
<1>3. /\ Position(r) \in ChainOf(r) /\ Position(r) \in PipelineSteps
      /\ AtGate(r) => Position(r) = "AWAIT_CUTOVER"
      /\ ~AtGate(r) => \/ run[r].status = Position(r)
                       \/ run[r].status = "PENDING" /\ Position(r) = "PREFLIGHT"
                       \/ <<run[r].status, Position(r)>> \in Successors
  BY <1>1, ForwardPosition DEF Steady
<1>4. CASE CancelBeforeQuiesce(r)
  <2>1. /\ run'[r].plan = run[r].plan /\ run'[r].status = "CANCELLED"
        /\ run'[r].code = "CANCEL_REQUESTED" /\ \A q \in Runs : q # r => run'[q] = run[q]
        /\ quiesced' = quiesced /\ \A j \in jobs : j.run # r => j \in jobs'
    BY <1>4 DEF Steady, TypeOK, RunRows, CancelBeforeQuiesce, SetRun, JobsRemoved, JobsOf
  <2>2. Position(r)' = "CANCELLED"
    BY <2>1 DEF Position, AwaitsWorker, Active, IsTerminal
  <2>3. Elsewhere(r)
    BY <2>1, OthersStay DEF Steady
  <2>4. r \notin quiesced /\ Position(r) \in {"PREFLIGHT", "PRESYNC", "QUIESCE"}
    BY <1>1, <1>2, <1>3, <1>4 DEF CancelBeforeQuiesce, GoesForward, RequiresRollback, AtGate,
       ForwardStatuses, PipelineSteps, Successors
  <2>5. Reason(run'[r].code) = "cancel"
    BY <2>1 DEF Reason
  <2>6. Program!EndEarly(r)
    BY <2>1, <2>2, <2>3, <2>4, <2>5, GoesTo, PlansStay, ReasonSet DEF Program!EndEarly
  <2>7. QED
    BY <2>6 DEF ProgramStep, Program!ProgramNext
<1>5. CASE CancelAfterQuiesce(r)
  <2>1. /\ run'[r].plan = run[r].plan /\ run'[r].code = "CANCEL_REQUESTED"
        /\ \A q \in Runs : q # r => run'[q] = run[q]
        /\ quiesced' = quiesced /\ \A j \in jobs : j.run # r => j \in jobs'
        /\ NewJob(r, "ROLLBACK") \in jobs'
    BY <1>5 DEF Steady, TypeOK, RunRows, CancelAfterQuiesce, SetRun, JobsRemoved, JobsOf
  <2>2. Position(r)' = "ROLLBACK"
    BY <2>1, NextPositionOfJob DEF Steady, NewJob
  <2>3. Elsewhere(r)
    BY <2>1, OthersStay DEF Steady
  <2>4. r \in quiesced
    BY <1>2, <1>5 DEF CancelAfterQuiesce, GoesForward
  <2>5. Reason(run'[r].code) = "cancel"
    BY <2>1 DEF Reason
  <2>6. Program!RollBack(r, "cancel")
    BY <1>3, <2>1, <2>2, <2>3, <2>4, <2>5, GoesTo, PlansStay, ReasonSet
       DEF Program!RollBack, Program!PipelineSteps, PipelineSteps
  <2>7. QED
    BY <2>6 DEF ProgramStep, Program!ProgramNext, Program!Reasons
<1>6. QED
  BY <1>4, <1>5 DEF CancelRun

LEMMA RestoreSourceSimulates ==
  ASSUME Steady, NEW r \in Runs, RestoreSource(r)
  PROVE  ProgramStep
<1>1. /\ run'[r].plan = run[r].plan /\ run'[r].code = "SOURCE_RESTORE_REQUESTED"
      /\ run[r].status = "COMPLETED" /\ \A q \in Runs : q # r => run'[q] = run[q]
      /\ quiesced' = quiesced /\ \A j \in jobs : j.run # r => j \in jobs'
      /\ NewJob(r, "RESTORE_SOURCE") \in jobs'
  BY DEF Steady, TypeOK, RunRows, RestoreSource, SetRun
<1>2. Position(r) = "COMPLETED"
  BY <1>1 DEF Position, AwaitsWorker, Active, IsTerminal
<1>3. Position(r)' = "RESTORE_SOURCE"
  BY <1>1, NextPositionOfJob DEF Steady, NewJob
<1>4. Elsewhere(r) /\ Reason(run'[r].code) = "request"
  BY <1>1, OthersStay DEF Steady, Reason
<1>5. Program!Restore(r)
  BY <1>1, <1>2, <1>3, <1>4, GoesTo, PlansStay, ReasonSet DEF Program!Restore
<1>6. QED
  BY <1>5 DEF ProgramStep, Program!ProgramNext

LEMMA ConfirmCutoverSimulates ==
  ASSUME Steady, NEW r \in Runs, ConfirmCutover(r)
  PROVE  ProgramStep
<1>1. /\ run'[r].plan = run[r].plan /\ run'[r].code = run[r].code
      /\ run'[r].status = "COMPLETED" /\ \A q \in Runs : q # r => run'[q] = run[q]
      /\ quiesced' = quiesced /\ jobs' = jobs
  BY DEF Steady, TypeOK, RunRows, ConfirmCutover
<1>2. Position(r) = "AWAIT_CUTOVER"
  BY DEF ConfirmCutover, AtGate, Position, AwaitsWorker
<1>3. Position(r)' = "COMPLETED"
  BY <1>1 DEF Position, AwaitsWorker, Active, IsTerminal
<1>4. Elsewhere(r)
  BY <1>1, OthersStay DEF Steady
<1>5. Program!PassGate(r)
  BY <1>1, <1>2, <1>3, <1>4, GoesTo, PlansStay, ReasonsStay DEF Program!PassGate
<1>6. QED
  BY <1>5 DEF ProgramStep, Program!ProgramNext

LEMMA ReconcileSimulates ==
  ASSUME Steady, NEW r \in Runs, ReconcileValidation(r)
  PROVE  ProgramStep
<1>1. /\ run'[r].plan = run[r].plan /\ run'[r].code = "VALIDATION_RECONCILED"
      /\ run[r].status = "FAILED" /\ run'[r].status = "COMPLETED"
      /\ \A q \in Runs : q # r => run'[q] = run[q]
      /\ quiesced' = quiesced /\ jobs' = jobs
  BY DEF Steady, TypeOK, RunRows, ReconcileValidation, SetRun
<1>2. Position(r) = "FAILED" /\ Position(r)' = "COMPLETED"
  BY <1>1 DEF Position, AwaitsWorker, Active, IsTerminal
<1>3. Elsewhere(r) /\ Reason(run'[r].code) = "nothing"
  BY <1>1, OthersStay DEF Steady, Reason
<1>4. r \in quiesced
  <2>1. HasFailed(r)
    BY <1>1 DEF Steady, RunInvariant, RunIsConsistent
  <2>2. QED
    BY <2>1 DEF ReconcileValidation, HasFailed, Accomplished, StepKeys, PipelineSteps
<1>5. Program!Reconcile(r)
  BY <1>1, <1>2, <1>3, <1>4, GoesTo, PlansStay, ReasonSet DEF Program!Reconcile
<1>6. QED
  BY <1>5 DEF ProgramStep, Program!ProgramNext

LEMMA SameDomain ==
  /\ Program!PipelineSteps = PipelineSteps /\ Program!RecoverySteps = RecoverySteps
  /\ Program!Rank = Rank
  /\ \A r \in Runs : Program!Chain(r) = ChainOf(r)
  /\ \A r \in Runs : \A k, n : Program!Follows(r, k, n) <=> FollowsInChain(r, k, n)
<1>1. /\ Program!PipelineSteps = PipelineSteps /\ Program!RecoverySteps = RecoverySteps
      /\ Program!Rank = Rank
  BY DEF Program!PipelineSteps, PipelineSteps, Program!RecoverySteps, RecoverySteps,
     Program!Rank, Rank
<1>2. \A r \in Runs : Program!Chain(r) = ChainOf(r)
  BY <1>1 DEF Program!Chain, ChainOf, Program!ScheduledSteps, ScheduledSteps
<1>3. \A r \in Runs : \A k, n : Program!Follows(r, k, n) <=> FollowsInChain(r, k, n)
  BY <1>1, <1>2 DEF Program!Follows, FollowsInChain
<1>4. QED
  BY <1>1, <1>2, <1>3

LEMMA ClaimSimulates ==
  ASSUME Steady, NEW w \in Workers, NEW j \in jobs, Claim(w, j)
  PROVE  ProgramStep
<1>1. PICK r \in Runs, k \in StepKeys : r = j.run /\ k = j.step
  BY OnlyJob DEF Steady
<1>2. /\ run'[r].code = run[r].code /\ run'[r].plan = run[r].plan
      /\ \A q \in Runs : q # r => run'[q] = run[q]
  BY <1>1 DEF Steady, TypeOK, RunRows, Claim
<1>3. Leased(j, w) \in jobs' /\ \A i \in jobs : i.run # r => i \in jobs'
  BY <1>1 DEF Claim
<1>4. Position(r) = k /\ Position(r)' = k
  BY <1>1, <1>3, PositionOfJob, NextPositionOfJob DEF Steady, Leased
<1>5. Elsewhere(r)
  BY <1>2, <1>3, OthersStay DEF Steady
<1>6. /\ [q \in Runs |-> run[q].plan]' = [q \in Runs |-> run[q].plan]
      /\ [q \in Runs |-> Reason(run[q].code)]' = [q \in Runs |-> Reason(run[q].code)]
      /\ [q \in Runs |-> Position(q)]' = [q \in Runs |-> Position(q)]
  BY <1>2, <1>4, <1>5, PlansStay, ReasonsStay DEF Elsewhere
<1>7. CASE k = "QUIESCE"
  <2>1. quiesced' = quiesced \cup {r}
    BY <1>1, <1>7 DEF Claim
  <2>2. Program!Touch(r)
    BY <1>4, <1>6, <1>7, <2>1 DEF Program!Touch
  <2>3. QED
    BY <2>2 DEF ProgramStep, Program!ProgramNext
<1>8. CASE k # "QUIESCE"
  <2>1. quiesced' = quiesced
    BY <1>1, <1>8 DEF Claim
  <2>2. QED
    BY <1>6, <2>1 DEF ProgramStep, Program!programVars
<1>9. QED
  BY <1>7, <1>8

LEMMA CompleteAndEnqueueSimulates ==
  ASSUME Steady, NEW w \in Workers, CompleteAndEnqueue(w)
  PROVE  ProgramStep
<1>1. PICK r \in Runs, k \in StepKeys : r = claim[w].run /\ k = claim[w].step
  BY HeldRun DEF Steady, CompleteAndEnqueue
<1>2. PICK n \in StepKeys : IsNextStep(r, n) /\ jobs' = (jobs \ HeldJobs(w)) \cup {NewJob(r, n)}
  BY <1>1 DEF CompleteAndEnqueue
<1>3. HeldJobs(w) # {} /\ run' = run /\ quiesced' = quiesced
  BY DEF CompleteAndEnqueue
<1>4. k \in PipelineSteps
  BY <1>1, <1>2, <1>3, HeldIsForward DEF Steady
<1>5. /\ k \in ChainOf(r) /\ ReachedStep(r, k) /\ GoesForward(r) /\ IsScheduled(r)
      /\ steps[r][k] = "RUNNING"
  BY <1>1, <1>3, <1>4, HeldStep DEF Steady
<1>6. n \in PipelineSteps /\ FollowsInChain(r, k, n)
  BY <1>2, <1>4, <1>5, NextStepFollows DEF Steady
<1>7. Position(r) = k
  BY <1>1, <1>3, PositionOfHeld DEF Steady
<1>8. Position(r)' = n
  <2>1. NewJob(r, n) \in jobs' /\ NewJob(r, n).run = r /\ NewJob(r, n).step = n
    BY <1>2 DEF NewJob
  <2>2. QED
    BY <2>1, NextPositionOfJob DEF Steady
<1>9. Elsewhere(r)
  BY <1>1, <1>2, <1>3, OthersStay DEF Steady, HeldJobs
<1>10. Program!Advance(r)
  BY <1>3, <1>4, <1>6, <1>7, <1>8, <1>9, GoesTo, PlansStay, ReasonsStay, SameDomain
     DEF Program!Advance
<1>11. QED
  BY <1>10 DEF ProgramStep, Program!ProgramNext

LEMMA CompleteAndOpenGateSimulates ==
  ASSUME Steady, NEW w \in Workers, CompleteAndOpenGate(w)
  PROVE  ProgramStep
<1> DEFINE gate == "AWAIT_CUTOVER"
<1>1. PICK r \in Runs, k \in StepKeys : r = claim[w].run /\ k = claim[w].step
  BY HeldRun DEF Steady, CompleteAndOpenGate
<1>2. /\ HeldJobs(w) # {} /\ IsNextStep(r, gate) /\ jobs' = jobs \ HeldJobs(w)
      /\ run'[r].status = "AWAITING_CUTOVER" /\ run'[r].code = run[r].code
      /\ run'[r].plan = run[r].plan /\ \A q \in Runs : q # r => run'[q] = run[q]
      /\ quiesced' = quiesced
  BY <1>1 DEF Steady, TypeOK, RunRows, CompleteAndOpenGate
<1>3. gate \in StepKeys
  BY DEF StepKeys, PipelineSteps
<1>4. k \in PipelineSteps
  BY <1>1, <1>2, <1>3, HeldIsForward DEF Steady
<1>5. /\ k \in ChainOf(r) /\ ReachedStep(r, k) /\ GoesForward(r) /\ IsScheduled(r)
      /\ steps[r][k] = "RUNNING"
  BY <1>1, <1>2, <1>4, HeldStep DEF Steady
<1>6. gate \in PipelineSteps /\ FollowsInChain(r, k, gate)
  BY <1>2, <1>3, <1>4, <1>5, NextStepFollows DEF Steady
<1>7. Position(r) = k
  BY <1>1, <1>2, PositionOfHeld DEF Steady
<1>8. Position(r)' = gate
  BY <1>2 DEF Position, AwaitsWorker
<1>9. Elsewhere(r)
  BY <1>1, <1>2, OthersStay DEF Steady, HeldJobs
<1> HIDE DEF gate
<1>10. Program!Advance(r)
  BY <1>2, <1>4, <1>6, <1>7, <1>8, <1>9, GoesTo, PlansStay, ReasonsStay, SameDomain
     DEF Program!Advance
<1>11. QED
  BY <1>10 DEF ProgramStep, Program!ProgramNext

LEMMA CompleteRollbackSimulates ==
  ASSUME Steady, NEW w \in Workers, CompleteRollback(w)
  PROVE  ProgramStep
<1>1. PICK r \in Runs, k \in StepKeys : r = claim[w].run /\ k = claim[w].step
  BY HeldRun DEF Steady, CompleteRollback
<1> DEFINE outcome == AfterRollback(run[r].code)
           code == IF run[r].code = "SOURCE_RESTORE_REQUESTED" THEN "SOURCE_RESTORED"
                                                               ELSE run[r].code
<1>2. /\ HeldJobs(w) # {} /\ k \in RecoverySteps /\ jobs' = jobs \ HeldJobs(w)
      /\ SetRun(r, outcome.run, code) /\ quiesced' = quiesced
  BY <1>1 DEF CompleteRollback
<1> HIDE DEF outcome, code
<1>3. /\ run'[r].status = outcome.run /\ run'[r].code = code
      /\ run'[r].plan = run[r].plan /\ \A q \in Runs : q # r => run'[q] = run[q]
  BY <1>2 DEF Steady, TypeOK, RunRows, SetRun
<1>4. /\ GoesBack(r)
      /\ k = IF run[r].code = "SOURCE_RESTORE_REQUESTED" THEN "RESTORE_SOURCE" ELSE "ROLLBACK"
  BY <1>1, <1>2, HeldStep DEF Steady
<1>5. Position(r) = k
  BY <1>1, <1>2, PositionOfHeld DEF Steady
<1>6. Elsewhere(r)
  BY <1>1, <1>2, <1>3, OthersStay DEF Steady, HeldJobs
<1>7. CASE run[r].code = "SOURCE_RESTORE_REQUESTED"
  <2>1. outcome.run = "COMPLETED" /\ code = "SOURCE_RESTORED"
    BY <1>7 DEF outcome, code, AfterRollback
  <2>2. Position(r)' = "COMPLETED" /\ Reason(run'[r].code) = "nothing"
    BY <1>3, <2>1 DEF Position, AwaitsWorker, Active, IsTerminal, Reason
  <2>3. Program!FinishRestore(r)
    BY <1>2, <1>3, <1>4, <1>5, <1>6, <1>7, <2>2, GoesTo, PlansStay, ReasonSet
       DEF Program!FinishRestore
  <2>4. QED
    BY <2>3 DEF ProgramStep, Program!ProgramNext
<1>8. CASE run[r].code # "SOURCE_RESTORE_REQUESTED"
  <2>1. /\ run[r].code \in {"CANCEL_REQUESTED", "STEP_FAILED"} /\ code = run[r].code
        /\ outcome.run = IF run[r].code = "CANCEL_REQUESTED" THEN "CANCELLED" ELSE "FAILED"
    BY <1>4, <1>8 DEF GoesBack, outcome, code, AfterRollback
  <2>2. Position(r)' = IF Reason(run[r].code) = "cancel" THEN "CANCELLED" ELSE "FAILED"
    BY <1>3, <2>1 DEF Position, AwaitsWorker, Active, IsTerminal, Reason
  <2>3. Program!FinishRollback(r)
    BY <1>2, <1>3, <1>4, <1>5, <1>6, <1>8, <2>1, <2>2, GoesTo, PlansStay, ReasonsStay
       DEF Program!FinishRollback
  <2>4. QED
    BY <2>3 DEF ProgramStep, Program!ProgramNext
<1>9. QED
  BY <1>7, <1>8

LEMMA FailRunSimulates ==
  ASSUME Steady, NEW w \in Workers, FailRun(w)
  PROVE  ProgramStep
<1>1. PICK r \in Runs, k \in StepKeys : r = claim[w].run /\ k = claim[w].step
  BY HeldRun DEF Steady, FailRun
<1>2. /\ HeldJobs(w) # {} /\ EndsRun(r, k) /\ jobs' = jobs \ HeldJobs(w)
      /\ SetRun(r, "FAILED", "STEP_FAILED") /\ quiesced' = quiesced
  BY <1>1 DEF FailRun
<1>3. /\ run'[r].status = "FAILED" /\ run'[r].code = "STEP_FAILED"
      /\ run'[r].plan = run[r].plan /\ \A q \in Runs : q # r => run'[q] = run[q]
  BY <1>2 DEF Steady, TypeOK, RunRows, SetRun
<1>4. Position(r) = k /\ k # "AWAIT_CUTOVER"
  BY <1>1, <1>2, PositionOfHeld, HeldStep DEF Steady
<1>5. Position(r)' = "FAILED" /\ Reason(run'[r].code) = "failure"
  BY <1>3 DEF Position, AwaitsWorker, Active, IsTerminal, Reason
<1>6. Elsewhere(r)
  BY <1>1, <1>2, <1>3, OthersStay DEF Steady, HeldJobs
<1>7. CASE k \in RecoverySteps
  <2>1. Program!GiveUpRollback(r)
    BY <1>2, <1>3, <1>4, <1>5, <1>6, <1>7, GoesTo, PlansStay, ReasonSet, SameDomain
       DEF Program!GiveUpRollback
  <2>2. QED
    BY <2>1 DEF ProgramStep, Program!ProgramNext
<1>8. CASE k \notin RecoverySteps
  <2>1. run[r].status = k /\ GoesForward(r) /\ k \in PipelineSteps
    BY <1>1, <1>2, <1>8, HeldStep DEF Steady, StepKeys
  <2>2. r \notin quiesced /\ k \in {"PREFLIGHT", "PRESYNC"}
    BY <1>2, <1>4, <1>8, <2>1 DEF EndsRun, GoesForward, RequiresRollback, PipelineSteps
  <2>3. Program!EndEarly(r)
    BY <1>2, <1>3, <1>4, <1>5, <1>6, <2>2, GoesTo, PlansStay, ReasonSet DEF Program!EndEarly
  <2>4. QED
    BY <2>3 DEF ProgramStep, Program!ProgramNext
<1>9. QED
  BY <1>7, <1>8

LEMMA FailAndRollBackSimulates ==
  ASSUME Steady, NEW w \in Workers, FailAndRollBack(w)
  PROVE  ProgramStep
<1>1. PICK r \in Runs, k \in StepKeys : r = claim[w].run /\ k = claim[w].step
  BY HeldRun DEF Steady, FailAndRollBack
<1>2. /\ HeldJobs(w) # {} /\ ~EndsRun(r, k)
      /\ jobs' = (jobs \ HeldJobs(w)) \cup {NewJob(r, "ROLLBACK")}
      /\ SetRun(r, "ROLLING_BACK", "STEP_FAILED") /\ quiesced' = quiesced
  BY <1>1 DEF FailAndRollBack
<1>3. /\ run'[r].code = "STEP_FAILED" /\ run'[r].plan = run[r].plan
      /\ \A q \in Runs : q # r => run'[q] = run[q]
  BY <1>2 DEF Steady, TypeOK, RunRows, SetRun
<1>4. Position(r) = k /\ k # "AWAIT_CUTOVER" /\ k \in PipelineSteps
  BY <1>1, <1>2, PositionOfHeld, HeldStep DEF Steady, EndsRun, StepKeys
<1>5. run[r].status = k /\ GoesForward(r)
  BY <1>1, <1>2, <1>4, HeldStep DEF Steady
<1>6. r \in quiesced
  BY <1>2, <1>5 DEF EndsRun, GoesForward
<1>7. Position(r)' = "ROLLBACK"
  <2>1. /\ NewJob(r, "ROLLBACK") \in jobs' /\ NewJob(r, "ROLLBACK").run = r
        /\ NewJob(r, "ROLLBACK").step = "ROLLBACK"
    BY <1>2 DEF NewJob
  <2>2. QED
    BY <2>1, NextPositionOfJob DEF Steady
<1>8. Elsewhere(r) /\ Reason(run'[r].code) = "failure"
  BY <1>1, <1>2, <1>3, OthersStay DEF Steady, HeldJobs, Reason
<1>9. Program!RollBack(r, "failure")
  BY <1>2, <1>3, <1>4, <1>6, <1>7, <1>8, GoesTo, PlansStay, ReasonSet, SameDomain
     DEF Program!RollBack
<1>10. QED
  BY <1>9 DEF ProgramStep, Program!ProgramNext, Program!Reasons

\* Retry and the clock replace a job by one for the same step.
LEMMA RetryJobKeeps ==
  ASSUME Steady, NEW w \in Workers, RetryJob(w)
  PROVE  ProgramStep
<1>1. \A j \in HeldJobs(w) : LET freed == [j EXCEPT !.owner = None, !.expired = FALSE]
                             IN  freed \in jobs' /\ freed.run = j.run /\ freed.step = j.step
  BY DEF Steady, TypeOK, Jobs, HeldJobs, RetryJob
<1>2. \A r \in Runs : JobsAreKept(r)
  BY <1>1 DEF RetryJob, JobsAreKept
<1>3. QED
  BY <1>2, NothingHappens DEF Steady, RetryJob, ProgramStep

LEMMA ExpireKeeps ==
  ASSUME Steady, NEW j \in jobs, LeaseRunsOut(j) \/ HeartbeatLate(j)
  PROVE  ProgramStep
<1> DEFINE late == [j EXCEPT !.expired = TRUE]
<1>1. /\ jobs' = (jobs \ {j}) \cup {late} /\ run' = run /\ quiesced' = quiesced
  BY DEF LeaseRunsOut, HeartbeatLate, Expire
<1>2. late.run = j.run /\ late.step = j.step
  BY DEF Steady, TypeOK, Jobs
<1> HIDE DEF late
<1>3. \A r \in Runs : JobsAreKept(r)
  BY <1>1, <1>2 DEF JobsAreKept
<1>4. QED
  BY <1>1, <1>3, NothingHappens DEF Steady, ProgramStep

LEMMA NothingSimulates ==
  ASSUME Steady, jobs' = jobs, run' = run, quiesced' = quiesced
  PROVE  ProgramStep
<1>1. \A r \in Runs : JobsAreKept(r)
  BY DEF JobsAreKept
<1>2. QED
  BY <1>1, NothingHappens DEF Steady, ProgramStep

LEMMA NextSimulates ==
  TypeOK /\ JobInvariant /\ RunInvariant /\ [Next]_vars => ProgramStep
<1> SUFFICES ASSUME TypeOK, JobInvariant, RunInvariant, [Next]_vars PROVE ProgramStep
  OBVIOUS
<1>0. Steady
  BY NextTyped, NextExclusive DEF Steady
<1>1. ASSUME NEW p \in Plans, NEW status \in PlanStatuses, Preflight(p, status)
      PROVE  ProgramStep
  BY <1>0, <1>1, NothingSimulates DEF Preflight
<1>2. ASSUME NEW p \in Plans, NEW r \in Runs, Start(p, r) PROVE ProgramStep
  BY <1>0, <1>2, ScheduleSimulates DEF Start
<1>3. ASSUME NEW previous \in Runs, NEW r \in Runs, RetryRun(previous, r)
      PROVE  ProgramStep
  <2>1. run[previous].plan \in Plans
    BY <1>3, EndedIsScheduled DEF RetryRun
  <2>2. QED
    BY <1>0, <1>3, <2>1, ScheduleSimulates DEF RetryRun
<1>4. ASSUME NEW r \in Runs, Administrator(r) PROVE ProgramStep
  <2>1. CASE DeleteRun(r)
    BY <1>0, <2>1, NothingSimulates DEF DeleteRun
  <2>2. QED
    BY <1>0, <1>4, <2>1, CancelSimulates, RestoreSourceSimulates, ConfirmCutoverSimulates,
       ReconcileSimulates DEF Administrator
<1>5. ASSUME NEW w \in Workers, Worker(w) PROVE ProgramStep
  <2>1. CASE \/ \E result \in {"succeeded", "failed"} : HandlerReturns(w, result)
             \/ HeartbeatRejected(w) \/ AbandonJob(w) \/ StaleResult(w)
    BY <1>0, <2>1, NothingSimulates
       DEF HandlerReturns, HeartbeatRejected, AbandonJob, StaleResult, database
  <2>2. CASE \E j \in jobs : Claim(w, j)
    BY <1>0, <2>2, ClaimSimulates
  <2>3. CASE CompleteAndEnqueue(w) \/ CompleteAndOpenGate(w) \/ CompleteRollback(w)
    BY <1>0, <2>3, CompleteAndEnqueueSimulates, CompleteAndOpenGateSimulates,
       CompleteRollbackSimulates
  <2>4. CASE RetryJob(w) \/ FailRun(w) \/ FailAndRollBack(w)
    BY <1>0, <2>4, RetryJobKeeps, FailRunSimulates, FailAndRollBackSimulates
  <2>5. QED
    BY <1>5, <2>1, <2>2, <2>3, <2>4 DEF Worker, StoreResult
<1>6. ASSUME NEW j \in jobs, LeaseRunsOut(j) \/ HeartbeatLate(j) PROVE ProgramStep
  BY <1>0, <1>6, ExpireKeeps
<1>7. CASE Failure
  <2>1. ASSUME NEW w \in Workers, HeartbeatError(w) \/ StoreError(w) \/ Crash(w)
        PROVE  ProgramStep
    BY <1>0, <2>1, NothingSimulates DEF HeartbeatError, StoreError, Crash, database
  <2>2. QED
    BY <1>6, <1>7, <2>1 DEF Failure
<1>8. CASE UNCHANGED vars
  BY <1>0, <1>8, NothingSimulates DEF vars
<1>9. QED
  BY <1>1, <1>2, <1>3, <1>4, <1>5, <1>6, <1>7, <1>8 DEF Next

-----------------------------------------------------------------------------
(***************************************************************************)
(* The theorem.                                                            *)
(***************************************************************************)
\* Whatever workers, leases, retries, takeovers, crashes and administrators do,
\* a run is executed like the sequential program RunProgram: one step at a time,
\* in the order of its chain, and once the source is touched to the confirmed
\* gate or through a rollback.
THEOREM QueueExecutesProgram == Spec => ExecutesProgram
<1>1. Init => Program!ProgramInit
  BY InitSimulates
<1>2. TypeOK /\ JobInvariant /\ RunInvariant /\ [Next]_vars
        => [Program!ProgramNext]_(Program!programVars)
  BY NextSimulates DEF ProgramStep
<1>3. QED
  BY <1>1, <1>2, TypeCorrect, JobsInvariant, RunsAreConsistent, PTL
     DEF Spec, ExecutesProgram, Program!ProgramSpec
=============================================================================
