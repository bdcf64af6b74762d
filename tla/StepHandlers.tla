---------------------------- MODULE StepHandlers ----------------------------
(***************************************************************************)
(* The control that both executors share: the worker that holds the job of *)
(* a run calls the handler of one step, and the handler makes one call     *)
(* after another.  MigrationJobs models the queue itself; of what it shows *)
(* the following is used here: a run has one job, whose steps come in the  *)
(* order of Chain, an error is retried until the attempts are exhausted,   *)
(* and then leads to ROLLBACK if the source may have been stopped.         *)
(*                                                                         *)
(* A handler whose lease was lost goes on until its heartbeat notices.  It *)
(* is the run's "ghost" while the "current" handler has been started anew; *)
(* its result is dropped.                                                  *)
(***************************************************************************)
EXTENDS MigrationDomain, Sequences, FiniteSets

CONSTANTS
  Runs,         \* runs that go on at the same time
  Volumes,      \* volumes of a source
  Classes,      \* pairs <<source class, target class>> of mapping profiles
  MaxAttempts,  \* attempts of a step
  MaxFaults     \* bound: calls that fail, workers that die, leases that are lost

ASSUME HandlersAssumption == MaxAttempts \in Nat \ {0} /\ MaxFaults \in Nat

VARIABLES
  setting,   \* what differs between deployments and plans; it never changes
  job,       \* the step each run is at, and its attempts so far
  handler,   \* the handlers of each run
  failures   \* bound: faults so far

handlerVars == <<setting, job, handler, failures>>

Chain == <<"PREFLIGHT", "PRESYNC", "QUIESCE", "FINAL_BACKUP", "TRANSFER",
           "TRANSFORM", "RESTORE", "VALIDATION", "COMPLETED">>

\* COMPLETED stands for all that follows VALIDATION.
Ends == {"COMPLETED", "FAILED"}

Steps == {Chain[i] : i \in DOMAIN Chain} \cup {"ROLLBACK", "FAILED", "ABSENT"}

Slots == {"current", "ghost"}

(***************************************************************************)
(* step - the step it was started for                                      *)
(* pc   - the call that the handler makes next, "none" if there is none    *)
(* todo - the volumes that its loop has still to visit                     *)
(* copy - an object it has read and is about to write back; fresh says that*)
(*        nobody has written the object since (its resourceVersion)        *)
(***************************************************************************)
At(step, pc) == [step |-> step, pc |-> pc, todo |-> {}, copy |-> {}, fresh |-> FALSE]

Idle == At("ABSENT", "none")

IsAt(r, s, pc) == handler[r][s].pc = pc

Works(r, s) == ~IsAt(r, s, "none")

HandlerStates(calls) ==
  [step : Steps, pc : calls, todo : SUBSET Volumes, copy : SUBSET (Runs \X Classes), fresh : BOOLEAN]

HandlersTypeOK(calls) ==
  /\ job \in [Runs -> [step : Steps, attempt : 0..MaxAttempts]]
  /\ handler \in [Runs -> [Slots -> HandlerStates(calls)]]
  /\ failures \in 0..MaxFaults

HandlersInit(first) ==
  /\ job = [r \in Runs |-> [step |-> first[r], attempt |-> 0]]
  /\ handler = [r \in Runs |-> [s \in Slots |-> Idle]]
  /\ failures = 0

\* A handler comes to its next call.
GoOn(r, s, next) ==
  /\ handler' = [handler EXCEPT ![r][s] = next]
  /\ UNCHANGED <<setting, job, failures>>

ProceedTo(r, s, pc) == GoOn(r, s, At(handler[r][s].step, pc))

NextStep(step) == Chain[1 + CHOOSE i \in DOMAIN Chain : Chain[i] = step]

\* The handler returns nil: Runner.processOne completes the step.
Succeed(r, s) ==
  /\ handler' = [handler EXCEPT ![r][s] = Idle]
  /\ job' = IF s = "ghost" THEN job
            ELSE [job EXCEPT ![r] = [step |-> NextStep(job[r].step), attempt |-> 0]]
  /\ UNCHANGED <<setting, failures>>

\* The handler returns an error: the step is retried, or the run fails.
AfterError(r) ==
  IF job[r].attempt < MaxAttempts THEN job[r]
  ELSE [step |-> IF RequiresRollback(job[r].step) THEN "ROLLBACK" ELSE "FAILED", attempt |-> 0]

ReturnError(r, s) ==
  /\ handler' = [handler EXCEPT ![r][s] = Idle]
  /\ job' = IF s = "ghost" THEN job ELSE [job EXCEPT ![r] = AfterError(r)]
  /\ UNCHANGED setting

\* An error that is not a fault: the handler finds something it refuses.
Refuse(r, s) == ReturnError(r, s) /\ UNCHANGED failures

Fault == failures < MaxFaults /\ failures' = failures + 1

\* A ghost's context is cancelled at some time, which needs no further fault.
FaultOf(s) == IF s = "ghost" THEN UNCHANGED failures ELSE Fault

Claims(r) == ~Works(r, "current") /\ job[r].step \notin Ends \cup {"ROLLBACK", "ABSENT"}

ClaimJob(r, pc) ==
  /\ Claims(r)
  /\ handler' = [handler EXCEPT ![r].current = At(job[r].step, pc)]
  /\ job' = [job EXCEPT ![r].attempt = IF @ < MaxAttempts THEN @ + 1 ELSE @]
  /\ UNCHANGED <<setting, failures>>

\* A worker dies.  Nothing that it deferred is done.
WorkerDies(r) ==
  /\ Works(r, "current") /\ Fault
  /\ handler' = [handler EXCEPT ![r].current = Idle]
  /\ UNCHANGED <<setting, job>>

\* The handler goes on as the ghost of the run.
LeaveToGhost(r) ==
  handler' = [handler EXCEPT ![r] = [s \in Slots |-> IF s = "ghost" THEN handler[r].current ELSE Idle]]

\* A lease runs out although its worker lives: the job can be claimed again.
Overtake(r) ==
  /\ Works(r, "current") /\ ~Works(r, "ghost") /\ Fault
  /\ LeaveToGhost(r)
  /\ UNCHANGED <<setting, job>>

\* An administrator cancels a run whose source may have been stopped.
CancelRun(r) ==
  /\ RequiresRollback(job[r].step) /\ ~Works(r, "ghost") /\ Fault
  /\ LeaveToGhost(r)
  /\ job' = [job EXCEPT ![r] = [step |-> "ROLLBACK", attempt |-> 0]]
  /\ UNCHANGED setting

\* Volumes are visited one after the other.
IsNext(v, todo) == v \in todo /\ v = CHOOSE x \in todo : TRUE

Ended(r) == job[r].step \in Ends

\* What a run's handlers do follows the step that it is at.
HandlersFollow(calls) ==
  \A r \in Runs :
    /\ handler[r].current.step \in {"ABSENT", job[r].step}
    /\ \A s \in Slots : handler[r][s].step \in DOMAIN calls /\ handler[r][s].pc \in calls[handler[r][s].step]
=============================================================================
