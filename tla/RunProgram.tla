---------------------------- MODULE RunProgram ----------------------------
(***************************************************************************)
(* What the job queue promises of each migration run: that it is executed  *)
(* like a sequential program.  There are no jobs, leases, owners, attempts *)
(* or faults here.  A run is at one step of its chain, or at an end; it    *)
(* moves to the next step only by finishing the one it is at; once it has  *)
(* touched the source it ends at the confirmed gate or through a rollback. *)
(***************************************************************************)
EXTENDS MigrationDomain

CONSTANTS Plans, Runs, PreSyncPlans, VolumePlans, None

VARIABLES
  plan,     \* the plan of each run, None before it is scheduled
  at,       \* the step each run is at, or its end
  touched,  \* runs that may have stopped the workloads of the source
  undo      \* why the source of a run is being restored

Ends == {"COMPLETED", "FAILED", "CANCELLED"}
Reasons == {"nothing", "failure", "cancel", "request"}

programVars == <<plan, at, touched, undo>>

ProgramInit ==
  /\ plan = [r \in Runs |-> None]
  /\ at = [r \in Runs |-> "NONE"]
  /\ touched = {}
  /\ undo = [r \in Runs |-> "nothing"]

Chain(r) == ScheduledSteps(plan[r] \in PreSyncPlans, plan[r] \in VolumePlans)

Follows(r, k, n) ==
  /\ k \in Chain(r) /\ n \in Chain(r)
  /\ Rank[k] < Rank[n]
  /\ \A m \in Chain(r) : Rank[m] <= Rank[k] \/ Rank[n] <= Rank[m]

GoTo(r, where) == at' = [at EXCEPT ![r] = where]

Schedule(r, p) ==
  /\ at[r] = "NONE"
  /\ plan' = [plan EXCEPT ![r] = p]
  /\ GoTo(r, "PREFLIGHT")
  /\ UNCHANGED <<touched, undo>>

Advance(r) ==
  /\ \E n \in PipelineSteps : at[r] \in PipelineSteps /\ Follows(r, at[r], n) /\ GoTo(r, n)
  /\ UNCHANGED <<plan, touched, undo>>

\* A worker begins to quiesce the source.
Touch(r) ==
  /\ at[r] = "QUIESCE"
  /\ touched' = touched \cup {r}
  /\ UNCHANGED <<plan, at, undo>>

\* Before the source is touched a run just ends.  The gate cannot fail.
EndEarly(r) ==
  /\ r \notin touched
  /\ \/ /\ at[r] \in {"PREFLIGHT", "PRESYNC", "QUIESCE"}
        /\ GoTo(r, "CANCELLED")
        /\ undo' = [undo EXCEPT ![r] = "cancel"]
     \/ /\ at[r] \in {"PREFLIGHT", "PRESYNC"}
        /\ GoTo(r, "FAILED")
        /\ undo' = [undo EXCEPT ![r] = "failure"]
  /\ UNCHANGED <<plan, touched>>

\* After that, it goes through its rollback.
RollBack(r, why) ==
  /\ r \in touched
  /\ at[r] \in PipelineSteps
  /\ \/ why = "cancel"
     \/ why = "failure" /\ at[r] # "AWAIT_CUTOVER"
  /\ GoTo(r, "ROLLBACK")
  /\ undo' = [undo EXCEPT ![r] = why]
  /\ UNCHANGED <<plan, touched>>

FinishRollback(r) ==
  /\ at[r] = "ROLLBACK"
  /\ GoTo(r, IF undo[r] = "cancel" THEN "CANCELLED" ELSE "FAILED")
  /\ UNCHANGED <<plan, touched, undo>>

GiveUpRollback(r) ==
  /\ at[r] \in RecoverySteps
  /\ GoTo(r, "FAILED")
  /\ undo' = [undo EXCEPT ![r] = "failure"]
  /\ UNCHANGED <<plan, touched>>

PassGate(r) ==
  /\ at[r] = "AWAIT_CUTOVER"
  /\ GoTo(r, "COMPLETED")
  /\ UNCHANGED <<plan, touched, undo>>

\* A validation that turns out to have succeeded after all.
Reconcile(r) ==
  /\ at[r] = "FAILED" /\ r \in touched
  /\ GoTo(r, "COMPLETED")
  /\ undo' = [undo EXCEPT ![r] = "nothing"]
  /\ UNCHANGED <<plan, touched>>

Restore(r) ==
  /\ at[r] = "COMPLETED"
  /\ GoTo(r, "RESTORE_SOURCE")
  /\ undo' = [undo EXCEPT ![r] = "request"]
  /\ UNCHANGED <<plan, touched>>

FinishRestore(r) ==
  /\ at[r] = "RESTORE_SOURCE"
  /\ GoTo(r, "COMPLETED")
  /\ undo' = [undo EXCEPT ![r] = "nothing"]
  /\ UNCHANGED <<plan, touched>>

ProgramNext ==
  \E r \in Runs :
    \/ \E p \in Plans : Schedule(r, p)
    \/ Advance(r) \/ Touch(r) \/ EndEarly(r) \/ \E why \in Reasons : RollBack(r, why)
    \/ FinishRollback(r) \/ GiveUpRollback(r)
    \/ PassGate(r) \/ Reconcile(r) \/ Restore(r) \/ FinishRestore(r)

ProgramSpec == ProgramInit /\ [][ProgramNext]_programVars
=============================================================================
