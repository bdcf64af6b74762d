-------------------------- MODULE SourceWorkloads --------------------------
(***************************************************************************)
(* What the handlers of the job queue do to the workloads of the source:   *)
(* QUIESCE stops them, FINAL_BACKUP copies their volumes, ROLLBACK and     *)
(* RESTORE_SOURCE start them again.  SourceDispatcher sends a Kubernetes   *)
(* source to VeleroExecutor and a Docker Compose source to ComposeExecutor.*)
(*                                                                         *)
(* A handler is not atomic.  Between two of its calls its lease can be lost*)
(* and the run cancelled, and it goes on until its heartbeat notices: the  *)
(* steps below need a worker that is "handling", not one that still owns   *)
(* its job.  A request that takes effect after the handler was cancelled is*)
(* the same behaviour with the heartbeat a little later.  Any call may fail*)
(* or time out: HandlerReturns(w, "failed") is enabled at every stage.     *)
(***************************************************************************)
EXTENDS MigrationJobs

\* Deployments and StatefulSets, or Compose services, of a source.
CONSTANT Workloads

ASSUME SourceAssumption == Workloads # {}

VARIABLES
  source,     \* the discovered source application of each plan; it never changes
  up,         \* the workloads of each plan's source that are told to run
  running,    \* those that run, as the status of the cluster reports it
  snapshot,   \* rows of workload_replica_snapshots, by run: a workload and whether it ran
  events,     \* the source's events in migration_events, by run
  handler,    \* where the handler of each worker is
  overtaken   \* history: runs on which a handler acted without its lease

sourceVars == <<source, up, running, snapshot, events, overtaken>>
allVars == <<vars, sourceVars, handler>>

\* A Compose project or a namespace, with or without PVCs or data volumes, and
\* the workloads that ran in it before any migration.
Sources == [compose: BOOLEAN, stateful: BOOLEAN, ran: SUBSET Workloads]

SourceEvents == {"COMPOSE_SOURCE_STOPPED", "COMPOSE_SOURCE_RESTARTED"}

(***************************************************************************)
(* begin    - nothing has been read yet                                    *)
(* listed   - the workloads were listed; want is what ran                  *)
(* changing - the workloads in todo are still to be brought to want        *)
(* waiting  - the workloads in todo have not been seen at want             *)
(* changed  - the Compose command has returned; its event is not recorded  *)
(* copying  - the final backup is being taken                              *)
(* done     - the handler will return without an error                     *)
(***************************************************************************)
Stages == {"begin", "listed", "changing", "waiting", "changed", "copying", "done"}

Handlers == [stage: Stages, want: SUBSET Workloads, todo: SUBSET Workloads]

At(stage) == [stage |-> stage, want |-> {}, todo |-> {}]

SourceTypeOK ==
  /\ source \in [Plans -> Sources]
  /\ up \in [Plans -> SUBSET Workloads]
  /\ running \in [Plans -> SUBSET Workloads]
  /\ snapshot \in [Runs -> SUBSET (Workloads \X BOOLEAN)]
  /\ events \in [Runs -> SUBSET SourceEvents]
  /\ handler \in [Workers -> Handlers]
  /\ overtaken \subseteq Runs

SourceInit ==
  /\ Init
  /\ source \in [Plans -> Sources]
  /\ up = [p \in Plans |-> source[p].ran]
  /\ running = up
  /\ snapshot = [r \in Runs |-> {}]
  /\ events = [r \in Runs |-> {}]
  /\ handler = [w \in Workers |-> At("done")]
  /\ overtaken = {}

(***************************************************************************)
(* Handlers.                                                               *)
(***************************************************************************)
PlanOf(w) == run[claim[w].run].plan

IsCompose(w) == source[PlanOf(w)].compose

\* Both executors leave a source without data running.
NeedsStop(w) == source[PlanOf(w)].stateful

SourceSteps == {"QUIESCE", "FINAL_BACKUP"} \cup RecoverySteps

AtStage(w, keys, stage) ==
  phase[w] = "handling" /\ claim[w].step \in keys /\ handler[w].stage = stage

GoOn(w, next) ==
  /\ handler' = [handler EXCEPT ![w] = next]
  /\ UNCHANGED vars

Changing(want) == [stage |-> "changing", want |-> want, todo |-> Workloads]

\* A call with an effect; the run was overtaken if the caller's job is gone.
ActsOnRun(w) ==
  overtaken' = IF HeldJobs(w) = {} THEN overtaken \cup {claim[w].run} ELSE overtaken

(***************************************************************************)
(* VeleroExecutor: a Kubernetes source.                                    *)
(***************************************************************************)
VeleroList(w) ==
  /\ AtStage(w, {"QUIESCE"}, "begin") /\ ~IsCompose(w)
  /\ GoOn(w, IF NeedsStop(w) THEN [At("listed") EXCEPT !.want = up[PlanOf(w)]] ELSE At("done"))
  /\ UNCHANGED sourceVars

\* The INSERT has ON CONFLICT DO NOTHING: the first listing of a run is kept.
Rows(listing) == {<<x, x \in listing>> : x \in Workloads}
LastListing(r, listing) == Rows(listing)
FirstListing(r, listing) ==
  snapshot[r] \cup {row \in Rows(listing) : \A kept \in snapshot[r] : kept[1] # row[1]}

Ran(r) == {x \in Workloads : <<x, TRUE>> \in snapshot[r]}

VeleroSaveSnapshot(w) ==
  LET r == claim[w].run
  IN  /\ AtStage(w, {"QUIESCE"}, "listed")
      /\ snapshot' = [snapshot EXCEPT ![r] = FirstListing(r, handler[w].want)]
      /\ GoOn(w, Changing({}))
      /\ ActsOnRun(w)
      /\ UNCHANGED <<source, up, running, events>>

\* Without a snapshot there is nothing to restore: a source that needed to be
\* stopped makes the handler fail, another one was never stopped.
EvenWithoutSnapshot(w) == TRUE
HasSnapshot(w) == snapshot[claim[w].run] # {}

VeleroReadSnapshot(w) ==
  /\ AtStage(w, RecoverySteps, "begin") /\ ~IsCompose(w)
  /\ \/ HasSnapshot(w) /\ GoOn(w, Changing(Ran(claim[w].run)))
     \/ ~HasSnapshot(w) /\ ~NeedsStop(w) /\ GoOn(w, At("done"))
  /\ UNCHANGED sourceVars

\* ScaleWorkloads updates every workload first and then waits for each, until
\* its status has caught up or the deadline makes the call fail.
Accepted(w, x) == TRUE
HasCaughtUp(w, x) == x \in running[PlanOf(w)] <=> x \in handler[w].want

VeleroWait(w, x) ==
  LET rest == handler[w].todo \ {x}
  IN  /\ AtStage(w, SourceSteps, "waiting")
      /\ x \in handler[w].todo
      /\ HasCaughtUp(w, x)
      /\ GoOn(w, IF rest = {} THEN At("done") ELSE [handler[w] EXCEPT !.todo = rest])
      /\ UNCHANGED sourceVars

(***************************************************************************)
(* ComposeExecutor: a Compose source.  Its memory is the run's event log.  *)
(***************************************************************************)
Recorded(w, event) == event \in events[claim[w].run]

ComposeQuiesce(w) ==
  /\ AtStage(w, {"QUIESCE"}, "begin") /\ IsCompose(w)
  /\ GoOn(w, IF NeedsStop(w) /\ ~Recorded(w, "COMPOSE_SOURCE_STOPPED")
               THEN Changing({}) ELSE At("done"))
  /\ UNCHANGED sourceVars

\* "up -d" starts every service of the project.
ComposeRollback(w) ==
  /\ AtStage(w, RecoverySteps, "begin") /\ IsCompose(w)
  /\ GoOn(w, IF Recorded(w, "COMPOSE_SOURCE_STOPPED") /\ ~Recorded(w, "COMPOSE_SOURCE_RESTARTED")
               THEN Changing(Workloads) ELSE At("done"))
  /\ UNCHANGED sourceVars

EventOfVelero(w) ==
  IF claim[w].step = "QUIESCE" THEN "SOURCE_QUIESCED" ELSE "COMPOSE_SOURCE_RESTARTED"
EventOf(w) ==
  IF claim[w].step = "QUIESCE" THEN "COMPOSE_SOURCE_STOPPED" ELSE "COMPOSE_SOURCE_RESTARTED"

ComposeRecord(w) ==
  /\ AtStage(w, SourceSteps, "changed")
  /\ events' = [events EXCEPT ![claim[w].run] = @ \cup {EventOf(w)}]
  /\ GoOn(w, At("done"))
  /\ ActsOnRun(w)
  /\ UNCHANGED <<source, up, running, snapshot>>

(***************************************************************************)
(* Both executors.                                                         *)
(***************************************************************************)
\* One workload is told to scale, or one service is stopped or started: docker
\* returns when the service has, the cluster follows when it does (Follow).
Put(x, set, within) == IF x \in set THEN within \cup {x} ELSE within \ {x}

Change(w, x) ==
  LET p == PlanOf(w)
      want == handler[w].want
      rest == handler[w].todo \ {x}
  IN  /\ AtStage(w, SourceSteps, "changing")
      /\ x \in handler[w].todo
      /\ up' = [up EXCEPT ![p] = Put(x, want, @)]
      /\ running' = IF IsCompose(w) THEN [running EXCEPT ![p] = Put(x, want, @)] ELSE running
      /\ GoOn(w, IF rest # {} THEN [handler[w] EXCEPT !.todo = rest]
                 ELSE IF IsCompose(w) THEN At("changed")
                 ELSE [Changing(want) EXCEPT !.stage = "waiting"])
      /\ ActsOnRun(w)
      /\ UNCHANGED <<source, snapshot, events>>

VeleroFinalBackup(w) ==
  /\ AtStage(w, {"FINAL_BACKUP"}, "begin") /\ ~IsCompose(w)
  /\ GoOn(w, At("copying"))
  /\ UNCHANGED sourceVars

\* Compose refuses to copy volumes of a source it has not recorded as stopped.
ComposeFinalBackup(w) ==
  /\ AtStage(w, {"FINAL_BACKUP"}, "begin") /\ IsCompose(w)
  /\ \/ ~NeedsStop(w) /\ GoOn(w, At("done"))
     \/ NeedsStop(w) /\ Recorded(w, "COMPOSE_SOURCE_STOPPED") /\ GoOn(w, At("copying"))
  /\ UNCHANGED sourceVars

\* The backup, or every volume's snapshot, is complete.
BackupCompletes(w) ==
  AtStage(w, {"FINAL_BACKUP"}, "copying") /\ GoOn(w, At("done")) /\ UNCHANGED sourceVars

HandlerStep(w) ==
  \/ VeleroList(w) \/ VeleroSaveSnapshot(w) \/ VeleroReadSnapshot(w)
  \/ ComposeQuiesce(w) \/ ComposeRollback(w) \/ ComposeRecord(w)
  \/ VeleroFinalBackup(w) \/ ComposeFinalBackup(w) \/ BackupCompletes(w)
  \/ \E x \in Workloads : Change(w, x) \/ VeleroWait(w, x)

\* The controllers of a source cluster start or stop the pods of a workload.
Follow(p, x) ==
  /\ ~source[p].compose
  /\ running' = [running EXCEPT ![p] = Put(x, up[p], @)]
  /\ running' # running
  /\ UNCHANGED <<vars, source, up, snapshot, events, overtaken, handler>>

(***************************************************************************)
(* The composition: a step of the queue, or a step of a handler.  The queue*)
(* starts a handler when its job is claimed, and sees it succeed only when *)
(* it is done.                                                             *)
(***************************************************************************)
FirstStage(key) == At(IF key \in SourceSteps THEN "begin" ELSE "done")

JobsStep ==
  /\ Next
  /\ \A w \in Workers :
       phase[w] = "handling" /\ phase'[w] = "succeeded" => handler[w].stage = "done"
  /\ handler' = [w \in Workers |->
       CASE phase[w] = "idle" /\ phase'[w] = "handling" -> FirstStage(claim'[w].step)
         [] phase[w] = "handling" /\ phase'[w] = "handling" -> handler[w]
         [] OTHER -> At("done")]
  /\ UNCHANGED sourceVars

SourceNext ==
  \/ JobsStep
  \/ \E w \in Workers : HandlerStep(w)
  \/ \E p \in Plans, x \in Workloads : Follow(p, x)

SourceSpec == SourceInit /\ [][SourceNext]_allVars
-----------------------------------------------------------------------------
(***************************************************************************)
(* Safety.  The source of a plan is shared by all runs of the plan, so each*)
(* property is about a run that is the only one of its plan.               *)
(***************************************************************************)
Before(r) == source[run[r].plan].ran

IsOnlyRun(r) ==
  /\ run[r].status \in RunStatuses
  /\ \A other \in Runs \ {r} : run[other].plan # run[r].plan

\* What was told to run before any migration is told to and does, nothing else.
Undisturbed(p) == up[p] = source[p].ran /\ running[p] = source[p].ran

\* The replica snapshot of a run is what ran before it, although QUIESCE is
\* retried and taken over after it has scaled some of the workloads down; and
\* only a source with data is ever stopped, a Kubernetes source not before its
\* snapshot is stored.
SnapshotIsOriginal ==
  \A r \in Runs : IsOnlyRun(r) =>
    /\ snapshot[r] # {} => snapshot[r] = Rows(Before(r))
    /\ ~Undisturbed(run[r].plan) =>
         source[run[r].plan].stateful /\ (source[run[r].plan].compose \/ snapshot[r] # {})

\* The final backup is taken of a source in which nothing runs any more.
FinalBackupOfStoppedSource ==
  \A w \in Workers :
    (/\ handler[w].stage = "copying" /\ HeldJobs(w) # {}
     /\ IsOnlyRun(claim[w].run) /\ NeedsStop(w)) => running[PlanOf(w)] = {}

\* A rollback or restoration that succeeded has started every workload that ran
\* before, provided that a Compose stop was recorded and no handler that had
\* lost its job acted on the source as well.
RollbackRestoresSource ==
  \A r \in Runs :
    (/\ IsOnlyRun(r) /\ r \notin overtaken
     /\ \E k \in RecoverySteps : steps[r][k] = "SUCCEEDED"
     /\ source[run[r].plan].compose => "COMPOSE_SOURCE_STOPPED" \in events[r])
       => Before(r) \subseteq running[run[r].plan]

(***************************************************************************)
(* What the stage of a handler says about the source: inductive together   *)
(* with the invariants of the queue.                                       *)
(***************************************************************************)
Forward(r) == run[r].status \in ForwardStatuses

StopRecorded(r) == "COMPOSE_SOURCE_STOPPED" \in events[r]

\* What a handler that changes the source is bringing it to.
Target(w) ==
  IF claim[w].step = "QUIESCE" THEN {}
  ELSE IF IsCompose(w) THEN Workloads ELSE Ran(claim[w].run)

\* A worker in which a handler runs, or has returned without an error.
Handles(w, r, keys) ==
  phase[w] \in {"handling", "succeeded"} /\ claim[w].run = r /\ claim[w].step \in keys

\* Handlers change only sources with data, and know what they bring them to.
HandlerIsConsistent(w) ==
  LET r == claim[w].run  h == handler[w]
  IN  /\ phase[w] # "idle" => /\ run[r].status # "NONE"
                              /\ claim[w].step \in RecoverySteps => ~Forward(r)
      /\ phase[w] # "handling" => h.stage = "done"
      /\ phase[w] = "handling" =>
           /\ h.stage = "copying" => claim[w].step = "FINAL_BACKUP"
           /\ h.stage = "listed" => claim[w].step = "QUIESCE" /\ ~IsCompose(w) /\ NeedsStop(w)
           /\ h.stage \in {"changing", "waiting", "changed"} =>
                claim[w].step \in {"QUIESCE"} \cup RecoverySteps /\ NeedsStop(w)
           /\ h.stage \in {"changing", "waiting"} => h.want = Target(w)
           /\ h.stage \in {"changing", "waiting"} /\ ~IsCompose(w) => HasSnapshot(w)
           /\ h.stage = "waiting" => ~IsCompose(w)
           /\ h.stage = "changed" => IsCompose(w)

\* What is stored about the source of a run.
RecordIsConsistent(r) ==
  /\ run[r].status = "NONE" => snapshot[r] = {} /\ events[r] = {}
  /\ snapshot[r] # {} => /\ snapshot[r] = Rows(Ran(r))
                         /\ source[run[r].plan].stateful /\ ~source[run[r].plan].compose
  /\ StopRecorded(r) => source[run[r].plan].stateful /\ source[run[r].plan].compose
  /\ "COMPOSE_SOURCE_RESTARTED" \in events[r] => ~Forward(r)

\* A source that no run has been scheduled for is as it was.
UntouchedSource(p) == (\A r \in Runs : run[r].plan # p) => Undisturbed(p)

\* What a worker is about to store about run r is what ran before it.
StoresOriginal(w, r) ==
  Handles(w, r, {"QUIESCE"}) /\ handler[w].stage = "listed" /\ snapshot[r] = {}
    => handler[w].want = Before(r)

OriginalIsKept(r) ==
  /\ snapshot[r] # {} => snapshot[r] = Rows(Before(r))
  /\ ~Undisturbed(run[r].plan) =>
       source[run[r].plan].stateful /\ (source[run[r].plan].compose \/ snapshot[r] # {})
  /\ \A w \in Workers : StoresOriginal(w, r)

Stopped(p) == up[p] = {} /\ running[p] = {}

\* How far a worker has come with stopping the source of run r.
HasStopped(w, r) ==
  LET p == run[r].plan
  IN  Handles(w, r, {"QUIESCE"}) =>
        /\ handler[w].stage = "changing" =>
             /\ up[p] \subseteq handler[w].todo
             /\ source[p].compose => running[p] \subseteq handler[w].todo
        /\ handler[w].stage = "waiting" => up[p] = {} /\ running[p] \subseteq handler[w].todo
        /\ handler[w].stage = "changed" => Stopped(p)
        /\ handler[w].stage = "done" /\ NeedsStop(w) => Stopped(p)

\* As long as the run goes forward nothing starts what QUIESCE has stopped.
StoppedStaysStopped(r) ==
  /\ StopRecorded(r) => Stopped(run[r].plan)
  /\ source[run[r].plan].stateful /\ steps[r]["QUIESCE"] = "SUCCEEDED" => Stopped(run[r].plan)
  /\ \A w \in Workers : HasStopped(w, r)

\* What a restart rests on: the snapshot, or the record of a Compose stop.
Restartable(r) == source[run[r].plan].compose => StopRecorded(r)

Restored(r) == Before(r) \subseteq up[run[r].plan] /\ Before(r) \subseteq running[run[r].plan]

\* How far the worker with the job has come with starting the source again.
HasStarted(w, r) ==
  LET p == run[r].plan
  IN  Handles(w, r, RecoverySteps) /\ HeldJobs(w) # {} =>
        /\ handler[w].stage = "changing" =>
             /\ Before(r) \ handler[w].todo \subseteq up[p]
             /\ source[p].compose => Before(r) \ handler[w].todo \subseteq running[p]
        /\ handler[w].stage = "waiting" =>
             Before(r) \subseteq up[p] /\ Before(r) \ handler[w].todo \subseteq running[p]
        /\ handler[w].stage = "changed" => Restored(r)
        /\ handler[w].stage = "done" /\ Restartable(r) => Restored(r)

\* As long as only the worker with the job acts, it starts what ran before.
StartedStaysStarted(r) ==
  /\ "COMPOSE_SOURCE_RESTARTED" \in events[r] => Restored(r)
  /\ Restartable(r) /\ (\E k \in RecoverySteps : steps[r][k] = "SUCCEEDED") => Restored(r)
  /\ \A w \in Workers : HasStarted(w, r)

SourceInvariant ==
  /\ \A w \in Workers : HandlerIsConsistent(w)
  /\ \A r \in Runs : RecordIsConsistent(r)
  /\ \A p \in Plans : UntouchedSource(p)
  /\ \A r \in Runs : IsOnlyRun(r) =>
       /\ OriginalIsKept(r)
       /\ Forward(r) => StoppedStaysStopped(r)
       /\ r \notin overtaken => StartedStaysStarted(r)

(***************************************************************************)
(* What the documentation says and the code does not do.                   *)
(***************************************************************************)
\* A run that is cancelled before the cutover leaves its source running.
CancelledSourceRuns ==
  \A r \in Runs : run[r].status = "CANCELLED" =>
    Before(r) \subseteq running[run[r].plan]
=============================================================================
