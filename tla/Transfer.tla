------------------------------ MODULE Transfer ------------------------------
(***************************************************************************)
(* The executors behind SourceDispatcher: a run's steps are handled by     *)
(* VeleroExecutor or by ComposeExecutor, as its source is a Kubernetes     *)
(* namespace or a Compose project.  Either is started, retried, overtaken, *)
(* cancelled and killed in the same way.                                   *)
(***************************************************************************)
EXTENDS VeleroTransfer, ComposeTransfer

\* The deployments and plans that are considered.
CONSTANT Settings

ASSUME SettingsAssumption ==
  \A x \in Settings :
    \/ \E fsb, shared, mover, checks \in BOOLEAN, profile \in SUBSET Classes :
         x = Whole(fsb, shared, mover, checks, profile)
    \/ \E kind \in {"mappings", "names"}, profiles \in [Runs -> SUBSET Classes] :
         x = Meeting(kind, profiles)
    \/ \E data, overwrite, mirror, checks \in BOOLEAN :
         x = Project(data, overwrite, mirror, checks)

allVars == <<handlerVars, veleroVars, composeVars>>

IsCompose == setting.kind = "compose"

TransferInit ==
  /\ setting \in Settings
  /\ HandlersInit(FirstStep(IF IsCompose THEN "whole" ELSE setting.kind))
  /\ VeleroInit(setting)
  /\ ComposeInit

\* Runner.processOne claims a job and calls SourceDispatcher.Handle.
FirstCallOf(step) == IF IsCompose THEN ComposeFirstCall(step) ELSE FirstCall(step)

ProcessOne(r) ==
  /\ ClaimJob(r, FirstCallOf(job[r].step))
  /\ UNCHANGED <<veleroVars, composeVars>>

Interruption(r) ==
  /\ WorkerDies(r) \/ Overtake(r) \/ CancelRun(r)
  /\ UNCHANGED <<veleroVars, composeVars>>

Next ==
  \/ \E r \in Runs : ProcessOne(r) \/ Interruption(r)
  \/ ~IsCompose /\ VeleroNext /\ UNCHANGED composeVars
  \/ IsCompose /\ ComposeNext /\ UNCHANGED veleroVars

Spec == TransferInit /\ [][Next]_allVars

(***************************************************************************)
(* Workers go on polling for jobs, a handler makes its next call, Velero   *)
(* and the job controller work on the objects of every name they find.     *)
(* Nothing else is fair: errors, interruptions, cleanups need not happen.  *)
(***************************************************************************)
Work(r) ==
  \/ ProcessOne(r)
  \/ ~IsCompose /\ (VeleroHandler(r, "current") \/ VeleroRollback(r)) /\ UNCHANGED composeVars
  \/ IsCompose /\ (ComposeHandler(r, "current") \/ ComposeRollback(r)) /\ UNCHANGED veleroVars

Controllers(r) ==
  \/ ~IsCompose /\ Velero(r) /\ UNCHANGED composeVars
  \/ IsCompose /\ (\E v \in Volumes : KopiaJobEnds(r, v)) /\ UNCHANGED veleroVars

FairSpec == Spec /\ \A r \in Runs : WF_allVars(Work(r)) /\ WF_allVars(Controllers(r))
-----------------------------------------------------------------------------
AllCalls == UNION ({VeleroCalls[step] : step \in DOMAIN VeleroCalls}
                     \cup {ComposeCalls[step] : step \in DOMAIN ComposeCalls})

\* The types of both executors and of the control they share.
TransferTypeOK == HandlersTypeOK(AllCalls) /\ VeleroTypeOK /\ ComposeTypeOK

\* Every run comes to an end, whatever fails, although handlers wait for a synced
\* backup, for a backup or a restore without a deadline: PREFLIGHT refuses the
\* repositories and data movers with which they would wait forever, and what has
\* failed is not polled on; unless staging pods of the run were removed while its
\* handler waited for them.
TransfersSettle == <>(\A r \in Runs : Ended(r) \/ job[r].step = "ABSENT" \/ r \in unwound)
=============================================================================
