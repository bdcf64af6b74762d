--------------------------- MODULE TransferProofs ---------------------------
(***************************************************************************)
(* What TransferInit and Next of Transfer keep true, for every value of the*)
(* constants.                                                              *)
(***************************************************************************)
EXTENDS Transfer, TLAPS

Working == {"PREFLIGHT", "PRESYNC", "QUIESCE", "FINAL_BACKUP", "TRANSFER", "TRANSFORM", "RESTORE", "VALIDATION"}

LEMMA StepsAre ==
  Steps = Working \cup {"COMPLETED", "ROLLBACK", "FAILED", "ABSENT"}
<1>1. DOMAIN Chain = 1..9  BY DEF Chain
<1>2. {Chain[i] : i \in 1..9} = Working \cup {"COMPLETED"}
  <2>1. ASSUME NEW i \in 1..9 PROVE Chain[i] \in Working \cup {"COMPLETED"}
    BY DEF Chain, Working
  <2>2. ASSUME NEW x \in Working \cup {"COMPLETED"} PROVE \E i \in 1..9 : Chain[i] = x
    BY DEF Chain, Working
  <2> QED BY <2>1, <2>2
<1> QED BY <1>1, <1>2 DEF Steps

LEMMA NextSteps ==
  /\ NextStep("PREFLIGHT") = "PRESYNC" /\ NextStep("PRESYNC") = "QUIESCE"
  /\ NextStep("QUIESCE") = "FINAL_BACKUP" /\ NextStep("FINAL_BACKUP") = "TRANSFER"
  /\ NextStep("TRANSFER") = "TRANSFORM" /\ NextStep("TRANSFORM") = "RESTORE"
  /\ NextStep("RESTORE") = "VALIDATION" /\ NextStep("VALIDATION") = "COMPLETED"
<1>0. DOMAIN Chain = 1..9  BY DEF Chain
<1>2. /\ Chain[1] = "PREFLIGHT" /\ Chain[2] = "PRESYNC" /\ Chain[3] = "QUIESCE" /\ Chain[4] = "FINAL_BACKUP"
      /\ Chain[5] = "TRANSFER" /\ Chain[6] = "TRANSFORM" /\ Chain[7] = "RESTORE" /\ Chain[8] = "VALIDATION"
      /\ Chain[9] = "COMPLETED"
  BY DEF Chain
<1>1. ASSUME NEW n \in 1..8 PROVE NextStep(Chain[n]) = Chain[n + 1]
  <2>1. ASSUME NEW i \in 1..9, Chain[i] = Chain[n] PROVE i = n
    <3> DEFINE Place(x) == IF x = "PREFLIGHT" THEN 1 ELSE IF x = "PRESYNC" THEN 2 ELSE IF x = "QUIESCE" THEN 3
                           ELSE IF x = "FINAL_BACKUP" THEN 4 ELSE IF x = "TRANSFER" THEN 5
                           ELSE IF x = "TRANSFORM" THEN 6 ELSE IF x = "RESTORE" THEN 7
                           ELSE IF x = "VALIDATION" THEN 8 ELSE 9
    <3>1. \A k \in 1..9 : k = 1 \/ k = 2 \/ k = 3 \/ k = 4 \/ k = 5 \/ k = 6 \/ k = 7 \/ k = 8 \/ k = 9
      OBVIOUS
    <3>2. ASSUME NEW k \in 1..9 PROVE Place(Chain[k]) = k
      <4>1. \/ k = 1 \/ k = 2 \/ k = 3 \/ k = 4 \/ k = 5 \/ k = 6 \/ k = 7 \/ k = 8 \/ k = 9
        BY <3>1, <3>2
      <4>2. ASSUME NEW x \in {1, 2, 3, 4, 5, 6, 7, 8, 9}, k = x PROVE Place(Chain[k]) = k
        BY <4>2, <1>2
      <4> QED BY <4>1, <4>2
    <3> HIDE DEF Place
    <3> QED BY <3>2, <2>1, <1>1
  <2>2. n \in DOMAIN Chain  BY <1>0, <1>1
  <2>3. n = CHOOSE i \in DOMAIN Chain : Chain[i] = Chain[n]
    BY <2>1, <2>2, <1>0
  <2>4. NextStep(Chain[n]) = Chain[1 + n]  BY <2>3, Zenon DEF NextStep
  <2>5. 1 + n = n + 1  BY <1>1
  <2> QED BY <2>4, <2>5
<1>3. /\ NextStep(Chain[1]) = Chain[2] /\ NextStep(Chain[2]) = Chain[3] /\ NextStep(Chain[3]) = Chain[4]
      /\ NextStep(Chain[4]) = Chain[5] /\ NextStep(Chain[5]) = Chain[6] /\ NextStep(Chain[6]) = Chain[7]
      /\ NextStep(Chain[7]) = Chain[8] /\ NextStep(Chain[8]) = Chain[9]
  BY <1>1
<1> QED BY <1>2, <1>3

-----------------------------------------------------------------------------
(***************************************************************************)
(* Settings.                                                               *)
(***************************************************************************)
LEMMA SettingsAre ==
  ASSUME setting \in Settings
  PROVE  /\ setting.kind \in {"whole", "mappings", "names", "compose"}
         /\ setting.profiles \in [Runs -> SUBSET Classes]
         /\ setting.kind = "compose" => setting.data \in BOOLEAN
         /\ setting.kind = "compose" => \A r \in Runs : setting.profiles[r] = {}
         /\ setting.kind # "compose" => setting.fsb \in BOOLEAN /\ setting.shared \in BOOLEAN /\ setting.mover \in BOOLEAN
         /\ setting.kind \in {"mappings", "names"} => ~setting.fsb
<1>1. CASE \E fsb, shared, mover, checks \in BOOLEAN, profile \in SUBSET Classes :
             setting = Whole(fsb, shared, mover, checks, profile)
  BY <1>1 DEF Whole
<1>2. CASE \E kind \in {"mappings", "names"}, profiles \in [Runs -> SUBSET Classes] :
             setting = Meeting(kind, profiles)
  BY <1>2 DEF Meeting
<1>3. CASE \E data, overwrite, mirror, checks \in BOOLEAN :
             setting = Project(data, overwrite, mirror, checks)
  BY <1>3 DEF Project
<1> QED BY <1>1, <1>2, <1>3, SettingsAssumption

LEMMA NamesAreRuns ==
  ASSUME NEW r \in Runs
  PROVE  First \in Runs /\ BackupName(r) \in Runs
BY DEF First, BackupName

LEMMA EmptyObjects ==
  ASSUME NEW r \in Runs
  PROVE  /\ NoBackup \in BackupStates(Phases) /\ NoBackup \in BackupStates({"absent", "Completed", "PartiallyFailed"})
         /\ NoRestore \in RestoreStates
<1>1. First \in Runs  BY NamesAreRuns
<1>2. NoBackup \in BackupStates(Phases) /\ NoBackup \in BackupStates({"absent", "Completed", "PartiallyFailed"})
  BY <1>1 DEF NoBackup, Backup, BackupStates, Phases
<1> QED BY <1>1, <1>2 DEF NoRestore, Restore, RestoreStates, Phases

-----------------------------------------------------------------------------
(***************************************************************************)
(* The control that the executors share.                                   *)
(***************************************************************************)
States == HandlerStates(AllCalls)

IsCalls(calls) ==
  /\ DOMAIN calls = Working \cup {"ABSENT"}
  /\ calls["ABSENT"] = {"none"}
  /\ \A step \in Working : "none" \notin calls[step] /\ calls[step] \subseteq AllCalls

Control(calls) == HandlersTypeOK(AllCalls) /\ HandlersFollow(calls)

\* Only the handler in one slot changes.
Sets(r, s, h) ==
  /\ handler'[r][s] = h
  /\ \A q \in Runs, t \in Slots : (q # r \/ t # s) => handler'[q][t] = handler[q][t]

OthersKeepJobs(r) == \A q \in Runs : q # r => job'[q] = job[q]

LEMMA CallsAre ==
  IsCalls(VeleroCalls) /\ IsCalls(ComposeCalls)
<1>1. ASSUME NEW step \in DOMAIN VeleroCalls PROVE VeleroCalls[step] \subseteq AllCalls
  BY DEF AllCalls
<1>2. ASSUME NEW step \in DOMAIN ComposeCalls PROVE ComposeCalls[step] \subseteq AllCalls
  BY DEF AllCalls
<1>3. DOMAIN VeleroCalls = Working \cup {"ABSENT"} /\ VeleroCalls["ABSENT"] = {"none"}
  BY DEF VeleroCalls, Working
<1>4. DOMAIN ComposeCalls = Working \cup {"ABSENT"} /\ ComposeCalls["ABSENT"] = {"none"}
  BY DEF ComposeCalls, Working
<1>5. ASSUME NEW step \in Working PROVE "none" \notin VeleroCalls[step]
  BY DEF VeleroCalls, Working, BackupCalls, CallsAfterRestore
<1>6. ASSUME NEW step \in Working PROVE "none" \notin ComposeCalls[step]
  BY DEF ComposeCalls, CopyCalls, Working
<1> QED BY <1>1, <1>2, <1>3, <1>4, <1>5, <1>6 DEF IsCalls

LEMMA NoneIsACall == "none" \in AllCalls
<1>1. "ABSENT" \in DOMAIN VeleroCalls /\ VeleroCalls["ABSENT"] = {"none"}  BY CallsAre DEF IsCalls
<1> QED BY <1>1 DEF AllCalls

LEMMA WorksAtAStep ==
  ASSUME NEW calls, IsCalls(calls), Control(calls), NEW r \in Runs, NEW s \in Slots, Works(r, s)
  PROVE  /\ handler[r][s].step \in Working
         /\ s = "current" => job[r].step = handler[r][s].step
         /\ handler[r][s].pc \in calls[handler[r][s].step]
<1>1. handler[r][s].step \in DOMAIN calls /\ handler[r][s].pc \in calls[handler[r][s].step]
  BY DEF Control, HandlersFollow
<1>2. handler[r][s].step # "ABSENT"
  BY <1>1 DEF IsCalls, Works, IsAt
<1>3. handler[r][s].step \in Working
  BY <1>1, <1>2 DEF IsCalls
<1>4. s = "current" => job[r].step = handler[r][s].step
  BY <1>2 DEF Control, HandlersFollow
<1> QED BY <1>1, <1>3, <1>4

LEMMA IdleIsTyped ==
  Idle \in States /\ Idle.step = "ABSENT" /\ Idle.pc = "none" /\ ~Idle.fresh
BY StepsAre, NoneIsACall DEF Idle, At, States, HandlerStates

LEMMA AtIsTyped ==
  ASSUME NEW step \in Working, NEW pc \in AllCalls
  PROVE  /\ At(step, pc) \in States /\ At(step, pc).step = step /\ At(step, pc).pc = pc
         /\ ~At(step, pc).fresh /\ At(step, pc).todo = {}
BY StepsAre DEF At, States, HandlerStates

LEMMA SetsIsTyped ==
  ASSUME HandlersTypeOK(AllCalls), NEW r \in Runs, NEW s \in Slots, NEW h \in States,
         handler' = [handler EXCEPT ![r][s] = h]
  PROVE  handler' \in [Runs -> [Slots -> States]] /\ Sets(r, s, h)
BY DEF HandlersTypeOK, States, Sets

LEMMA NextStepIsTyped ==
  ASSUME NEW step \in Working
  PROVE  NextStep(step) \in Steps
BY NextSteps, StepsAre DEF Working

Goes(r, s, h) ==
  /\ handler' = [handler EXCEPT ![r][s] = h]
  /\ UNCHANGED <<setting, job>> /\ failures' \in 0..MaxFaults

LEMMA GoOnGoes ==
  ASSUME HandlersTypeOK(AllCalls), NEW r, NEW s, NEW h, GoOn(r, s, h)
  PROVE  Goes(r, s, h)
BY DEF GoOn, Goes, HandlersTypeOK

LEMMA FaultIsBounded ==
  ASSUME HandlersTypeOK(AllCalls), NEW s, FaultOf(s) \/ Fault \/ failures' = failures
  PROVE  failures' \in 0..MaxFaults
BY HandlersAssumption DEF FaultOf, Fault, HandlersTypeOK

\* The handler of a run makes its next call.
LEMMA GoOnKeepsControl ==
  ASSUME NEW CONSTANT calls, IsCalls(calls), Control(calls), NEW r \in Runs, NEW s \in Slots,
         NEW h \in States, Works(r, s), h.step = handler[r][s].step, h.pc \in calls[h.step],
         Goes(r, s, h)
  PROVE  Control(calls)' /\ Sets(r, s, h) /\ job' = job /\ setting' = setting
<1>1. handler' \in [Runs -> [Slots -> States]] /\ Sets(r, s, h)
  BY SetsIsTyped DEF Goes, Control
<1>2. job' = job /\ setting' = setting  BY DEF Goes
<1>3. HandlersTypeOK(AllCalls)'  BY <1>1, <1>2 DEF Control, HandlersTypeOK, Goes, States
<1>4. HandlersFollow(calls)'
  BY <1>1, <1>2, WorksAtAStep DEF HandlersFollow, Control, IsCalls, Sets, Slots
<1> QED BY <1>1, <1>2, <1>3, <1>4 DEF Control

\* A handler returns, and leaves the job at the step or moves it on.
LEMMA ReturnKeepsControl ==
  ASSUME NEW CONSTANT calls, IsCalls(calls), Control(calls), NEW r \in Runs, NEW s \in Slots,
         handler' = [handler EXCEPT ![r][s] = Idle],
         job' \in [Runs -> [step : Steps, attempt : 0..MaxAttempts]], failures' \in 0..MaxFaults,
         OthersKeepJobs(r), s = "ghost" => job'[r] = job[r]
  PROVE  Control(calls)' /\ Sets(r, s, Idle)
<1>1. handler' \in [Runs -> [Slots -> States]] /\ Sets(r, s, Idle)
  BY SetsIsTyped, IdleIsTyped DEF Control
<1>2. HandlersTypeOK(AllCalls)'  BY <1>1 DEF Control, HandlersTypeOK, States
<1>3. HandlersFollow(calls)'
  BY <1>1, IdleIsTyped DEF HandlersFollow, Control, IsCalls, Sets, Slots, OthersKeepJobs
<1> QED BY <1>1, <1>2, <1>3 DEF Control

\* What a job's step becomes when its handler succeeds, or fails.
MovesOn(r, s) == IF s = "ghost" THEN job' = job ELSE job'[r].step = NextStep(job[r].step)
FallsBack(r, s) ==
  \/ job'[r].step = job[r].step
  \/ s = "current" /\ job'[r].step = "ROLLBACK" /\ RequiresRollback(job[r].step)
  \/ s = "current" /\ job'[r].step = "FAILED" /\ ~RequiresRollback(job[r].step)

LEMMA SucceedKeepsControl ==
  ASSUME NEW CONSTANT calls, IsCalls(calls), Control(calls), NEW r \in Runs, NEW s \in Slots,
         Works(r, s), Succeed(r, s)
  PROVE  /\ Control(calls)' /\ Sets(r, s, Idle) /\ setting' = setting
         /\ OthersKeepJobs(r) /\ MovesOn(r, s)
<1>1. s = "current" => job[r].step \in Working  BY WorksAtAStep
<1>2. job' \in [Runs -> [step : Steps, attempt : 0..MaxAttempts]] /\ OthersKeepJobs(r) /\ MovesOn(r, s)
  <2>1. CASE s = "ghost"
    BY <2>1 DEF Succeed, OthersKeepJobs, MovesOn, Control, HandlersTypeOK, States
  <2>2. CASE s = "current"
    <3>1. NextStep(job[r].step) \in Steps  BY <1>1, <2>2, NextStepIsTyped
    <3> QED BY <2>2, <3>1, HandlersAssumption DEF Succeed, OthersKeepJobs, MovesOn, Control, HandlersTypeOK, States
  <2> QED BY <2>1, <2>2 DEF Slots
<1>3. Control(calls)' /\ Sets(r, s, Idle)
  <2>1. s = "ghost" => job'[r] = job[r]  BY DEF Succeed
  <2>2. failures' \in 0..MaxFaults  BY DEF Succeed, Control, HandlersTypeOK, States
  <2> QED BY <1>2, <2>1, <2>2, ReturnKeepsControl DEF Succeed
<1> QED BY <1>2, <1>3 DEF Succeed

LEMMA ErrorKeepsControl ==
  ASSUME NEW CONSTANT calls, IsCalls(calls), Control(calls), NEW r \in Runs, NEW s \in Slots,
         ReturnError(r, s), failures' \in 0..MaxFaults
  PROVE  /\ Control(calls)' /\ Sets(r, s, Idle) /\ setting' = setting
         /\ OthersKeepJobs(r) /\ FallsBack(r, s)
<1>1. job' \in [Runs -> [step : Steps, attempt : 0..MaxAttempts]] /\ OthersKeepJobs(r) /\ FallsBack(r, s)
  <2>1. CASE s = "ghost"
    BY <2>1 DEF ReturnError, OthersKeepJobs, FallsBack, Control, HandlersTypeOK, States
  <2>2. CASE s = "current"
    BY <2>2, StepsAre, HandlersAssumption
       DEF ReturnError, AfterError, OthersKeepJobs, FallsBack, Control, HandlersTypeOK, States
  <2> QED BY <2>1, <2>2 DEF Slots
<1>2. Control(calls)' /\ Sets(r, s, Idle)
  <2>1. s = "ghost" => job'[r] = job[r]  BY DEF ReturnError
  <2> QED BY <1>1, <2>1, ReturnKeepsControl DEF ReturnError
<1> QED BY <1>1, <1>2 DEF ReturnError

-----------------------------------------------------------------------------
(***************************************************************************)
(* Types.                                                                  *)
(***************************************************************************)
LEMMA InitIsTyped ==
  ASSUME TransferInit
  PROVE  TransferTypeOK /\ setting \in Settings /\ Control(IF IsCompose THEN ComposeCalls ELSE VeleroCalls)
<1>1. setting \in Settings  BY DEF TransferInit
<1>2. setting.kind \in {"whole", "mappings", "names", "compose"}  BY <1>1, SettingsAre
<1>3. \A r \in Runs : job[r].step \in Steps /\ job[r].attempt = 0
  BY <1>2, StepsAre DEF TransferInit, HandlersInit, FirstStep, IsCompose, Working
<1>4. HandlersTypeOK(AllCalls)
  <2>1. job \in [Runs -> [step : Steps, attempt : 0..MaxAttempts]]
    <3>1. job = [r \in Runs |-> [step |-> job[r].step, attempt |-> 0]]
      BY DEF TransferInit, HandlersInit
    <3>2. 0 \in 0..MaxAttempts  BY HandlersAssumption
    <3> HIDE DEF TransferInit
    <3> QED BY <3>1, <3>2, <1>3
  <2>2. handler \in [Runs -> [Slots -> States]]
    BY IdleIsTyped DEF TransferInit, HandlersInit
  <2>3. failures \in 0..MaxFaults
    BY HandlersAssumption DEF TransferInit, HandlersInit
  <2> QED BY <2>1, <2>2, <2>3 DEF HandlersTypeOK, States
<1>5. VeleroTypeOK
  <2>1. VeleroInit(setting)  BY DEF TransferInit
  <2>2. \A r \in Runs : Backup("Completed", r, Volumes, TRUE) \in BackupStates(Phases)
                    /\ Backup("Completed", r, Volumes, TRUE) \in BackupStates({"absent", "Completed", "PartiallyFailed"})
    BY DEF Backup, BackupStates, Phases
  <2>3. backups \in [Runs -> [BackupStages -> BackupStates(Phases)]]
    BY <2>1, <2>2, EmptyObjects DEF VeleroInit, BackupStages
  <2>4. synced \in [Runs -> BackupStates({"absent", "Completed", "PartiallyFailed"})]
    BY <2>1, <2>2, EmptyObjects DEF VeleroInit
  <2>5. restores \in [Runs -> RestoreStates]
    BY <2>1, EmptyObjects DEF VeleroInit
  <2>6. target \in [Runs -> TargetStates]
    BY <2>1, EmptyObjects DEF VeleroInit, TargetStates
  <2>7. /\ up \in [Runs -> BOOLEAN] /\ staging \in [Runs -> SUBSET Volumes] /\ unwound \subseteq Runs
        /\ config \in [owners : SUBSET (Runs \X Classes), data : SUBSET Classes]
    BY <2>1 DEF VeleroInit, NoConfig
  <2> QED BY <2>3, <2>4, <2>5, <2>6, <2>7 DEF VeleroTypeOK
<1>6. ComposeTypeOK
  BY DEF TransferInit, ComposeInit, ComposeTypeOK, SnapshotPhases, Copies
<1>7. HandlersFollow(IF IsCompose THEN ComposeCalls ELSE VeleroCalls)
  <2> DEFINE calls == IF IsCompose THEN ComposeCalls ELSE VeleroCalls
  <2>1. \A r \in Runs, s \in Slots : handler[r][s] = Idle
    BY DEF TransferInit, HandlersInit
  <2>2. IsCalls(calls)  BY CallsAre
  <2> HIDE DEF calls
  <2>3. HandlersFollow(calls)
    BY <2>1, <2>2, IdleIsTyped DEF HandlersFollow, IsCalls, Slots
  <2> QED BY <2>3 DEF calls
<1> QED BY <1>1, <1>4, <1>5, <1>6, <1>7 DEF TransferTypeOK, Control

-----------------------------------------------------------------------------
(***************************************************************************)
(* Steps of a Kubernetes transfer that change no object of Velero: a       *)
(* handler comes to its next call, returns, is started, overtaken, or dies.*)
(***************************************************************************)
VeleroControl == Control(VeleroCalls) /\ setting \in Settings /\ ~IsCompose
VeleroState == VeleroTypeOK /\ VeleroControl

\* The jobs of runs do not go back over the boundaries that the invariant names.
Advances(r) ==
  /\ Reached(r) => Reached(r)'
  /\ Over(r) => Over(r)'
  /\ Ended(r) => Ended(r)'

\* The staging pods that somebody needs are there as before.
StagingStays(r) ==
  \/ staging[r] \subseteq staging'[r]
  \/ r \in unwound'
  \/ Over(r)'
  \/ /\ ~(Final(r).phase = "New" /\ Final(r).owner = r)
     /\ Final(r).phase \in {"absent", "New"} => \A s \in Slots :
          ~(handler'[r][s].step = "FINAL_BACKUP" /\ handler'[r][s].pc \in {"stage", "await_pod", "create_backup"})

TargetStays(r) ==
  /\ target'[r].of = target[r].of /\ target'[r].mapped = target[r].mapped
  /\ target'[r].scaled => target[r].scaled \/ Valid(target[r].of, r)

Steady ==
  /\ UNCHANGED <<setting, synced, restores>>
  /\ \A name \in Runs : backups'[name].final = backups[name].final
  /\ unwound \subseteq unwound'
  /\ \A r \in Runs : StagingStays(r) /\ TargetStays(r)

LEMMA StagedPersists ==
  ASSUME NEW r \in Runs, Advances(r), setting' = setting, unwound \subseteq unwound', NEW todo,
         staging[r] \subseteq staging'[r] \/ r \in unwound', Staged(r, todo)
  PROVE  Staged(r, todo)'
BY DEF Advances, Staged

LEMMA ValidPersists ==
  ASSUME unwound \subseteq unwound', NEW r, NEW backup, Valid(backup, r)
  PROVE  /\ backup.phase = "Completed" /\ backup.owner = r /\ backup.stopped
         /\ backup.volumes = Volumes \/ r \in unwound'
BY DEF Valid, HasAll

LEMMA GonePersists ==
  ASSUME NEW r \in Runs, Advances(r), Final(r)' = Final(r), setting' = setting, Gone(r),
         handler'[r].ghost.step = "FINAL_BACKUP" => handler[r].ghost.step = "FINAL_BACKUP"
  PROVE  Gone(r)'
BY DEF Advances, Gone

LEMMA RestorablePersists ==
  ASSUME NEW r \in Runs, Advances(r), Final(r)' = Final(r), Synced(r)' = Synced(r), setting' = setting,
         unwound \subseteq unwound', Restorable(r),
         handler'[r].ghost.step = "FINAL_BACKUP" /\ Ended(r) => handler[r].ghost.step = "FINAL_BACKUP"
  PROVE  Restorable(r)'
<1>1. CASE Valid(Synced(r), r)  BY <1>1 DEF Restorable, Valid, HasAll
<1>2. CASE Gone(r)  BY <1>2, GonePersists DEF Restorable, Gone
<1>3. CASE Dropped(r)  BY <1>3 DEF Restorable, Dropped, Advances, Valid, HasAll
<1> QED BY <1>1, <1>2, <1>3 DEF Restorable

\* No handler of a run that has ended goes back to the final backup.
GhostsStay == \A q \in Runs :
  handler'[q].ghost.step = "FINAL_BACKUP" /\ Ended(q) => handler[q].ghost.step = "FINAL_BACKUP"

LEMMA RestorableOwner ==
  ASSUME NEW n \in Runs, NEW q \in Runs, q = restores'[n].owner, Restorable(q)'
  PROVE  Restorable(restores[n].owner)'
BY DEF Restorable, Gone, Dropped, Synced, Final, Valid, HasAll, Ended, BackupName

\* A handler that is sound stays so.
LEMMA HandlerStaysSound ==
  ASSUME Steady, GhostsStay, NEW r \in Runs, Advances(r), NEW s \in Slots,
         BackupHandlerIsSound(r, s, handler'[r][s]), RestoreHandlerIsSound(r, handler'[r][s])
  PROVE  BackupHandlerIsSound(r, s, handler[r][s])' /\ RestoreHandlerIsSound(r, handler[r][s])'
<1> DEFINE h == handler'[r][s]
<1>0. /\ UNCHANGED <<setting, synced, restores>> /\ unwound \subseteq unwound'
      /\ StagingStays(r) /\ TargetStays(r)
      /\ Final(r)' = Final(r) /\ Synced(r)' = Synced(r) /\ RestoreOf(r)' = RestoreOf(r)
  BY NamesAreRuns DEF Steady, Final, Synced, RestoreOf, BackupName
<1>1. BackupHandlerIsSound(r, s, handler[r][s])'
  <2>1. BackupHandlerIsSound(r, s, h)  OBVIOUS
  <2>2. Reached(r) => Reached(r)'  BY DEF Advances
  <2>3. ASSUME h.step = "FINAL_BACKUP", Final(r).phase \in {"absent", "New"}
        PROVE  /\ h.pc \in {"stage", "await_pod"} => Staged(r, handler[r][s].todo)'
               /\ h.pc = "create_backup" => Staged(r, {})'
    <3>1. CASE staging[r] \subseteq staging'[r] \/ r \in unwound'
      <4>1. Staged(r, h.todo) => Staged(r, handler[r][s].todo)'  BY <1>0, <3>1 DEF Advances, Staged
      <4>2. Staged(r, {}) => Staged(r, {})'  BY <1>0, <3>1, StagedPersists
      <4> QED BY <2>1, <2>3, <4>1, <4>2 DEF BackupHandlerIsSound
    <3>2. CASE Over(r)'  BY <3>2 DEF Staged, Over
    <3>3. CASE ~(staging[r] \subseteq staging'[r] \/ r \in unwound' \/ Over(r)')
      BY <1>0, <2>3, <3>3 DEF StagingStays
    <3> QED BY <3>1, <3>2, <3>3
  <2> QED BY <1>0, <2>1, <2>2, <2>3 DEF BackupHandlerIsSound
<1>2. RestoreHandlerIsSound(r, handler[r][s])'
  <2>1. RestoreHandlerIsSound(r, h)  OBVIOUS
  <2>2. Restorable(r) => Restorable(r)'  BY <1>0, RestorablePersists DEF GhostsStay
  <2>3. Restored(r) => Restored(r)'  BY <1>0 DEF Restored
  <2>4. CanClean(r) => CanClean(r)'  BY <1>0 DEF Advances, CanClean
  <2>5. Valid(target[r].of, r) => Valid(target[r].of, r)'  BY <1>0 DEF Valid, HasAll, TargetStays
  <2> QED BY <1>0, <2>1, <2>2, <2>3, <2>4, <2>5 DEF RestoreHandlerIsSound
<1> QED BY <1>1, <1>2

\* What the objects of the clusters are known to be does not depend on handlers.
LEMMA ObjectsStaySound ==
  ASSUME VeleroInvariant, VeleroTypeOK, Steady, GhostsStay, \A q \in Runs : Advances(q)
  PROVE  /\ \A q \in Runs : TargetIsSound(q)'
         /\ \A name \in Runs : BackupIsSound(name)' /\ SyncIsSound(name)' /\ RestoreIsSound(name)'
         /\ \A q \in Runs : Gone(q) => Gone(q)'
<1>0. /\ UNCHANGED <<setting, synced, restores>> /\ unwound \subseteq unwound'
      /\ \A q \in Runs : Final(q)' = Final(q) /\ BackupName(q)' = BackupName(q) /\ Synced(q)' = Synced(q)
      /\ \A q \in Runs : StagingStays(q) /\ TargetStays(q)
      /\ \A name \in Runs : backups'[name].final = backups[name].final
  BY NamesAreRuns DEF Steady, Final, Synced, BackupName
<1>1. ASSUME NEW q \in Runs PROVE TargetIsSound(q)'
  <2>1. Valid(target[q].of, q) => Valid(target[q].of, q)'  BY <1>0 DEF Valid, HasAll, TargetStays
  <2>2. Ended(q) => Ended(q)'  BY DEF Advances
  <2> QED BY <1>0, <2>1, <2>2 DEF VeleroInvariant, TargetIsSound, TargetStays, Profile, NoBackup, Backup
<1>2. ASSUME NEW q \in Runs, Gone(q) PROVE Gone(q)'
  BY <1>0, <1>2, GonePersists DEF Gone, GhostsStay
<1>3. ASSUME NEW name \in Runs PROVE BackupIsSound(name)'
  <2>1. BackupIsSound(name)  BY DEF VeleroInvariant
  <2>2. PICK owner \in Runs : owner = backups[name].final.owner
    BY DEF VeleroTypeOK, BackupStates, BackupStages
  <2>3. (Reached(owner) => Reached(backups[name].final.owner)') /\ (Over(owner) => Over(backups[name].final.owner)')
    BY <1>0, <2>2 DEF Advances, Reached, Over
  <2>4. ASSUME backups[name].final.phase = "New" PROVE Staged(backups[name].final.owner, {})'
    <3>1. Staged(owner, {}) /\ BackupName(owner) = name  BY <2>1, <2>2, <2>4 DEF BackupIsSound
    <3>2. staging[owner] \subseteq staging'[owner] \/ owner \in unwound' \/ Over(owner)'
      BY <1>0, <2>2, <2>4, <3>1 DEF StagingStays, Final
    <3>3. backups'[name].final.owner = owner  BY <1>0, <2>2
    <3>4. Staged(owner, {})'
      <4>1. CASE Over(owner)'  BY <4>1 DEF Staged, Over
      <4>2. CASE ~Over(owner)'  BY <1>0, <2>2, <3>1, <3>2, <4>2, StagedPersists
      <4> QED BY <4>1, <4>2
    <3> QED BY <3>3, <3>4 DEF Staged, Over
  <2> QED BY <1>0, <2>1, <2>2, <2>3, <2>4 DEF BackupIsSound, HasAll, BackupName
<1>4. ASSUME NEW name \in Runs PROVE SyncIsSound(name)'
  <2>1. SyncIsSound(name)  BY DEF VeleroInvariant
  <2>2. synced[name].owner \in Runs  BY DEF VeleroTypeOK, BackupStates
  <2>3. Ended(synced[name].owner) => Ended(synced[name].owner)'
    BY <1>0, <2>2 DEF Advances, Ended
  <2> QED BY <1>0, <2>1, <2>3 DEF SyncIsSound, BackupName
<1>5. ASSUME NEW name \in Runs PROVE RestoreIsSound(name)'
  <2>1. RestoreIsSound(name)  BY DEF VeleroInvariant
  <2>2. restores[name].owner \in Runs  BY DEF VeleroTypeOK, RestoreStates
  <2>3. \A q \in Runs : (Restorable(q) => Restorable(q)') /\ (Ended(q) => Ended(q)')
    BY <1>0, RestorablePersists DEF GhostsStay, Advances
  <2>4. restores[name].owner = restores'[name].owner  BY <1>0
  <2>5. /\ Restorable(restores[name].owner) => Restorable(restores[name].owner)'
        /\ Ended(restores[name].owner) => Ended(restores[name].owner)'
    <3>1. PICK q \in Runs : q = restores[name].owner  BY <2>2
    <3>2. q = restores'[name].owner  BY <2>4, <3>1
    <3>3. Restorable(q)' => Restorable(restores[name].owner)'  BY <3>2, RestorableOwner
    <3> QED BY <2>3, <3>1, <3>2, <3>3 DEF Ended
  <2> QED BY <1>0, <2>1, <2>2, <2>5 DEF RestoreIsSound, BackupName, Valid, HasAll, Profile, TargetStays
<1> QED BY <1>1, <1>2, <1>3, <1>4, <1>5

\* A step of handlers alone keeps the invariant if what they rely on, and what the
\* jobs' new steps ask for, is there.
LEMMA SteadyStep ==
  ASSUME VeleroInvariant, VeleroTypeOK, Steady, GhostsStay, \A q \in Runs : Advances(q),
         \A q \in Runs, t \in Slots :
           /\ BackupHandlerIsSound(q, t, handler'[q][t]) /\ RestoreHandlerIsSound(q, handler'[q][t])
           /\ handler'[q][t].fresh => handler'[q][t].copy = config'.owners,
         \A q \in Runs : job'[q].step \in StepsAfterBackup \cup {"FINAL_BACKUP", "COMPLETED"} => ~up'[q],
         \A q \in Runs : IsAfterBackup(q)' =>
           \/ IsAfterBackup(q)
           \/ Valid(Final(q), q) /\ (Synced(q).phase # "absent" => Valid(Synced(q), q)),
         ConfigIsSound'
  PROVE  VeleroInvariant'
<1>0. /\ UNCHANGED <<setting, synced, restores>> /\ unwound \subseteq unwound'
      /\ \A q \in Runs : Final(q)' = Final(q) /\ Synced(q)' = Synced(q) /\ RestoreOf(q)' = RestoreOf(q)
  BY NamesAreRuns DEF Steady, Final, Synced, RestoreOf, BackupName
<1>1. /\ \A q \in Runs : TargetIsSound(q)'
      /\ \A name \in Runs : BackupIsSound(name)' /\ SyncIsSound(name)' /\ RestoreIsSound(name)'
      /\ \A q \in Runs : Gone(q) => Gone(q)'
  BY ObjectsStaySound
<1>2. ASSUME NEW q \in Runs, NEW t \in Slots PROVE HandlerIsSound(q, t, handler[q][t])'
  <2>1. BackupHandlerIsSound(q, t, handler[q][t])' /\ RestoreHandlerIsSound(q, handler[q][t])'
    BY <1>2, HandlerStaysSound
  <2> QED BY <2>1 DEF HandlerIsSound
<1>3. ASSUME NEW q \in Runs PROVE TransferIsSound(q)'
  <2>1. TransferIsSound(q)  BY DEF VeleroInvariant
  <2>2. job'[q].step \in StepsAfterBackup \cup {"FINAL_BACKUP", "COMPLETED"} => ~up'[q]  OBVIOUS
  <2>3. IsAfterBackup(q)' => /\ Valid(Final(q), q) \/ Gone(q)
                             /\ Synced(q).phase # "absent" => Valid(Synced(q), q)
    BY <2>1 DEF TransferIsSound
  <2>4. /\ Valid(Final(q), q) => Valid(Final(q), q)'
        /\ Valid(Synced(q), q) => Valid(Synced(q), q)'
        /\ Gone(q) => Gone(q)'
    BY <1>0, <1>1 DEF Valid, HasAll
  <2> QED BY <1>0, <2>2, <2>3, <2>4 DEF TransferIsSound
<1> QED BY <1>1, <1>2, <1>3 DEF VeleroInvariant

\* The ConfigMap as it was is right for runs that begin to restore with their
\* mappings in it.
LEMMA ConfigStays ==
  ASSUME VeleroInvariant, Steady, GhostsStay, \A q \in Runs : Advances(q), config' = config,
         \A q \in Runs : Restores(q)' => Restores(q) \/ Annotated(q)
  PROVE  ConfigIsSound'
<1>0. /\ UNCHANGED <<setting, synced, restores, config>>
      /\ \A q \in Runs : Final(q)' = Final(q) /\ Synced(q)' = Synced(q) /\ RestoreOf(q)' = RestoreOf(q)
  BY NamesAreRuns DEF Steady, Final, Synced, RestoreOf, BackupName
<1>1. ConfigIsSound  BY DEF VeleroInvariant
<1>2. config'.data = Merged(config'.owners) /\ IsProfile(config'.data)  BY <1>0, <1>1 DEF ConfigIsSound
<1>3. ASSUME NEW q \in Runs, Restores(q)' PROVE (Annotated(q) \/ Restored(q) \/ CanClean(q))'
  <2>1. Annotated(q) \/ Restored(q) \/ CanClean(q)  BY <1>1, <1>3 DEF ConfigIsSound
  <2>2. Annotated(q) => Annotated(q)'  BY <1>0 DEF Annotated, Profile
  <2>3. Restored(q) => Restored(q)'  BY <1>0 DEF Restored
  <2>4. CanClean(q) => CanClean(q)'  BY <1>0 DEF Advances, CanClean
  <2> QED BY <2>1, <2>2, <2>3, <2>4
<1> QED BY <1>2, <1>3 DEF ConfigIsSound, Merged, IsProfile

LEMMA IdleIsSound ==
  ASSUME NEW r \in Runs, NEW s \in Slots
  PROVE  HandlerIsSound(r, s, Idle)
BY IdleIsTyped DEF HandlerIsSound, BackupHandlerIsSound, RestoreHandlerIsSound, CallsAfterRestore

LEMMA StepSetsAre ==
  /\ StepsBeforeBackup \cup StepsAfterBackup \cup {"FINAL_BACKUP"} = Working \cup {"ABSENT"}
  /\ StepsBeforeBackup \cap (StepsAfterBackup \cup {"FINAL_BACKUP"}) = {}
  /\ "FINAL_BACKUP" \notin StepsAfterBackup
BY DEF StepsBeforeBackup, StepsAfterBackup, Working

\* What can change with a handler that is about another thing than Velero's objects.
Beside == Steady /\ config' = config

\* The handler makes its next call.
LEMMA GoesStep ==
  ASSUME VeleroState, VeleroInvariant, NEW r \in Runs, NEW s \in Slots, NEW h \in States,
         Works(r, s), h.step = handler[r][s].step, h.pc \in VeleroCalls[h.step],
         Goes(r, s, h), HandlerIsSound(r, s, h), Beside, up' = up
  PROVE  VeleroControl' /\ VeleroInvariant'
<1>1. Control(VeleroCalls)' /\ Sets(r, s, h) /\ job' = job /\ setting' = setting
  BY GoOnKeepsControl, CallsAre DEF VeleroState, VeleroControl
<1>0. UNCHANGED <<up, synced, restores, config>>
  BY DEF Beside, Steady
<1>3. \A q \in Runs, t \in Slots : handler'[q][t].step = handler[q][t].step
  BY <1>1 DEF Sets
<1>4. \A q \in Runs : Advances(q)
  BY <1>1 DEF Advances, Reached, Over, Ended
<1>5. \A q \in Runs, t \in Slots :
        /\ BackupHandlerIsSound(q, t, handler'[q][t]) /\ RestoreHandlerIsSound(q, handler'[q][t])
        /\ handler'[q][t].fresh => handler'[q][t].copy = config'.owners
  BY <1>0, <1>1 DEF Sets, VeleroInvariant, HandlerIsSound
<1>6. \A q \in Runs : job'[q].step \in StepsAfterBackup \cup {"FINAL_BACKUP", "COMPLETED"} => ~up'[q]
  BY <1>0, <1>1 DEF VeleroInvariant, TransferIsSound
<1>7. \A q \in Runs : IsAfterBackup(q)' => IsAfterBackup(q)
  BY <1>1, <1>3 DEF IsAfterBackup
<1>8. \A q \in Runs : Restores(q)' => Restores(q)
  BY <1>0, <1>1, <1>3 DEF Restores, RestoreOf, BackupName
<1>9. GhostsStay  BY <1>3 DEF Slots, GhostsStay
<1>10. ConfigIsSound'  BY <1>0, <1>4, <1>8, <1>9, ConfigStays DEF Beside
<1>11. VeleroInvariant'
  BY <1>4, <1>5, <1>6, <1>7, <1>9, <1>10, SteadyStep DEF VeleroState, Beside
<1> QED BY <1>1, <1>11 DEF VeleroState, VeleroControl, IsCompose

LEMMA MoveStep ==
  ASSUME VeleroState, VeleroInvariant, NEW r \in Runs, NEW s \in Slots, NEW h \in States,
         Works(r, s), h.step = handler[r][s].step, h.pc \in VeleroCalls[h.step],
         GoOn(r, s, h), HandlerIsSound(r, s, h), Beside, up' = up
  PROVE  VeleroControl' /\ VeleroInvariant'
<1>1. Goes(r, s, h)  BY GoOnGoes DEF VeleroState, VeleroControl, Control
<1> QED BY <1>1, GoesStep

\* A handler returns an error, or the attempt of a worker is lost.
LEMMA ErrorStep ==
  ASSUME VeleroState, VeleroInvariant, NEW r \in Runs, NEW s \in Slots,
         Works(r, s), ReturnError(r, s), failures' \in 0..MaxFaults, Beside, up' = up
  PROVE  VeleroControl' /\ VeleroInvariant'
<1>1. /\ Control(VeleroCalls)' /\ Sets(r, s, Idle) /\ setting' = setting
      /\ OthersKeepJobs(r) /\ FallsBack(r, s)
  BY ErrorKeepsControl, CallsAre DEF VeleroState, VeleroControl
<1>0. UNCHANGED <<up, synced, restores, config>>
  BY DEF Beside, Steady
<1>3. s = "current" => job[r].step \in Working
  BY WorksAtAStep, CallsAre DEF VeleroState, VeleroControl
<1>4. ASSUME NEW q \in Runs PROVE Advances(q)
  BY <1>1, <1>3 DEF OthersKeepJobs, FallsBack, Advances, Reached, Over, Ended, StepsBeforeBackup, Ends, Working
<1>5. \A q \in Runs, t \in Slots :
        /\ BackupHandlerIsSound(q, t, handler'[q][t]) /\ RestoreHandlerIsSound(q, handler'[q][t])
        /\ handler'[q][t].fresh => handler'[q][t].copy = config'.owners
  BY <1>0, <1>1, IdleIsSound DEF Sets, VeleroInvariant, HandlerIsSound
<1>6. \A q \in Runs : job'[q].step \in StepsAfterBackup \cup {"FINAL_BACKUP", "COMPLETED"} => ~up'[q]
  BY <1>0, <1>1 DEF VeleroInvariant, TransferIsSound, OthersKeepJobs, FallsBack, StepsAfterBackup
<1>7. ASSUME NEW q \in Runs PROVE IsAfterBackup(q)' => IsAfterBackup(q)
  BY <1>1, IdleIsTyped DEF IsAfterBackup, Sets, OthersKeepJobs, FallsBack, StepsAfterBackup
<1>8. \A q \in Runs : Restores(q)' => Restores(q)
  BY <1>0, <1>1, IdleIsTyped DEF Restores, RestoreOf, BackupName, Sets, OthersKeepJobs, FallsBack
<1>9. GhostsStay  BY <1>1, IdleIsTyped DEF Sets, Slots, GhostsStay
<1>10. ConfigIsSound'  BY <1>0, <1>4, <1>8, <1>9, ConfigStays DEF Beside
<1>11. VeleroInvariant'
  BY <1>4, <1>5, <1>6, <1>7, <1>9, <1>10, SteadyStep DEF VeleroState, Beside
<1> QED BY <1>1, <1>11 DEF VeleroState, VeleroControl, IsCompose

\* A final backup that its own run has found complete was taken of the stopped
\* source and has all of its volumes, and so has its copy in the target.
LEMMA FinalIsValid ==
  ASSUME VeleroTypeOK, VeleroInvariant, NEW r \in Runs, job[r].step = "FINAL_BACKUP",
         Final(r).phase = "Completed", Final(r).owner = r
  PROVE  Valid(Final(r), r) /\ (Synced(r).phase # "absent" => Valid(Synced(r), r))
<1>1. BackupIsSound(BackupName(r)) /\ SyncIsSound(BackupName(r)) /\ BackupName(r) \in Runs
  BY NamesAreRuns DEF VeleroInvariant
<1>2. ~Over(r) /\ ~Ended(r)  BY DEF Over, Ended, Ends
<1>3. Valid(Final(r), r)
  BY <1>1, <1>2 DEF BackupIsSound, Final, Valid
<1>4. ASSUME Synced(r).phase # "absent" PROVE Synced(r) = Final(r)
  <2>1. CASE setting.kind # "names" /\ Ended(Synced(r).owner)
    BY <1>1, <1>2, <1>4, <2>1 DEF SyncIsSound, Synced, BackupName
  <2> QED BY <1>1, <1>4, <2>1 DEF SyncIsSound, Synced, Final
<1> QED BY <1>3, <1>4

\* All handlers stay at their steps but one, which has returned.
StepsStay(r, s) == \A q \in Runs, t \in Slots :
  handler'[q][t].step = handler[q][t].step \/ (q = r /\ t = s /\ handler'[q][t].step = "ABSENT")

\* What a run's success does to its job, and to what the job's step says.
LEMMA SuccessMoves ==
  ASSUME VeleroState, VeleroInvariant, NEW r \in Runs, NEW s \in Slots, Works(r, s),
         StepsStay(r, s), OthersKeepJobs(r), MovesOn(r, s), setting' = setting,
         handler[r][s].step = "FINAL_BACKUP" => handler[r][s].pc = "delete_staging"
  PROVE  /\ \A q \in Runs : Advances(q)
         /\ \A q \in Runs : job'[q].step \in StepsAfterBackup \cup {"FINAL_BACKUP", "COMPLETED"} =>
              ~up[q] \/ (q = r /\ s = "current" /\ handler[r][s].step = "QUIESCE")
         /\ \A q \in Runs : IsAfterBackup(q)' =>
              \/ IsAfterBackup(q)
              \/ Valid(Final(q), q) /\ (Synced(q).phase # "absent" => Valid(Synced(q), q))
         /\ \A q \in Runs, t \in Slots : handler'[q][t].step = "RESTORE" => handler[q][t].step = "RESTORE"
         /\ \A q \in Runs : job'[q].step = "RESTORE" =>
              job[q].step = "RESTORE" \/ (q = r /\ handler[r][s].step = "TRANSFORM")
         /\ GhostsStay
<1>3. s = "current" => job[r].step \in Working /\ job[r].step = handler[r][s].step
  BY WorksAtAStep, CallsAre DEF VeleroState, VeleroControl
<1>4. ASSUME NEW q \in Runs PROVE Advances(q)
  BY <1>3, NextSteps DEF OthersKeepJobs, MovesOn, Advances, Reached, Over, Ended, StepsBeforeBackup, Ends, Working, Slots
<1>6. ASSUME NEW q \in Runs, job'[q].step \in StepsAfterBackup \cup {"FINAL_BACKUP", "COMPLETED"}
      PROVE  ~up[q] \/ (q = r /\ s = "current" /\ handler[r][s].step = "QUIESCE")
  BY <1>3, <1>6, NextSteps DEF VeleroInvariant, TransferIsSound, OthersKeepJobs, MovesOn, StepsAfterBackup, Working, Slots
<1>7. ASSUME NEW q \in Runs, IsAfterBackup(q)'
      PROVE  \/ IsAfterBackup(q)
             \/ Valid(Final(q), q) /\ (Synced(q).phase # "absent" => Valid(Synced(q), q))
  <2>1. CASE q = r /\ s = "current" /\ job[r].step = "FINAL_BACKUP"
    <3>1. Final(r).phase = "Completed" /\ Final(r).owner = r
      BY <1>3, <2>1 DEF VeleroInvariant, HandlerIsSound, BackupHandlerIsSound
    <3> QED BY <2>1, <3>1, FinalIsValid DEF VeleroState
  <2>2. CASE ~(q = r /\ s = "current" /\ job[r].step = "FINAL_BACKUP")
    <3>1. job'[q].step \in StepsAfterBackup => job[q].step \in StepsAfterBackup
      BY <1>3, <2>2, NextSteps DEF OthersKeepJobs, MovesOn, StepsAfterBackup, Working, Slots
    <3>2. \A t \in Slots : handler'[q][t].step \in StepsAfterBackup => handler[q][t].step \in StepsAfterBackup
      BY DEF StepsStay, StepsAfterBackup
    <3> QED BY <1>7, <3>1, <3>2 DEF IsAfterBackup
  <2> QED BY <2>1, <2>2
<1>8. \A q \in Runs, t \in Slots : handler'[q][t].step = "RESTORE" => handler[q][t].step = "RESTORE"
  BY DEF StepsStay
<1>9. ASSUME NEW q \in Runs, job'[q].step = "RESTORE"
      PROVE  job[q].step = "RESTORE" \/ (q = r /\ handler[r][s].step = "TRANSFORM")
  BY <1>3, <1>9, NextSteps DEF OthersKeepJobs, MovesOn, Working, Slots
<1>10. GhostsStay  BY DEF StepsStay, Slots, GhostsStay
<1> QED BY <1>4, <1>6, <1>7, <1>8, <1>9, <1>10

\* A handler returns nil.
LEMMA SuccessStep ==
  ASSUME VeleroState, VeleroInvariant, NEW r \in Runs, NEW s \in Slots,
         Works(r, s), Succeed(r, s), Beside,
         \A q \in Runs : up'[q] => up[q], handler[r][s].step = "QUIESCE" => ~up'[r],
         handler[r][s].step = "FINAL_BACKUP" => handler[r][s].pc = "delete_staging",
         handler[r][s].step = "TRANSFORM" => Annotated(r)
  PROVE  VeleroControl' /\ VeleroInvariant'
<1>1. /\ Control(VeleroCalls)' /\ Sets(r, s, Idle) /\ setting' = setting
      /\ OthersKeepJobs(r) /\ MovesOn(r, s)
  BY SucceedKeepsControl, CallsAre DEF VeleroState, VeleroControl
<1>0. UNCHANGED <<synced, restores, config>>
  BY DEF Beside, Steady
<1>2. /\ \A q \in Runs : Advances(q)
      /\ \A q \in Runs : job'[q].step \in StepsAfterBackup \cup {"FINAL_BACKUP", "COMPLETED"} =>
           ~up[q] \/ (q = r /\ s = "current" /\ handler[r][s].step = "QUIESCE")
      /\ \A q \in Runs : IsAfterBackup(q)' =>
           \/ IsAfterBackup(q)
           \/ Valid(Final(q), q) /\ (Synced(q).phase # "absent" => Valid(Synced(q), q))
      /\ \A q \in Runs, t \in Slots : handler'[q][t].step = "RESTORE" => handler[q][t].step = "RESTORE"
      /\ \A q \in Runs : job'[q].step = "RESTORE" =>
           job[q].step = "RESTORE" \/ (q = r /\ handler[r][s].step = "TRANSFORM")
      /\ GhostsStay
  <2>1. StepsStay(r, s)  BY <1>1, IdleIsTyped DEF Sets, StepsStay
  <2> QED BY <1>1, <2>1, SuccessMoves
<1>5. \A q \in Runs, t \in Slots :
        /\ BackupHandlerIsSound(q, t, handler'[q][t]) /\ RestoreHandlerIsSound(q, handler'[q][t])
        /\ handler'[q][t].fresh => handler'[q][t].copy = config'.owners
  BY <1>0, <1>1, IdleIsSound DEF Sets, VeleroInvariant, HandlerIsSound
<1>6. \A q \in Runs : job'[q].step \in StepsAfterBackup \cup {"FINAL_BACKUP", "COMPLETED"} => ~up'[q]
  BY <1>2
<1>8. ASSUME NEW q \in Runs, Restores(q)' PROVE Restores(q) \/ Annotated(q)
  BY <1>0, <1>1, <1>2, <1>8 DEF Restores, RestoreOf, BackupName
<1>10. ConfigIsSound'  BY <1>0, <1>2, <1>8, ConfigStays DEF Beside
<1>11. VeleroInvariant'
  BY <1>2, <1>5, <1>6, <1>10, SteadyStep DEF VeleroState, Beside
<1> QED BY <1>1, <1>11 DEF VeleroState, VeleroControl, IsCompose

-----------------------------------------------------------------------------
(***************************************************************************)
(* The handlers of VeleroExecutor, call by call.                           *)
(***************************************************************************)
LEMMA VeleroCallsAre ==
  /\ VeleroCalls["PREFLIGHT"] = {"preflight"} /\ VeleroCalls["PRESYNC"] = BackupCalls
  /\ VeleroCalls["QUIESCE"] = {"quiesce"} /\ VeleroCalls["FINAL_BACKUP"] = BackupCalls
  /\ VeleroCalls["TRANSFER"] = {"verify_transfer"}
  /\ VeleroCalls["TRANSFORM"] = {"read_mappings", "write_mappings"}
  /\ VeleroCalls["RESTORE"] = {"await_sync", "create_restore", "poll_restore"} \cup CallsAfterRestore
  /\ VeleroCalls["VALIDATION"] = {"validate_namespace", "validate_endpoints"}
BY DEF VeleroCalls

LEMMA StepOfCall ==
  ASSUME Control(VeleroCalls), NEW r \in Runs, NEW s \in Slots
  PROVE  LET pc == handler[r][s].pc
             step == handler[r][s].step
         IN  /\ pc = "preflight" => step = "PREFLIGHT"
             /\ pc \in BackupCalls => step \in {"PRESYNC", "FINAL_BACKUP"}
             /\ pc = "quiesce" => step = "QUIESCE"
             /\ pc = "verify_transfer" => step = "TRANSFER"
             /\ pc \in {"read_mappings", "write_mappings"} => step = "TRANSFORM"
             /\ pc \in {"await_sync", "create_restore", "poll_restore"} \cup CallsAfterRestore => step = "RESTORE"
             /\ pc \in {"validate_namespace", "validate_endpoints"} => step = "VALIDATION"
<1>1. CASE Works(r, s)
  <2>1. handler[r][s].step \in Working /\ handler[r][s].pc \in VeleroCalls[handler[r][s].step]
    BY <1>1, WorksAtAStep, CallsAre
  <2> QED BY <2>1, VeleroCallsAre DEF Working, BackupCalls, CallsAfterRestore
<1>2. CASE ~Works(r, s)
  BY <1>2 DEF Works, IsAt, BackupCalls, CallsAfterRestore
<1> QED BY <1>1, <1>2

LEMMA UnchangedIsBeside ==
  ASSUME VeleroTypeOK, setting' = setting, UNCHANGED veleroVars
  PROVE  Beside /\ up' = up /\ VeleroTypeOK'
<1>1. UNCHANGED <<up, staging, backups, synced, restores, config, target, unwound>>  BY DEF veleroVars
<1>2. Beside  BY <1>1 DEF Beside, Steady, StagingStays, TargetStays
<1>3. VeleroTypeOK'  BY <1>1 DEF VeleroTypeOK
<1> QED BY <1>1, <1>2, <1>3

\* Where a call is not about anything the invariant asks of handlers.
LEMMA PlainCallIsSound ==
  ASSUME NEW r \in Runs, NEW s \in Slots, NEW step \in Working, NEW pc \in VeleroCalls[step],
         step = "FINAL_BACKUP" => Reached(r),
         pc \notin {"stage", "await_pod", "create_backup", "poll_backup", "delete_staging",
                    "create_restore", "poll_restore"} \cup CallsAfterRestore
  PROVE  HandlerIsSound(r, s, At(step, pc))
<1>1. At(step, pc).step = step /\ At(step, pc).pc = pc /\ ~At(step, pc).fresh
  BY DEF At
<1>2. BackupHandlerIsSound(r, s, At(step, pc))  BY <1>1 DEF BackupHandlerIsSound
<1>3. RestoreHandlerIsSound(r, At(step, pc))  BY <1>1 DEF RestoreHandlerIsSound, CallsAfterRestore
<1> QED BY <1>1, <1>2, <1>3 DEF HandlerIsSound

LEMMA HandlerFacts ==
  ASSUME VeleroState, VeleroInvariant, NEW r \in Runs, NEW s \in Slots, Works(r, s)
  PROVE  /\ handler[r][s] \in States /\ handler[r][s].step \in Working
         /\ s = "current" => job[r].step = handler[r][s].step
         /\ handler[r][s].step = "FINAL_BACKUP" => Reached(r)
         /\ HandlerIsSound(r, s, handler[r][s])
<1>1. handler[r][s] \in States  BY DEF VeleroState, VeleroControl, Control, HandlersTypeOK, States
<1>2. handler[r][s].step \in Working /\ (s = "current" => job[r].step = handler[r][s].step)
  BY WorksAtAStep, CallsAre DEF VeleroState, VeleroControl
<1>3. HandlerIsSound(r, s, handler[r][s])  BY DEF VeleroInvariant
<1> QED BY <1>1, <1>2, <1>3 DEF HandlerIsSound, BackupHandlerIsSound

\* The forms in which the handlers use the steps above.
LEMMA ProceedStep ==
  ASSUME VeleroState, VeleroInvariant, NEW r \in Runs, NEW s \in Slots, NEW pc,
         Works(r, s), ProceedTo(r, s, pc), pc \in VeleroCalls[handler[r][s].step],
         HandlerIsSound(r, s, At(handler[r][s].step, pc)), Beside, up' = up
  PROVE  VeleroControl' /\ VeleroInvariant'
<1>1. handler[r][s].step \in Working  BY HandlerFacts
<1>2. pc \in AllCalls  BY <1>1, CallsAre DEF IsCalls
<1>3. /\ At(handler[r][s].step, pc) \in States /\ At(handler[r][s].step, pc).step = handler[r][s].step
      /\ At(handler[r][s].step, pc).pc = pc
  BY <1>1, <1>2, AtIsTyped
<1>4. GoOn(r, s, At(handler[r][s].step, pc))  BY DEF ProceedTo
<1> QED BY <1>3, <1>4, MoveStep

LEMMA RefuseStep ==
  ASSUME VeleroState, VeleroInvariant, NEW r \in Runs, NEW s \in Slots, Works(r, s),
         Refuse(r, s), Beside, up' = up
  PROVE  VeleroControl' /\ VeleroInvariant'
<1>1. ReturnError(r, s) /\ failures' \in 0..MaxFaults
  BY DEF Refuse, VeleroState, VeleroControl, Control, HandlersTypeOK
<1> QED BY <1>1, ErrorStep

LEMMA AtIsWorking ==
  ASSUME NEW r \in Runs, NEW s \in Slots, NEW pc, IsAt(r, s, pc), pc # "none"
  PROVE  Works(r, s) /\ handler[r][s].pc = pc
BY DEF Works, IsAt

LEMMA PreflightStep ==
  ASSUME VeleroState, VeleroInvariant, NEW r \in Runs, NEW s \in Slots, VeleroPreflight(r, s)
  PROVE  VeleroTypeOK' /\ VeleroControl' /\ VeleroInvariant'
<1>1. Works(r, s) /\ handler[r][s].pc = "preflight"  BY AtIsWorking DEF VeleroPreflight
<1>2. handler[r][s].step = "PREFLIGHT"  BY <1>1, StepOfCall DEF VeleroState, VeleroControl
<1>3. setting' = setting  BY DEF VeleroPreflight, Succeed, Refuse, ReturnError
<1>4. Beside /\ up' = up /\ VeleroTypeOK'  BY <1>3, UnchangedIsBeside DEF VeleroPreflight, VeleroState
<1>5. CASE Succeed(r, s)  BY <1>1, <1>2, <1>4, <1>5, SuccessStep
<1>6. CASE Refuse(r, s)  BY <1>1, <1>4, <1>6, RefuseStep
<1> QED BY <1>4, <1>5, <1>6 DEF VeleroPreflight

\* The source of a run that has come to its final backup is stopped, until the run
\* is over.
LEMMA StoppedOrOver ==
  ASSUME VeleroState, VeleroInvariant, NEW r \in Runs, Reached(r), ~Over(r)
  PROVE  ~up[r]
<1>1. job[r].step \in Steps  BY DEF VeleroState, VeleroControl, Control, HandlersTypeOK
<1>2. job[r].step \in StepsAfterBackup \cup {"FINAL_BACKUP"}
  BY <1>1, StepsAre DEF Reached, Over, StepsBeforeBackup, StepsAfterBackup, Working, Ends
<1> QED BY <1>2 DEF VeleroInvariant, TransferIsSound

LEMMA ListPodsStep ==
  ASSUME VeleroState, VeleroInvariant, NEW r \in Runs, NEW s \in Slots, ListPods(r, s)
  PROVE  VeleroTypeOK' /\ VeleroControl' /\ VeleroInvariant'
<1> DEFINE step == handler[r][s].step
           h == IF setting.fsb THEN [At(step, "stage") EXCEPT !.todo = Volumes \ AppVolumes(r)]
                ELSE At(step, "create_backup")
<1>1. Works(r, s) /\ handler[r][s].pc = "list_pods"  BY AtIsWorking DEF ListPods
<1>2. step \in {"PRESYNC", "FINAL_BACKUP"} /\ step \in Working /\ (step = "FINAL_BACKUP" => Reached(r))
  BY <1>1, StepOfCall, HandlerFacts DEF BackupCalls, VeleroState, VeleroControl
<1>3. GoOn(r, s, h)  BY DEF ListPods
<1>4. Beside /\ up' = up /\ VeleroTypeOK'
  BY <1>3, UnchangedIsBeside DEF ListPods, VeleroState, GoOn
<1>5. "stage" \in VeleroCalls[step] /\ "create_backup" \in VeleroCalls[step]
  BY <1>2, VeleroCallsAre DEF BackupCalls
<1>6. "stage" \in AllCalls /\ "create_backup" \in AllCalls
  BY <1>2, <1>5, CallsAre DEF IsCalls
<1>7. h \in States /\ h.step = step /\ h.pc \in {"stage", "create_backup"} /\ ~h.fresh
  <2>1. CASE setting.fsb
    <3>1. Volumes \ AppVolumes(r) \in SUBSET Volumes  OBVIOUS
    <3>2. At(step, "stage") \in States /\ At(step, "stage").step = step /\ At(step, "stage").pc = "stage"
          /\ ~At(step, "stage").fresh
      BY <1>2, <1>6, AtIsTyped
    <3> HIDE DEF step
    <3> QED BY <2>1, <3>1, <3>2 DEF States, HandlerStates
  <2>2. CASE ~setting.fsb  BY <2>2, <1>2, <1>6, AtIsTyped
  <2> QED BY <2>1, <2>2
<1>8. HandlerIsSound(r, s, h)
  <2>1. CASE setting.fsb
    <3>1. h.pc = "stage" /\ h.todo = Volumes \ AppVolumes(r) /\ h.step = step
      BY <2>1 DEF At
    <3>2. ASSUME step = "FINAL_BACKUP" PROVE Staged(r, h.todo)
      <4>1. CASE Over(r)  BY <4>1 DEF Staged
      <4>2. CASE ~Over(r)
        <5>1. AppVolumes(r) = {}  BY <1>2, <3>2, <4>2, StoppedOrOver DEF AppVolumes
        <5> QED BY <3>1, <5>1 DEF Staged
      <4> QED BY <4>1, <4>2
    <3> HIDE DEF h
    <3>3. BackupHandlerIsSound(r, s, h)  BY <1>2, <3>1, <3>2 DEF BackupHandlerIsSound
    <3>4. RestoreHandlerIsSound(r, h)  BY <3>1 DEF RestoreHandlerIsSound, CallsAfterRestore
    <3> QED BY <1>7, <3>3, <3>4 DEF HandlerIsSound
  <2>2. CASE ~setting.fsb
    <3>1. h.pc = "create_backup" /\ h.step = step  BY <2>2 DEF At
    <3> HIDE DEF h
    <3>3. BackupHandlerIsSound(r, s, h)  BY <1>2, <2>2, <3>1 DEF BackupHandlerIsSound, Staged
    <3>4. RestoreHandlerIsSound(r, h)  BY <3>1 DEF RestoreHandlerIsSound, CallsAfterRestore
    <3> QED BY <1>7, <3>3, <3>4 DEF HandlerIsSound
  <2> QED BY <2>1, <2>2
<1> HIDE DEF h
<1> QED BY <1>1, <1>3, <1>4, <1>5, <1>7, <1>8, MoveStep

\* A loop over the volumes to stage visits one of them.
LEMMA LoopIsTyped ==
  ASSUME NEW h \in States, NEW pc \in AllCalls, NEW todo \in SUBSET Volumes
  PROVE  LET next == [h EXCEPT !.pc = pc, !.todo = todo]
         IN  next \in States /\ next.step = h.step /\ next.pc = pc /\ next.todo = todo
             /\ next.copy = h.copy /\ next.fresh = h.fresh
BY DEF States, HandlerStates

LEMMA CreateStagingPodStep ==
  ASSUME VeleroState, VeleroInvariant, NEW r \in Runs, NEW s \in Slots, NEW v \in Volumes, CreateStagingPod(r, s, v)
  PROVE  VeleroTypeOK' /\ VeleroControl' /\ VeleroInvariant'
<1> DEFINE g == handler[r][s]
           h == [g EXCEPT !.pc = "await_pod"]
<1>1. Works(r, s) /\ g.pc = "stage"  BY AtIsWorking DEF CreateStagingPod
<1>2. g.step \in {"PRESYNC", "FINAL_BACKUP"} /\ g \in States /\ HandlerIsSound(r, s, g)
  BY <1>1, StepOfCall, HandlerFacts DEF BackupCalls, VeleroState, VeleroControl
<1>3. "await_pod" \in VeleroCalls[g.step]  BY <1>2, VeleroCallsAre DEF BackupCalls
<1>4. "await_pod" \in AllCalls  BY <1>2, <1>3, CallsAre DEF IsCalls, Working
<1>5. h \in States /\ h.step = g.step /\ h.pc = "await_pod" /\ h.todo = g.todo /\ h.fresh = g.fresh /\ h.copy = g.copy
  BY <1>2, <1>4 DEF States, HandlerStates
<1>6. HandlerIsSound(r, s, h)
  <2> HIDE DEF h
  <2>1. BackupHandlerIsSound(r, s, h)
    BY <1>1, <1>2, <1>5 DEF HandlerIsSound, BackupHandlerIsSound
  <2>2. RestoreHandlerIsSound(r, h)  BY <1>5 DEF RestoreHandlerIsSound, CallsAfterRestore
  <2> QED BY <1>2, <1>5, <2>1, <2>2 DEF HandlerIsSound
<1>7. GoOn(r, s, h) /\ up' = up  BY DEF CreateStagingPod
<1>8. Beside
  <2>1. \A q \in Runs : staging[q] \subseteq staging'[q]
    BY DEF CreateStagingPod, VeleroState, VeleroTypeOK
  <2> QED BY <2>1 DEF CreateStagingPod, Beside, Steady, StagingStays, TargetStays, GoOn
<1>9. VeleroTypeOK'
  <2>1. staging' \in [Runs -> SUBSET Volumes]  BY DEF CreateStagingPod, VeleroState, VeleroTypeOK
  <2> QED BY <2>1 DEF CreateStagingPod, VeleroState, VeleroTypeOK
<1> HIDE DEF h
<1> QED BY <1>1, <1>3, <1>5, <1>6, <1>7, <1>8, <1>9, MoveStep

LEMMA AwaitStagingPodStep ==
  ASSUME VeleroState, VeleroInvariant, NEW r \in Runs, NEW s \in Slots, NEW v \in Volumes, AwaitStagingPod(r, s, v)
  PROVE  VeleroTypeOK' /\ VeleroControl' /\ VeleroInvariant'
<1> DEFINE g == handler[r][s]
           h == [g EXCEPT !.pc = "stage", !.todo = @ \ {v}]
<1>1. Works(r, s) /\ g.pc = "await_pod"  BY AtIsWorking DEF AwaitStagingPod
<1>2. g.step \in {"PRESYNC", "FINAL_BACKUP"} /\ g \in States /\ HandlerIsSound(r, s, g)
  BY <1>1, StepOfCall, HandlerFacts DEF BackupCalls, VeleroState, VeleroControl
<1>3. "stage" \in VeleroCalls[g.step]  BY <1>2, VeleroCallsAre DEF BackupCalls
<1>4. "stage" \in AllCalls  BY <1>2, <1>3, CallsAre DEF IsCalls, Working
<1>5. h \in States /\ h.step = g.step /\ h.pc = "stage" /\ h.todo = g.todo \ {v} /\ h.fresh = g.fresh /\ h.copy = g.copy
  BY <1>2, <1>4 DEF States, HandlerStates
<1>6. HandlerIsSound(r, s, h)
  <2> HIDE DEF h
  <2>1. BackupHandlerIsSound(r, s, h)
    <3>1. Staged(r, g.todo) => Staged(r, h.todo)
      BY <1>5 DEF AwaitStagingPod, Staged
    <3> QED BY <1>1, <1>2, <1>5, <3>1 DEF HandlerIsSound, BackupHandlerIsSound
  <2>2. RestoreHandlerIsSound(r, h)  BY <1>5 DEF RestoreHandlerIsSound, CallsAfterRestore
  <2> QED BY <1>2, <1>5, <2>1, <2>2 DEF HandlerIsSound
<1>7. GoOn(r, s, h)  BY DEF AwaitStagingPod
<1>8. Beside /\ up' = up /\ VeleroTypeOK'
  BY UnchangedIsBeside DEF AwaitStagingPod, VeleroState, GoOn
<1> HIDE DEF h
<1> QED BY <1>1, <1>3, <1>5, <1>6, <1>7, <1>8, MoveStep

LEMMA StagingIsReadyStep ==
  ASSUME VeleroState, VeleroInvariant, NEW r \in Runs, NEW s \in Slots, StagingIsReady(r, s)
  PROVE  VeleroTypeOK' /\ VeleroControl' /\ VeleroInvariant'
<1> DEFINE g == handler[r][s]
           h == At(g.step, "create_backup")
<1>1. Works(r, s) /\ g.pc = "stage" /\ g.todo = {}  BY AtIsWorking DEF StagingIsReady
<1>2. g.step \in {"PRESYNC", "FINAL_BACKUP"} /\ HandlerIsSound(r, s, g)
  BY <1>1, StepOfCall, HandlerFacts DEF BackupCalls, VeleroState, VeleroControl
<1>3. "create_backup" \in VeleroCalls[g.step]  BY <1>2, VeleroCallsAre DEF BackupCalls
<1>5. h.step = g.step /\ h.pc = "create_backup" /\ ~h.fresh
  BY DEF At
<1>6. HandlerIsSound(r, s, h)
  <2> HIDE DEF h
  <2>1. BackupHandlerIsSound(r, s, h)
    BY <1>1, <1>2, <1>5 DEF HandlerIsSound, BackupHandlerIsSound
  <2>2. RestoreHandlerIsSound(r, h)  BY <1>5 DEF RestoreHandlerIsSound, CallsAfterRestore
  <2> QED BY <1>5, <2>1, <2>2 DEF HandlerIsSound
<1>7. ProceedTo(r, s, "create_backup")  BY DEF StagingIsReady
<1>8. Beside /\ up' = up /\ VeleroTypeOK'
  BY UnchangedIsBeside DEF StagingIsReady, VeleroState, ProceedTo, GoOn
<1> QED BY <1>1, <1>3, <1>6, <1>7, <1>8, ProceedStep

LEMMA UnwindStep ==
  ASSUME VeleroState, VeleroInvariant, NEW r \in Runs, NEW s \in Slots, Works(r, s), Unwind(r, s), Beside, up' = up,
         handler[r][s].pc \in BackupCalls
  PROVE  VeleroControl' /\ VeleroInvariant'
<1>1. handler[r][s].step \in {"PRESYNC", "FINAL_BACKUP"} /\ (handler[r][s].step = "FINAL_BACKUP" => Reached(r))
  BY StepOfCall, HandlerFacts DEF VeleroState, VeleroControl
<1>2. CASE ProceedTo(r, s, "unwind")
  <2>1. "unwind" \in VeleroCalls[handler[r][s].step]  BY <1>1, VeleroCallsAre DEF BackupCalls
  <2>2. HandlerIsSound(r, s, At(handler[r][s].step, "unwind"))
    BY <1>1, <2>1, PlainCallIsSound DEF Working, CallsAfterRestore
  <2> QED BY <1>2, <2>1, <2>2, ProceedStep
<1>3. CASE Refuse(r, s)  BY <1>3, RefuseStep
<1> QED BY <1>2, <1>3 DEF Unwind

\* A handler that finds a backup of its own polls it.
LEMMA PollsItsOwn ==
  ASSUME VeleroState, VeleroInvariant, NEW r \in Runs, NEW s \in Slots, Works(r, s), Beside, up' = up,
         handler[r][s].pc = "create_backup", BackupOf(r, s).phase # "absent", BackupOf(r, s).owner = r,
         ProceedTo(r, s, "poll_backup")
  PROVE  VeleroControl' /\ VeleroInvariant'
<1> DEFINE g == handler[r][s]
           h == At(g.step, "poll_backup")
<1>1. g.step \in {"PRESYNC", "FINAL_BACKUP"} /\ (g.step = "FINAL_BACKUP" => Reached(r))
  BY StepOfCall, HandlerFacts DEF BackupCalls, VeleroState, VeleroControl
<1>2. "poll_backup" \in VeleroCalls[g.step]  BY <1>1, VeleroCallsAre DEF BackupCalls
<1>3. h.step = g.step /\ h.pc = "poll_backup" /\ ~h.fresh  BY DEF At
<1>4. g.step = "FINAL_BACKUP" => Final(r).phase # "absent" /\ Final(r).owner = r
  BY DEF BackupOf, StageOf, Final
<1>5. HandlerIsSound(r, s, h)
  <2> HIDE DEF h
  <2>1. BackupHandlerIsSound(r, s, h)  BY <1>1, <1>3, <1>4 DEF BackupHandlerIsSound
  <2>2. RestoreHandlerIsSound(r, h)  BY <1>3 DEF RestoreHandlerIsSound, CallsAfterRestore
  <2> QED BY <1>3, <2>1, <2>2 DEF HandlerIsSound
<1> QED BY <1>2, <1>5, ProceedStep

LEMMA PollBackupStep ==
  ASSUME VeleroState, VeleroInvariant, NEW r \in Runs, NEW s \in Slots, PollBackup(r, s)
  PROVE  VeleroTypeOK' /\ VeleroControl' /\ VeleroInvariant'
<1> DEFINE g == handler[r][s]
           h == At(g.step, "delete_staging")
<1>1. Works(r, s) /\ g.pc = "poll_backup" /\ g.pc \in BackupCalls  BY AtIsWorking DEF PollBackup, BackupCalls
<1>2. g.step \in {"PRESYNC", "FINAL_BACKUP"} /\ HandlerIsSound(r, s, g)
  BY <1>1, StepOfCall, HandlerFacts DEF BackupCalls, VeleroState, VeleroControl
<1>3. setting' = setting
  BY DEF PollBackup, ProceedTo, GoOn, Unwind, Refuse, ReturnError
<1>4. Beside /\ up' = up /\ VeleroTypeOK'  BY <1>3, UnchangedIsBeside DEF PollBackup, VeleroState
<1>5. CASE Unwind(r, s)  BY <1>1, <1>4, <1>5, UnwindStep
<1>6. CASE BackupOf(r, s).phase = "Completed" /\ ProceedTo(r, s, "delete_staging")
  <2>1. "delete_staging" \in VeleroCalls[g.step]  BY <1>2, VeleroCallsAre DEF BackupCalls
  <2>2. h.step = g.step /\ h.pc = "delete_staging" /\ ~h.fresh  BY DEF At
  <2>3. g.step = "FINAL_BACKUP" => Final(r).phase = "Completed"
    BY <1>6 DEF BackupOf, StageOf, Final
  <2>4. HandlerIsSound(r, s, h)
    <3> HIDE DEF h
    <3>1. BackupHandlerIsSound(r, s, h)
      BY <1>1, <1>2, <2>2, <2>3 DEF HandlerIsSound, BackupHandlerIsSound
    <3>2. RestoreHandlerIsSound(r, h)  BY <2>2 DEF RestoreHandlerIsSound, CallsAfterRestore
    <3> QED BY <2>2, <3>1, <3>2 DEF HandlerIsSound
  <2> QED BY <1>1, <1>4, <1>6, <2>1, <2>4, ProceedStep
<1> QED BY <1>4, <1>5, <1>6 DEF PollBackup

\* Staging pods are removed when nobody needs them, or the run is marked.
LEMMA RemovalIsBeside ==
  ASSUME VeleroState, VeleroInvariant, NEW r \in Runs, NEW s \in Slots, Works(r, s), RemoveStaging(r, s),
         handler[r][s].step \in {"PRESYNC", "FINAL_BACKUP"}, Sets(r, s, Idle),
         UNCHANGED <<setting, backups, synced, restores, config, target>>
  PROVE  Beside
<1>1. unwound \subseteq unwound'  BY DEF RemoveStaging
<1>2. ASSUME NEW q \in Runs PROVE StagingStays(q)
  <2>1. CASE q # r
    BY <2>1 DEF RemoveStaging, StagingStays, VeleroState, VeleroTypeOK
  <2>2. CASE q = r /\ (s = "ghost" \/ StagingIsNeeded(r, s))
    BY <2>2 DEF RemoveStaging, StagingStays
  <2>3. CASE q = r /\ s = "current" /\ ~StagingIsNeeded(r, s)
    <3>1. job[r].step = handler[r][s].step  BY <2>3, HandlerFacts
    <3>2. handler[r][s].step = "PRESYNC" => ~Reached(r)  BY <3>1 DEF Reached, StepsBeforeBackup
    <3>3. ASSUME Final(r).phase = "New", Final(r).owner = r PROVE FALSE
      <4>1. Reached(r)
        <5>1. BackupName(r) \in Runs  BY NamesAreRuns
        <5> QED BY <3>3, <5>1 DEF VeleroInvariant, BackupIsSound, Final
      <4>2. handler[r][s].step = "FINAL_BACKUP"  BY <3>2, <4>1
      <4> QED BY <2>3, <3>3, <4>2 DEF StagingIsNeeded, BackupOf, StageOf, Final
    <3>4. ASSUME Final(r).phase \in {"absent", "New"}, NEW t \in Slots,
                 handler'[r][t].step = "FINAL_BACKUP", handler'[r][t].pc \in {"stage", "await_pod", "create_backup"}
          PROVE  FALSE
      <4>1. t = "ghost" /\ handler'[r][t] = handler[r][t]
        BY <2>3, <3>4, IdleIsTyped DEF Sets, Slots
      <4>2. Works(r, "ghost")  BY <3>4, <4>1 DEF Works, IsAt
      <4>3. Reached(r)  BY <3>4, <4>1, <4>2, HandlerFacts
      <4>4. handler[r][s].step = "FINAL_BACKUP"  BY <3>2, <4>3
      <4> QED BY <2>3, <3>4, <4>2, <4>4 DEF StagingIsNeeded, BackupOf, StageOf, Final
    <3> QED BY <2>3, <3>3, <3>4 DEF StagingStays
  <2> QED BY <2>1, <2>2, <2>3 DEF Slots
<1> QED BY <1>1, <1>2 DEF Beside, Steady, TargetStays

LEMMA RemovalIsTyped ==
  ASSUME VeleroTypeOK, NEW r \in Runs, NEW s \in Slots, RemoveStaging(r, s),
         UNCHANGED <<up, backups, synced, restores, config, target>>
  PROVE  VeleroTypeOK'
<1>1. staging' \in [Runs -> SUBSET Volumes] /\ unwound' \subseteq Runs
  BY DEF RemoveStaging, VeleroTypeOK
<1> QED BY <1>1 DEF VeleroTypeOK

LEMMA DeleteStagingStep ==
  ASSUME VeleroState, VeleroInvariant, NEW r \in Runs, NEW s \in Slots, DeleteStaging(r, s)
  PROVE  VeleroTypeOK' /\ VeleroControl' /\ VeleroInvariant'
<1>1. Works(r, s) /\ handler[r][s].pc = "delete_staging"  BY AtIsWorking DEF DeleteStaging
<1>2. handler[r][s].step \in {"PRESYNC", "FINAL_BACKUP"}
  BY <1>1, StepOfCall DEF BackupCalls, VeleroState, VeleroControl
<1>3. Succeed(r, s) /\ RemoveStaging(r, s) /\ UNCHANGED <<up, backups, synced, restores, config, target>>
  BY DEF DeleteStaging
<1>4. Sets(r, s, Idle) /\ setting' = setting
  BY <1>1, <1>3, SucceedKeepsControl, CallsAre DEF VeleroState, VeleroControl
<1>5. Beside  BY <1>1, <1>2, <1>3, <1>4, RemovalIsBeside
<1>6. VeleroTypeOK'  BY <1>3, RemovalIsTyped DEF VeleroState
<1> QED BY <1>1, <1>2, <1>3, <1>5, <1>6, SuccessStep

LEMMA UnwindStagingStep ==
  ASSUME VeleroState, VeleroInvariant, NEW r \in Runs, NEW s \in Slots, UnwindStaging(r, s)
  PROVE  VeleroTypeOK' /\ VeleroControl' /\ VeleroInvariant'
<1>1. Works(r, s) /\ handler[r][s].pc = "unwind"  BY AtIsWorking DEF UnwindStaging
<1>2. handler[r][s].step \in {"PRESYNC", "FINAL_BACKUP"}
  BY <1>1, StepOfCall DEF BackupCalls, VeleroState, VeleroControl
<1>3. Refuse(r, s) /\ RemoveStaging(r, s) /\ UNCHANGED <<up, backups, synced, restores, config, target>>
  BY DEF UnwindStaging
<1>4. Sets(r, s, Idle) /\ setting' = setting
  <2>1. handler' = [handler EXCEPT ![r][s] = Idle] /\ setting' = setting  BY <1>3 DEF Refuse, ReturnError
  <2> QED BY <2>1, SetsIsTyped, IdleIsTyped DEF VeleroState, VeleroControl, Control
<1>5. Beside  BY <1>1, <1>2, <1>3, <1>4, RemovalIsBeside
<1>6. VeleroTypeOK'  BY <1>3, RemovalIsTyped DEF VeleroState
<1> QED BY <1>1, <1>3, <1>5, <1>6, RefuseStep

LEMMA QuiesceStep ==
  ASSUME VeleroState, VeleroInvariant, NEW r \in Runs, NEW s \in Slots, VeleroQuiesce(r, s)
  PROVE  VeleroTypeOK' /\ VeleroControl' /\ VeleroInvariant'
<1>1. Works(r, s) /\ handler[r][s].pc = "quiesce"  BY AtIsWorking DEF VeleroQuiesce
<1>2. handler[r][s].step = "QUIESCE"  BY <1>1, StepOfCall DEF VeleroState, VeleroControl
<1>3. Succeed(r, s)  BY DEF VeleroQuiesce
<1>4. up' \in [Runs -> BOOLEAN] /\ ~up'[r] /\ \A q \in Runs : up'[q] => up[q]
  BY DEF VeleroQuiesce, VeleroState, VeleroTypeOK
<1>5. Beside
  BY DEF VeleroQuiesce, Succeed, Beside, Steady, StagingStays, TargetStays
<1>6. VeleroTypeOK'  BY <1>4 DEF VeleroQuiesce, VeleroState, VeleroTypeOK
<1> QED BY <1>1, <1>2, <1>3, <1>4, <1>5, <1>6, SuccessStep

LEMMA VerifyTransferStep ==
  ASSUME VeleroState, VeleroInvariant, NEW r \in Runs, NEW s \in Slots, VerifyTransfer(r, s)
  PROVE  VeleroTypeOK' /\ VeleroControl' /\ VeleroInvariant'
<1>1. Works(r, s) /\ handler[r][s].pc = "verify_transfer"  BY AtIsWorking DEF VerifyTransfer
<1>2. handler[r][s].step = "TRANSFER"  BY <1>1, StepOfCall DEF VeleroState, VeleroControl
<1>3. setting' = setting  BY DEF VerifyTransfer, Succeed, Refuse, ReturnError
<1>4. Beside /\ up' = up /\ VeleroTypeOK'  BY <1>3, UnchangedIsBeside DEF VerifyTransfer, VeleroState
<1>5. CASE Succeed(r, s)  BY <1>1, <1>2, <1>4, <1>5, SuccessStep
<1>6. CASE Refuse(r, s)  BY <1>1, <1>4, <1>6, RefuseStep
<1> QED BY <1>4, <1>5, <1>6 DEF VerifyTransfer

-----------------------------------------------------------------------------
(***************************************************************************)
(* The ConfigMap.                                                          *)
(***************************************************************************)
LEMMA CopyIsTyped ==
  ASSUME NEW h \in States, NEW copy \in SUBSET (Runs \X Classes)
  PROVE  LET next == [h EXCEPT !.copy = copy, !.fresh = TRUE]
         IN  next \in States /\ next.step = h.step /\ next.pc = h.pc /\ next.copy = copy
BY DEF States, HandlerStates

LEMMA ReadMappingsStep ==
  ASSUME VeleroState, VeleroInvariant, NEW r \in Runs, NEW s \in Slots, ReadMappings(r, s)
  PROVE  VeleroTypeOK' /\ VeleroControl' /\ VeleroInvariant'
<1> DEFINE h == [At(handler[r][s].step, "write_mappings") EXCEPT !.copy = config.owners, !.fresh = TRUE]
<1>1. Works(r, s) /\ handler[r][s].pc = "read_mappings"  BY AtIsWorking DEF ReadMappings
<1>2. handler[r][s].step = "TRANSFORM"  BY <1>1, StepOfCall DEF VeleroState, VeleroControl
<1>3. setting' = setting  BY DEF ReadMappings, Succeed, GoOn
<1>4. Beside /\ up' = up /\ VeleroTypeOK'  BY <1>3, UnchangedIsBeside DEF ReadMappings, VeleroState
<1>5. CASE Profile(r) = {} /\ Succeed(r, s)
  BY <1>1, <1>2, <1>4, <1>5, SuccessStep DEF Annotated
<1>6. CASE GoOn(r, s, h)
  <2>1. "write_mappings" \in VeleroCalls["TRANSFORM"] /\ "TRANSFORM" \in Working  BY VeleroCallsAre DEF Working
  <2>2. "write_mappings" \in AllCalls  BY <2>1, CallsAre DEF IsCalls
  <2>3. config.owners \in SUBSET (Runs \X Classes)  BY DEF VeleroState, VeleroTypeOK
  <2>4. h \in States /\ h.step = "TRANSFORM" /\ h.pc = "write_mappings" /\ h.copy = config.owners
    <3>1. At("TRANSFORM", "write_mappings") \in States /\ At("TRANSFORM", "write_mappings").step = "TRANSFORM"
          /\ At("TRANSFORM", "write_mappings").pc = "write_mappings"
      BY <2>1, <2>2, AtIsTyped
    <3>2. ASSUME NEW a \in States, NEW copy \in SUBSET (Runs \X Classes)
          PROVE  /\ [a EXCEPT !.copy = copy, !.fresh = TRUE] \in States
                 /\ [a EXCEPT !.copy = copy, !.fresh = TRUE].step = a.step
                 /\ [a EXCEPT !.copy = copy, !.fresh = TRUE].pc = a.pc
                 /\ [a EXCEPT !.copy = copy, !.fresh = TRUE].copy = copy
      BY CopyIsTyped
    <3> DEFINE a == At(handler[r][s].step, "write_mappings")
    <3>3. a \in States /\ a.step = "TRANSFORM" /\ a.pc = "write_mappings"  BY <1>2, <3>1
    <3>4. h = [a EXCEPT !.copy = config.owners, !.fresh = TRUE]  OBVIOUS
    <3> HIDE DEF a, h
    <3> QED BY <2>3, <3>2, <3>3, <3>4
  <2>5. HandlerIsSound(r, s, h)
    <3> HIDE DEF h
    <3> QED BY <2>4 DEF HandlerIsSound, BackupHandlerIsSound, RestoreHandlerIsSound, CallsAfterRestore
  <2> HIDE DEF h
  <2> QED BY <1>1, <1>2, <1>4, <1>6, <2>1, <2>4, <2>5, MoveStep
<1> QED BY <1>4, <1>5, <1>6 DEF ReadMappings

\* A write leaves the other handlers with copies that are not fresh.
Staled(r, s, next) ==
  /\ handler'[r][s] = next
  /\ \A q \in Runs, t \in Slots : (q # r \/ t # s) =>
       /\ handler'[q][t].step = handler[q][t].step /\ handler'[q][t].pc = handler[q][t].pc
       /\ handler'[q][t].todo = handler[q][t].todo /\ ~handler'[q][t].fresh

LEMMA StaleIsTyped ==
  ASSUME NEW h \in States
  PROVE  /\ [h EXCEPT !.fresh = FALSE] \in States /\ [h EXCEPT !.fresh = FALSE].step = h.step
         /\ [h EXCEPT !.fresh = FALSE].pc = h.pc /\ [h EXCEPT !.fresh = FALSE].todo = h.todo
         /\ ~[h EXCEPT !.fresh = FALSE].fresh
BY DEF States, HandlerStates

LEMMA WriteKeepsControl ==
  ASSUME Control(VeleroCalls), NEW r \in Runs, NEW s \in Slots, Works(r, s), NEW owners, NEW done,
         WriteConfig(r, s, owners, done), done # "none" => done \in VeleroCalls[handler[r][s].step]
  PROVE  /\ Control(VeleroCalls)' /\ setting' = setting
         /\ Staled(r, s, IF done = "none" THEN Idle ELSE At(handler[r][s].step, done))
         /\ done = "none" => OthersKeepJobs(r) /\ MovesOn(r, s)
         /\ done # "none" => job' = job
<1> DEFINE stale == [q \in Runs |-> [t \in Slots |-> [handler[q][t] EXCEPT !.fresh = FALSE]]]
           next == IF done = "none" THEN Idle ELSE At(handler[r][s].step, done)
<1>1. handler' = [stale EXCEPT ![r][s] = next]  BY DEF WriteConfig
<1>2. /\ handler[r][s].step \in Working /\ handler[r][s].pc \in VeleroCalls[handler[r][s].step]
      /\ s = "current" => job[r].step = handler[r][s].step
  BY WorksAtAStep, CallsAre
<1>3. next \in States /\ next.step \in {"ABSENT", handler[r][s].step} /\ next.pc \in VeleroCalls[next.step]
      /\ next.step \in DOMAIN VeleroCalls
  <2>1. CASE done = "none"  BY <2>1, IdleIsTyped, CallsAre DEF IsCalls
  <2>2. CASE done # "none"
    <3>1. done \in AllCalls  BY <1>2, <2>2, CallsAre DEF IsCalls
    <3> QED BY <1>2, <2>2, <3>1, AtIsTyped, CallsAre DEF IsCalls
  <2> QED BY <2>1, <2>2
<1>4. \A q \in Runs, t \in Slots : handler[q][t] \in States
  BY DEF Control, HandlersTypeOK, States
<1>5. ASSUME NEW q \in Runs, NEW t \in Slots
      PROVE  /\ stale[q][t] \in States /\ stale[q][t].step = handler[q][t].step /\ stale[q][t].pc = handler[q][t].pc
             /\ stale[q][t].todo = handler[q][t].todo /\ ~stale[q][t].fresh
  BY <1>4, StaleIsTyped
<1>6. stale = [q \in Runs |-> [t \in Slots |-> stale[q][t]]]  OBVIOUS
<1> HIDE DEF stale, next
<1>7. stale \in [Runs -> [Slots -> States]]  BY <1>5, <1>6
<1>8. handler' \in [Runs -> [Slots -> States]] /\ Staled(r, s, next)
  BY <1>1, <1>3, <1>5, <1>7 DEF Staled
<1>9. job' \in [Runs -> [step : Steps, attempt : 0..MaxAttempts]] /\ setting' = setting
      /\ (done = "none" => OthersKeepJobs(r) /\ MovesOn(r, s)) /\ (done # "none" => job' = job)
      /\ (s = "ghost" => job' = job)
  <2>1. CASE done # "none" \/ s = "ghost"
    BY <2>1 DEF WriteConfig, OthersKeepJobs, MovesOn, Control, HandlersTypeOK
  <2>2. CASE done = "none" /\ s = "current"
    <3>1. NextStep(job[r].step) \in Steps  BY <1>2, <2>2, NextStepIsTyped
    <3>2. job' = [job EXCEPT ![r] = [step |-> NextStep(job[r].step), attempt |-> 0]] /\ setting' = setting
      BY <2>2 DEF WriteConfig
    <3> QED BY <2>2, <3>1, <3>2, HandlersAssumption DEF OthersKeepJobs, MovesOn, Control, HandlersTypeOK
  <2> QED BY <2>1, <2>2 DEF Slots
<1>10. HandlersTypeOK(AllCalls)'
  BY <1>8, <1>9 DEF Control, HandlersTypeOK, States, WriteConfig
<1>11. HandlersFollow(VeleroCalls)'
  <2>1. ASSUME NEW q \in Runs PROVE handler'[q].current.step \in {"ABSENT", job'[q].step}
    BY <1>2, <1>3, <1>8, <1>9 DEF Staled, OthersKeepJobs, HandlersFollow, Control, Slots, next, Idle, At
  <2>2. ASSUME NEW q \in Runs, NEW t \in Slots
        PROVE handler'[q][t].step \in DOMAIN VeleroCalls /\ handler'[q][t].pc \in VeleroCalls[handler'[q][t].step]
    BY <1>3, <1>8 DEF Staled, HandlersFollow, Control
  <2> QED BY <2>1, <2>2 DEF HandlersFollow
<1> QED BY <1>8, <1>9, <1>10, <1>11 DEF Control, next

LEMMA WrittenConfig ==
  ASSUME VeleroTypeOK, NEW r \in Runs, NEW s \in Slots, NEW owners \in SUBSET (Runs \X Classes), NEW done,
         WriteConfig(r, s, owners, done)
  PROVE  /\ config'.owners = owners /\ config'.data = Merged(owners)
         /\ VeleroTypeOK' /\ up' = up
         /\ setting' = setting => Steady
<1>1. config' = IF owners = {} THEN NoConfig ELSE [owners |-> owners, data |-> Merged(owners)]
  BY DEF WriteConfig
<1>2. Merged({}) = {}  BY DEF Merged
<1>3. Merged(owners) \subseteq Classes  BY DEF Merged
<1>4. config'.owners = owners /\ config'.data = Merged(owners)
      /\ config' \in [owners : SUBSET (Runs \X Classes), data : SUBSET Classes]
  BY <1>1, <1>2, <1>3 DEF NoConfig
<1>5. UNCHANGED <<up, staging, backups, synced, restores, target, unwound>>  BY DEF WriteConfig
<1>6. VeleroTypeOK'  BY <1>4, <1>5 DEF VeleroTypeOK
<1>7. setting' = setting => Steady  BY <1>5 DEF Steady, StagingStays, TargetStays
<1> QED BY <1>4, <1>5, <1>6, <1>7

\* Who had mappings keeps them, but for the run whose entries are written.
LEMMA OthersKeepMappings ==
  ASSUME NEW r \in Runs, NEW owners, NEW owners2, NEW q \in Runs, q # r, Annotated(q), owners = config.owners,
         owners2 \in {OwnersWith(owners, r), OwnersWithout(owners, r)}
  PROVE  \A pair \in Profile(q) : <<q, pair>> \in owners2
<1>1. ASSUME NEW pair \in Profile(q) PROVE <<q, pair>> \in OwnersWithout(owners, r)
  <2>1. <<q, pair>> \in owners /\ <<q, pair>>[1] = q  BY DEF Annotated
  <2> QED BY <2>1 DEF OwnersWithout
<1>2. OwnersWithout(owners, r) \subseteq OwnersWith(owners, r)  BY DEF OwnersWithout, OwnersWith
<1> QED BY <1>1, <1>2

LEMMA EnsureMappingsStep ==
  ASSUME VeleroState, VeleroInvariant, NEW r \in Runs, NEW s \in Slots, EnsureMappings(r, s)
  PROVE  VeleroTypeOK' /\ VeleroControl' /\ VeleroInvariant'
<1> DEFINE g == handler[r][s]
           owners == OwnersWith(g.copy, r)
<1>1. Works(r, s) /\ g.pc = "write_mappings"  BY AtIsWorking DEF EnsureMappings
<1>2. g.step = "TRANSFORM" /\ g \in States /\ HandlerIsSound(r, s, g)
  BY <1>1, StepOfCall, HandlerFacts DEF VeleroState, VeleroControl
<1>3. CASE Refuse(r, s) /\ UNCHANGED veleroVars
  <2>1. setting' = setting  BY <1>3 DEF Refuse, ReturnError
  <2>2. Beside /\ up' = up /\ VeleroTypeOK'  BY <1>3, <2>1, UnchangedIsBeside DEF VeleroState
  <2> QED BY <1>1, <1>3, <2>2, RefuseStep
<1>4. CASE ProceedTo(r, s, "read_mappings") /\ UNCHANGED veleroVars
  <2>1. setting' = setting  BY <1>4 DEF ProceedTo, GoOn
  <2>2. Beside /\ up' = up /\ VeleroTypeOK'  BY <1>4, <2>1, UnchangedIsBeside DEF VeleroState
  <2>3. "read_mappings" \in VeleroCalls["TRANSFORM"] /\ "TRANSFORM" \in Working  BY VeleroCallsAre DEF Working
  <2>4. HandlerIsSound(r, s, At(g.step, "read_mappings"))
    BY <1>2, <2>3, PlainCallIsSound DEF CallsAfterRestore
  <2> QED BY <1>1, <1>2, <1>4, <2>2, <2>3, <2>4, ProceedStep
<1>5. CASE IsProfile(Merged(owners)) /\ IsFresh(r, s) /\ WriteConfig(r, s, owners, "none")
  <2>1. /\ Control(VeleroCalls)' /\ setting' = setting /\ Staled(r, s, Idle)
        /\ OthersKeepJobs(r) /\ MovesOn(r, s)
    BY <1>1, <1>5, WriteKeepsControl DEF VeleroState, VeleroControl
  <2>2. owners \in SUBSET (Runs \X Classes)
    <3>1. g.copy \subseteq Runs \X Classes  BY <1>2 DEF States, HandlerStates
    <3>2. Profile(r) \subseteq Classes  BY SettingsAre DEF VeleroState, VeleroControl, Profile
    <3> QED BY <3>1, <3>2 DEF OwnersWith
  <2>3. /\ config'.owners = owners /\ config'.data = Merged(owners)
        /\ VeleroTypeOK' /\ up' = up /\ Steady
    BY <1>5, <2>1, <2>2, WrittenConfig DEF VeleroState
  <2>4. owners = OwnersWith(config.owners, r)
    BY <1>2, <1>5 DEF HandlerIsSound, IsFresh, NoConfig
  <2>5. StepsStay(r, s)  BY <2>1, IdleIsTyped DEF Staled, StepsStay
  <2>6. /\ \A q \in Runs : Advances(q)
        /\ \A q \in Runs : job'[q].step \in StepsAfterBackup \cup {"FINAL_BACKUP", "COMPLETED"} =>
             ~up[q] \/ (q = r /\ s = "current" /\ g.step = "QUIESCE")
        /\ \A q \in Runs : IsAfterBackup(q)' =>
             \/ IsAfterBackup(q)
             \/ Valid(Final(q), q) /\ (Synced(q).phase # "absent" => Valid(Synced(q), q))
        /\ \A q \in Runs, t \in Slots : handler'[q][t].step = "RESTORE" => handler[q][t].step = "RESTORE"
        /\ \A q \in Runs : job'[q].step = "RESTORE" =>
             job[q].step = "RESTORE" \/ (q = r /\ g.step = "TRANSFORM")
        /\ GhostsStay
    BY <1>1, <1>2, <2>1, <2>5, SuccessMoves
  <2> HIDE DEF g, owners
  <2>7. \A q \in Runs, t \in Slots :
          /\ BackupHandlerIsSound(q, t, handler'[q][t]) /\ RestoreHandlerIsSound(q, handler'[q][t])
          /\ handler'[q][t].fresh => handler'[q][t].copy = config'.owners
    <3> SUFFICES ASSUME NEW q \in Runs, NEW t \in Slots
                 PROVE  /\ BackupHandlerIsSound(q, t, handler'[q][t]) /\ RestoreHandlerIsSound(q, handler'[q][t])
                        /\ handler'[q][t].fresh => handler'[q][t].copy = config'.owners
      OBVIOUS
    <3>1. CASE q = r /\ t = s
      BY <2>1, <3>1, IdleIsSound, IdleIsTyped DEF Staled, HandlerIsSound
    <3>2. CASE q # r \/ t # s
      <4>1. HandlerIsSound(q, t, handler[q][t])  BY DEF VeleroInvariant
      <4>2. BackupHandlerIsSound(q, t, handler'[q][t])
        BY <2>1, <3>2, <4>1 DEF Staled, HandlerIsSound, BackupHandlerIsSound
      <4>3. RestoreHandlerIsSound(q, handler'[q][t])
        BY <2>1, <3>2, <4>1 DEF Staled, HandlerIsSound, RestoreHandlerIsSound
      <4> QED BY <2>1, <3>2, <4>2, <4>3 DEF Staled
    <3> QED BY <3>1, <3>2
  <2>8. \A q \in Runs : job'[q].step \in StepsAfterBackup \cup {"FINAL_BACKUP", "COMPLETED"} => ~up'[q]
    BY <1>2, <2>3, <2>6 DEF g
  <2>9. ConfigIsSound'
    <3>1. IsProfile(config.data)' /\ config'.data = Merged(config.owners)'
      BY <1>5, <2>3 DEF IsProfile, Merged
    <3>2. ASSUME NEW q \in Runs, Restores(q)' PROVE (Annotated(q) \/ Restored(q) \/ CanClean(q))'
      <4>0. setting' = setting /\ restores' = restores /\ RestoreOf(q)' = RestoreOf(q)
        BY <2>3, NamesAreRuns DEF Steady, RestoreOf, BackupName
      <4>1. CASE q = r
        <5>1. \A pair \in Profile(r) : <<r, pair>> \in owners  BY <2>4 DEF OwnersWith
        <5> QED BY <2>3, <4>0, <4>1, <5>1 DEF Annotated, Profile
      <4>2. CASE q # r
        <5>1. Restores(q)  BY <2>6, <3>2, <4>0, <4>2 DEF Restores
        <5>2. Annotated(q) \/ Restored(q) \/ CanClean(q)  BY <5>1 DEF VeleroInvariant, ConfigIsSound
        <5>3. Annotated(q) => Annotated(q)'
          <6>1. Annotated(q) => \A pair \in Profile(q) : <<q, pair>> \in owners
            BY <2>4, <4>2, OthersKeepMappings
          <6> QED BY <2>3, <4>0, <6>1 DEF Annotated, Profile
        <5>4. Restored(q) => Restored(q)'  BY <4>0 DEF Restored
        <5>5. CanClean(q) => CanClean(q)'  BY <2>6, <4>0 DEF Advances, CanClean
        <5> QED BY <5>2, <5>3, <5>4, <5>5
      <4> QED BY <4>1, <4>2
    <3> QED BY <3>1, <3>2 DEF ConfigIsSound, IsProfile, Merged
  <2>10. VeleroInvariant'
    BY <2>3, <2>6, <2>7, <2>8, <2>9, SteadyStep DEF VeleroState
  <2> QED BY <2>1, <2>3, <2>10 DEF VeleroState, VeleroControl, IsCompose
<1> QED BY <1>3, <1>4, <1>5 DEF EnsureMappings

-----------------------------------------------------------------------------
(***************************************************************************)
(* The restore.                                                            *)
(***************************************************************************)
LEMMA RestoreCall ==
  ASSUME VeleroState, VeleroInvariant, NEW r \in Runs, NEW s \in Slots, Works(r, s),
         handler[r][s].pc \in {"await_sync", "create_restore", "poll_restore"} \cup CallsAfterRestore
  PROVE  /\ handler[r][s].step = "RESTORE" /\ handler[r][s] \in States /\ HandlerIsSound(r, s, handler[r][s])
         /\ TransferIsSound(r) /\ (Synced(r).phase # "absent" => Valid(Synced(r), r))
         /\ Valid(Final(r), r) \/ Gone(r)
<1>1. handler[r][s].step = "RESTORE" /\ handler[r][s] \in States /\ HandlerIsSound(r, s, handler[r][s])
  BY StepOfCall, HandlerFacts DEF VeleroState, VeleroControl
<1>2. TransferIsSound(r) /\ IsAfterBackup(r)
  BY <1>1 DEF VeleroInvariant, IsAfterBackup, StepsAfterBackup
<1> QED BY <1>1, <1>2 DEF TransferIsSound

\* The next call of a RESTORE is sound if what RestoreHandlerIsSound asks is there.
LEMMA RestoreCallIsSound ==
  ASSUME NEW r \in Runs, NEW s \in Slots, NEW pc, RestoreHandlerIsSound(r, At("RESTORE", pc))
  PROVE  HandlerIsSound(r, s, At("RESTORE", pc))
<1>1. At("RESTORE", pc).step = "RESTORE" /\ ~At("RESTORE", pc).fresh  BY DEF At
<1> QED BY <1>1 DEF HandlerIsSound, BackupHandlerIsSound

LEMMA AtPc == \A step, pc : At(step, pc).pc = pc
BY DEF At

LEMMA AwaitSyncStep ==
  ASSUME VeleroState, VeleroInvariant, NEW r \in Runs, NEW s \in Slots, AwaitSync(r, s)
  PROVE  VeleroTypeOK' /\ VeleroControl' /\ VeleroInvariant'
<1>1. Works(r, s) /\ handler[r][s].pc = "await_sync"  BY AtIsWorking DEF AwaitSync
<1>2. handler[r][s].step = "RESTORE" /\ (Synced(r).phase # "absent" => Valid(Synced(r), r))
  BY <1>1, RestoreCall
<1>3. setting' = setting  BY DEF AwaitSync, ProceedTo, GoOn, Refuse, ReturnError
<1>4. Beside /\ up' = up /\ VeleroTypeOK'  BY <1>3, UnchangedIsBeside DEF AwaitSync, VeleroState
<1>5. CASE Refuse(r, s)  BY <1>1, <1>4, <1>5, RefuseStep
<1>6. CASE ProceedTo(r, s, "create_restore")
  <2>1. RestoreHandlerIsSound(r, At("RESTORE", "create_restore"))
    BY <1>2, AtPc DEF AwaitSync, Synced, Restorable, RestoreHandlerIsSound, CallsAfterRestore
  <2> QED BY <1>1, <1>2, <1>4, <1>6, <2>1, RestoreCallIsSound, ProceedStep, VeleroCallsAre
<1> QED BY <1>4, <1>5, <1>6 DEF AwaitSync

\* The calls that change the target namespace alone.
LEMMA TargetChangeIsBeside ==
  ASSUME VeleroTypeOK, setting' = setting, NEW r \in Runs, NEW t \in TargetStates,
         target' = [target EXCEPT ![r] = t], t.of = target[r].of, t.mapped = target[r].mapped,
         t.scaled => target[r].scaled \/ Valid(target[r].of, r),
         UNCHANGED <<up, staging, backups, synced, restores, config, unwound>>
  PROVE  Beside /\ VeleroTypeOK'
<1>1. \A q \in Runs : TargetStays(q)
  BY DEF TargetStays, VeleroTypeOK
<1>2. Beside  BY <1>1 DEF Beside, Steady, StagingStays
<1>3. VeleroTypeOK'  BY DEF VeleroTypeOK
<1> QED BY <1>2, <1>3

\* The fields of the target namespace that the executor sets.
LEMMA TargetFields ==
  ASSUME NEW t \in TargetStates, NEW admission \in {"none", "restricted"}
  PROVE  /\ [t EXCEPT !.admission = admission] \in TargetStates
         /\ [t EXCEPT !.admission = admission].of = t.of /\ [t EXCEPT !.admission = admission].mapped = t.mapped
         /\ [t EXCEPT !.admission = admission].scaled = t.scaled
         /\ [t EXCEPT !.staging = {}] \in TargetStates
         /\ [t EXCEPT !.staging = {}].of = t.of /\ [t EXCEPT !.staging = {}].mapped = t.mapped
         /\ [t EXCEPT !.staging = {}].scaled = t.scaled
         /\ [t EXCEPT !.scaled = TRUE] \in TargetStates
         /\ [t EXCEPT !.scaled = TRUE].of = t.of /\ [t EXCEPT !.scaled = TRUE].mapped = t.mapped
BY DEF TargetStates

LEMMA PollRestoreStep ==
  ASSUME VeleroState, VeleroInvariant, NEW r \in Runs, NEW s \in Slots, PollRestore(r, s)
  PROVE  VeleroTypeOK' /\ VeleroControl' /\ VeleroInvariant'
<1>1. Works(r, s) /\ handler[r][s].pc = "poll_restore"  BY AtIsWorking DEF PollRestore
<1>2. handler[r][s].step = "RESTORE" /\ HandlerIsSound(r, s, handler[r][s])  BY <1>1, RestoreCall
<1>3. setting' = setting  BY DEF PollRestore, ProceedTo, GoOn, Refuse, ReturnError
<1>4. Beside /\ up' = up /\ VeleroTypeOK'  BY <1>3, UnchangedIsBeside DEF PollRestore, VeleroState
<1>5. CASE Refuse(r, s)  BY <1>1, <1>4, <1>5, RefuseStep
<1>6. CASE RestoreOf(r).phase = "Completed" /\ ProceedTo(r, s, "read_owners")
  <2>1. RestoreOf(r).owner = r
    BY <1>1, <1>2, <1>6 DEF HandlerIsSound, RestoreHandlerIsSound
  <2>2. Restored(r)  BY <1>6, <2>1 DEF Restored
  <2>3. Valid(target[r].of, r)
    <3>1. RestoreIsSound(BackupName(r))  BY NamesAreRuns DEF VeleroInvariant
    <3> QED BY <1>6, <2>1, <3>1 DEF RestoreIsSound, RestoreOf
  <2>4. RestoreHandlerIsSound(r, At("RESTORE", "read_owners"))
    BY <2>2, <2>3, AtPc DEF RestoreHandlerIsSound
  <2>5. "read_owners" \in VeleroCalls["RESTORE"]  BY VeleroCallsAre DEF CallsAfterRestore
  <2> QED BY <1>1, <1>2, <1>4, <1>6, <2>4, <2>5, RestoreCallIsSound, ProceedStep
<1> QED BY <1>4, <1>5, <1>6 DEF PollRestore

LEMMA ReadOwnersStep ==
  ASSUME VeleroState, VeleroInvariant, NEW r \in Runs, NEW s \in Slots, ReadOwners(r, s)
  PROVE  VeleroTypeOK' /\ VeleroControl' /\ VeleroInvariant'
<1> DEFINE a == At(handler[r][s].step, "delete_mappings")
           h == [a EXCEPT !.copy = config.owners, !.fresh = TRUE]
<1>1. Works(r, s) /\ handler[r][s].pc = "read_owners"  BY AtIsWorking DEF ReadOwners
<1>2. handler[r][s].step = "RESTORE" /\ HandlerIsSound(r, s, handler[r][s])
  BY <1>1, RestoreCall DEF CallsAfterRestore
<1>3. setting' = setting  BY DEF ReadOwners, ProceedTo, GoOn
<1>4. Beside /\ up' = up /\ VeleroTypeOK'  BY <1>3, UnchangedIsBeside DEF ReadOwners, VeleroState
<1>5. (Restored(r) \/ CanClean(r)) /\ Valid(target[r].of, r)
  BY <1>1, <1>2 DEF HandlerIsSound, RestoreHandlerIsSound, CallsAfterRestore
<1>6. "delete_mappings" \in VeleroCalls["RESTORE"] /\ "delete_target_staging" \in VeleroCalls["RESTORE"]
  BY VeleroCallsAre DEF CallsAfterRestore
<1>7. CASE ProceedTo(r, s, "delete_target_staging")
  <2>1. RestoreHandlerIsSound(r, At("RESTORE", "delete_target_staging"))
    BY <1>5, AtPc DEF RestoreHandlerIsSound
  <2> QED BY <1>1, <1>2, <1>4, <1>6, <1>7, <2>1, RestoreCallIsSound, ProceedStep
<1>8. CASE GoOn(r, s, h)
  <2>1. "delete_mappings" \in AllCalls  BY <1>6, CallsAre DEF IsCalls, Working
  <2>2. config.owners \in SUBSET (Runs \X Classes)  BY DEF VeleroState, VeleroTypeOK
  <2>3. a \in States /\ a.step = "RESTORE" /\ a.pc = "delete_mappings"
    BY <1>2, <2>1, AtIsTyped DEF Working
  <2> HIDE DEF a
  <2>4. h \in States /\ h.step = "RESTORE" /\ h.pc = "delete_mappings" /\ h.copy = config.owners
    BY <2>2, <2>3, CopyIsTyped
  <2> HIDE DEF h
  <2>5. HandlerIsSound(r, s, h)
    BY <1>5, <2>4 DEF HandlerIsSound, BackupHandlerIsSound, RestoreHandlerIsSound
  <2> QED BY <1>1, <1>2, <1>4, <1>6, <1>8, <2>4, <2>5, MoveStep
<1> QED BY <1>4, <1>7, <1>8 DEF ReadOwners

LEMMA DeleteTargetStagingStep ==
  ASSUME VeleroState, VeleroInvariant, NEW r \in Runs, NEW s \in Slots, DeleteTargetStaging(r, s)
  PROVE  VeleroTypeOK' /\ VeleroControl' /\ VeleroInvariant'
<1>1. Works(r, s) /\ handler[r][s].pc = "delete_target_staging"  BY AtIsWorking DEF DeleteTargetStaging
<1>2. handler[r][s].step = "RESTORE" /\ HandlerIsSound(r, s, handler[r][s])
  BY <1>1, RestoreCall DEF CallsAfterRestore
<1>3. setting' = setting  BY DEF DeleteTargetStaging, ProceedTo, GoOn
<1>4. Beside /\ VeleroTypeOK'
  <2>1. target[r] \in TargetStates  BY DEF VeleroState, VeleroTypeOK
  <2>2. target' = [target EXCEPT ![r] = [target[r] EXCEPT !.staging = {}]]  BY DEF DeleteTargetStaging
  <2> DEFINE t == [target[r] EXCEPT !.staging = {}]
  <2>3. t \in TargetStates /\ t.of = target[r].of /\ t.mapped = target[r].mapped /\ t.scaled = target[r].scaled
    BY <2>1, TargetFields
  <2> HIDE DEF t
  <2> QED BY <1>3, <2>2, <2>3, TargetChangeIsBeside DEF DeleteTargetStaging, VeleroState, t
<1>5. Valid(target[r].of, r)
  BY <1>1, <1>2 DEF HandlerIsSound, RestoreHandlerIsSound, CallsAfterRestore
<1>6. "scale_target" \in VeleroCalls["RESTORE"]  BY VeleroCallsAre DEF CallsAfterRestore
<1>7. RestoreHandlerIsSound(r, At("RESTORE", "scale_target"))
  BY <1>5, AtPc DEF RestoreHandlerIsSound
<1>8. ProceedTo(r, s, "scale_target") /\ up' = up  BY DEF DeleteTargetStaging
<1> QED BY <1>1, <1>2, <1>4, <1>6, <1>7, <1>8, RestoreCallIsSound, ProceedStep

LEMMA ScaleTargetStep ==
  ASSUME VeleroState, VeleroInvariant, NEW r \in Runs, NEW s \in Slots, ScaleTarget(r, s)
  PROVE  VeleroTypeOK' /\ VeleroControl' /\ VeleroInvariant'
<1>1. Works(r, s) /\ handler[r][s].pc = "scale_target"  BY AtIsWorking DEF ScaleTarget
<1>2. handler[r][s].step = "RESTORE" /\ HandlerIsSound(r, s, handler[r][s])
  BY <1>1, RestoreCall DEF CallsAfterRestore
<1>3. setting' = setting  BY DEF ScaleTarget, Succeed
<1>5. Valid(target[r].of, r)
  BY <1>1, <1>2 DEF HandlerIsSound, RestoreHandlerIsSound, CallsAfterRestore
<1>4. Beside /\ VeleroTypeOK'
  <2>1. target[r] \in TargetStates  BY DEF VeleroState, VeleroTypeOK
  <2>2. target' = [target EXCEPT ![r] = [target[r] EXCEPT !.scaled = TRUE]]  BY DEF ScaleTarget
  <2> DEFINE t == [target[r] EXCEPT !.scaled = TRUE]
  <2>3. t \in TargetStates /\ t.of = target[r].of /\ t.mapped = target[r].mapped
    BY <2>1, TargetFields
  <2> HIDE DEF t
  <2> QED BY <1>3, <1>5, <2>2, <2>3, TargetChangeIsBeside DEF ScaleTarget, VeleroState, t
<1>6. Succeed(r, s) /\ up' = up  BY DEF ScaleTarget
<1> QED BY <1>1, <1>2, <1>4, <1>6, SuccessStep

LEMMA ValidateNamespaceStep ==
  ASSUME VeleroState, VeleroInvariant, NEW r \in Runs, NEW s \in Slots, ValidateNamespace(r, s)
  PROVE  VeleroTypeOK' /\ VeleroControl' /\ VeleroInvariant'
<1>1. Works(r, s) /\ handler[r][s].pc = "validate_namespace"  BY AtIsWorking DEF ValidateNamespace
<1>2. handler[r][s].step = "VALIDATION"  BY <1>1, StepOfCall DEF VeleroState, VeleroControl
<1>3. setting' = setting /\ ProceedTo(r, s, "validate_endpoints")  BY DEF ValidateNamespace, ProceedTo, GoOn
<1>4. Beside /\ up' = up /\ VeleroTypeOK'  BY <1>3, UnchangedIsBeside DEF ValidateNamespace, VeleroState
<1>5. "validate_endpoints" \in VeleroCalls["VALIDATION"]  BY VeleroCallsAre
<1>6. HandlerIsSound(r, s, At("VALIDATION", "validate_endpoints"))
  BY <1>5, PlainCallIsSound DEF Working, CallsAfterRestore
<1> QED BY <1>1, <1>2, <1>3, <1>4, <1>5, <1>6, ProceedStep

LEMMA ValidateEndpointsStep ==
  ASSUME VeleroState, VeleroInvariant, NEW r \in Runs, NEW s \in Slots, ValidateEndpoints(r, s)
  PROVE  VeleroTypeOK' /\ VeleroControl' /\ VeleroInvariant'
<1>1. Works(r, s) /\ handler[r][s].pc = "validate_endpoints"  BY AtIsWorking DEF ValidateEndpoints
<1>2. handler[r][s].step = "VALIDATION"  BY <1>1, StepOfCall DEF VeleroState, VeleroControl
<1>3. setting' = setting /\ Succeed(r, s) /\ up' = up  BY DEF ValidateEndpoints, Succeed
<1>4. Beside /\ VeleroTypeOK'
  <2> DEFINE level == IF setting.checks THEN "restricted" ELSE target[r].admission
             t == [target[r] EXCEPT !.admission = level]
  <2>1. target[r] \in TargetStates  BY DEF VeleroState, VeleroTypeOK
  <2>2. target' = [target EXCEPT ![r] = t]  BY DEF ValidateEndpoints
  <2>3. level \in {"none", "restricted"}  BY <2>1 DEF TargetStates
  <2> HIDE DEF level
  <2>4. t \in TargetStates /\ t.of = target[r].of /\ t.mapped = target[r].mapped /\ t.scaled = target[r].scaled
    BY <2>1, <2>3, TargetFields
  <2> HIDE DEF t
  <2> QED BY <1>3, <2>2, <2>4, TargetChangeIsBeside DEF ValidateEndpoints, VeleroState
<1> QED BY <1>1, <1>2, <1>3, <1>4, SuccessStep

LEMMA DeleteMappingsStep ==
  ASSUME VeleroState, VeleroInvariant, NEW r \in Runs, NEW s \in Slots, DeleteMappings(r, s)
  PROVE  VeleroTypeOK' /\ VeleroControl' /\ VeleroInvariant'
<1> DEFINE g == handler[r][s]
           owners == OwnersWithout(g.copy, r)
           next == At("RESTORE", "delete_target_staging")
<1>1. Works(r, s) /\ g.pc = "delete_mappings"  BY AtIsWorking DEF DeleteMappings
<1>2. g.step = "RESTORE" /\ g \in States /\ HandlerIsSound(r, s, g)
  BY <1>1, RestoreCall DEF CallsAfterRestore
<1>3. (Restored(r) \/ CanClean(r)) /\ Valid(target[r].of, r)
  BY <1>1, <1>2 DEF HandlerIsSound, RestoreHandlerIsSound, CallsAfterRestore
<1>4. /\ "read_owners" \in VeleroCalls["RESTORE"] /\ "delete_target_staging" \in VeleroCalls["RESTORE"]
      /\ "delete_target_staging" # "none"
  BY VeleroCallsAre DEF CallsAfterRestore
<1>5. CASE ProceedTo(r, s, "read_owners") /\ UNCHANGED veleroVars
  <2>1. setting' = setting  BY <1>5 DEF ProceedTo, GoOn
  <2>2. Beside /\ up' = up /\ VeleroTypeOK'  BY <1>5, <2>1, UnchangedIsBeside DEF VeleroState
  <2>3. RestoreHandlerIsSound(r, At("RESTORE", "read_owners"))
    BY <1>3, AtPc DEF RestoreHandlerIsSound
  <2> QED BY <1>1, <1>2, <1>4, <1>5, <2>2, <2>3, RestoreCallIsSound, ProceedStep
<1>7. CASE ProceedTo(r, s, "delete_target_staging") /\ UNCHANGED veleroVars
  <2>1. setting' = setting  BY <1>7 DEF ProceedTo, GoOn
  <2>2. Beside /\ up' = up /\ VeleroTypeOK'  BY <1>7, <2>1, UnchangedIsBeside DEF VeleroState
  <2>3. RestoreHandlerIsSound(r, At("RESTORE", "delete_target_staging"))
    BY <1>3, AtPc DEF RestoreHandlerIsSound
  <2> QED BY <1>1, <1>2, <1>4, <1>7, <2>2, <2>3, RestoreCallIsSound, ProceedStep
<1>8. CASE Refuse(r, s) /\ UNCHANGED veleroVars
  <2>1. setting' = setting  BY <1>8 DEF Refuse, ReturnError
  <2>2. Beside /\ up' = up /\ VeleroTypeOK'  BY <1>8, <2>1, UnchangedIsBeside DEF VeleroState
  <2> QED BY <1>1, <1>8, <2>2, RefuseStep
<1>6. CASE IsFresh(r, s) /\ WriteConfig(r, s, owners, "delete_target_staging")
  <2>1. /\ Control(VeleroCalls)' /\ setting' = setting /\ Staled(r, s, next) /\ job' = job
    BY <1>1, <1>2, <1>4, <1>6, WriteKeepsControl DEF VeleroState, VeleroControl
  <2>2. owners \in SUBSET (Runs \X Classes)
    BY <1>2 DEF States, HandlerStates, OwnersWithout
  <2>3. /\ config'.owners = owners /\ config'.data = Merged(owners)
        /\ VeleroTypeOK' /\ up' = up /\ Steady
    BY <1>6, <2>1, <2>2, WrittenConfig DEF VeleroState
  <2>4. owners = OwnersWithout(config.owners, r)
    <3>1. g.fresh => g.copy = config.owners  BY DEF VeleroInvariant, HandlerIsSound
    <3>2. config = NoConfig => config.owners = {}  BY DEF NoConfig
    <3>3. g.copy = config.owners  BY <1>6, <3>1, <3>2 DEF IsFresh
    <3> QED BY <3>3
  <2>5. next.step = "RESTORE" /\ next.pc = "delete_target_staging" /\ ~next.fresh  BY DEF At
  <2>6. \A q \in Runs, t \in Slots : handler'[q][t].step = handler[q][t].step
    BY <1>2, <2>1, <2>5 DEF Staled
  <2>7. \A q \in Runs : Advances(q)  BY <2>1 DEF Advances, Reached, Over, Ended
  <2>8. GhostsStay  BY <2>6 DEF GhostsStay, Slots
  <2>9. \A q \in Runs : IsAfterBackup(q)' => IsAfterBackup(q)  BY <2>1, <2>6 DEF IsAfterBackup
  <2>10. HandlerIsSound(r, s, next)
    <3>1. RestoreHandlerIsSound(r, next)  BY <1>3, AtPc DEF RestoreHandlerIsSound
    <3> QED BY <3>1, RestoreCallIsSound
  <2> HIDE DEF g, owners, next
  <2>11. \A q \in Runs, t \in Slots :
           /\ BackupHandlerIsSound(q, t, handler'[q][t]) /\ RestoreHandlerIsSound(q, handler'[q][t])
           /\ handler'[q][t].fresh => handler'[q][t].copy = config'.owners
    <3> SUFFICES ASSUME NEW q \in Runs, NEW t \in Slots
                 PROVE  /\ BackupHandlerIsSound(q, t, handler'[q][t]) /\ RestoreHandlerIsSound(q, handler'[q][t])
                        /\ handler'[q][t].fresh => handler'[q][t].copy = config'.owners
      OBVIOUS
    <3>1. CASE q = r /\ t = s
      BY <2>1, <2>5, <2>10, <3>1 DEF Staled, HandlerIsSound
    <3>2. CASE q # r \/ t # s
      <4>1. HandlerIsSound(q, t, handler[q][t])  BY DEF VeleroInvariant
      <4>2. BackupHandlerIsSound(q, t, handler'[q][t])
        BY <2>1, <3>2, <4>1 DEF Staled, HandlerIsSound, BackupHandlerIsSound
      <4>3. RestoreHandlerIsSound(q, handler'[q][t])
        BY <2>1, <3>2, <4>1 DEF Staled, HandlerIsSound, RestoreHandlerIsSound
      <4> QED BY <2>1, <3>2, <4>2, <4>3 DEF Staled
    <3> QED BY <3>1, <3>2
  <2>12. \A q \in Runs : job'[q].step \in StepsAfterBackup \cup {"FINAL_BACKUP", "COMPLETED"} => ~up'[q]
    BY <2>1, <2>3 DEF VeleroInvariant, TransferIsSound
  <2>13. ConfigIsSound'
    <3>0. ConfigIsSound  BY DEF VeleroInvariant
    <3>1. IsProfile(config.data)' /\ config'.data = Merged(config.owners)'
      <4>1. Merged(owners) \subseteq config.data  BY <2>4, <3>0 DEF ConfigIsSound, Merged, OwnersWithout
      <4>2. IsProfile(Merged(owners))  BY <3>0, <4>1 DEF ConfigIsSound, IsProfile
      <4> QED BY <2>3, <4>2 DEF IsProfile, Merged
    <3>2. ASSUME NEW q \in Runs, Restores(q)' PROVE (Annotated(q) \/ Restored(q) \/ CanClean(q))'
      <4>0. setting' = setting /\ restores' = restores /\ RestoreOf(q)' = RestoreOf(q)
        BY <2>3, NamesAreRuns DEF Steady, RestoreOf, BackupName
      <4>1. Restored(q) => Restored(q)'  BY <4>0 DEF Restored
      <4>2. CanClean(q) => CanClean(q)'  BY <2>7, <4>0 DEF Advances, CanClean
      <4>3. CASE q = r  BY <1>3, <4>1, <4>2, <4>3
      <4>4. CASE q # r
        <5>1. Restores(q)  BY <2>1, <2>6, <3>2, <4>0 DEF Restores
        <5>2. Annotated(q) \/ Restored(q) \/ CanClean(q)  BY <3>0, <5>1 DEF ConfigIsSound
        <5>3. Annotated(q) => Annotated(q)'
          <6>1. Annotated(q) => \A pair \in Profile(q) : <<q, pair>> \in owners
            BY <2>4, <4>4, OthersKeepMappings
          <6> QED BY <2>3, <4>0, <6>1 DEF Annotated, Profile
        <5> QED BY <4>1, <4>2, <5>2, <5>3
      <4> QED BY <4>3, <4>4
    <3> QED BY <3>1, <3>2 DEF ConfigIsSound, IsProfile, Merged
  <2>14. VeleroInvariant'
    BY <2>3, <2>7, <2>8, <2>9, <2>11, <2>12, <2>13, SteadyStep DEF VeleroState
  <2> QED BY <2>1, <2>3, <2>14 DEF VeleroState, VeleroControl, IsCompose
<1> QED BY <1>5, <1>6, <1>7, <1>8, <1>2 DEF DeleteMappings

LEMMA CallFailsStep ==
  ASSUME VeleroState, VeleroInvariant, NEW r \in Runs, NEW s \in Slots, VeleroCallFails(r, s)
  PROVE  VeleroTypeOK' /\ VeleroControl' /\ VeleroInvariant'
<1> DEFINE h == At(handler[r][s].step, "unwind")
<1>1. Works(r, s) /\ setting' = setting  BY DEF VeleroCallFails, ReturnError
<1>2. failures' \in 0..MaxFaults
  BY FaultIsBounded DEF VeleroCallFails, VeleroState, VeleroControl, Control
<1>3. Beside /\ up' = up /\ VeleroTypeOK'  BY <1>1, UnchangedIsBeside DEF VeleroCallFails, VeleroState
<1>4. CASE ReturnError(r, s)  BY <1>1, <1>2, <1>3, <1>4, ErrorStep
<1>5. CASE ~ReturnError(r, s)
  <2>1. Unwinds(r, s) /\ handler' = [handler EXCEPT ![r][s] = h] /\ UNCHANGED <<setting, job>>
    BY <1>5 DEF VeleroCallFails
  <2>2. handler[r][s].step \in {"PRESYNC", "FINAL_BACKUP"} /\ (handler[r][s].step = "FINAL_BACKUP" => Reached(r))
    BY <1>1, <2>1, StepOfCall, HandlerFacts DEF Unwinds, BackupCalls, VeleroState, VeleroControl
  <2>3. "unwind" \in VeleroCalls[handler[r][s].step] /\ handler[r][s].step \in Working
    BY <2>2, VeleroCallsAre DEF BackupCalls, Working
  <2>4. HandlerIsSound(r, s, h)
    BY <2>2, <2>3, PlainCallIsSound DEF CallsAfterRestore
  <2>5. "unwind" \in AllCalls  BY <2>3, CallsAre DEF IsCalls
  <2>6. h \in States /\ h.step = handler[r][s].step /\ h.pc = "unwind"  BY <2>3, <2>5, AtIsTyped
  <2>7. Goes(r, s, h)  BY <1>2, <2>1 DEF Goes
  <2> HIDE DEF h
  <2> QED BY <1>1, <1>3, <2>3, <2>4, <2>6, <2>7, GoesStep
<1> QED BY <1>4, <1>5

-----------------------------------------------------------------------------
(***************************************************************************)
(* Workers, leases and cancellations.                                      *)
(***************************************************************************)
LEMMA ClaimKeepsControl ==
  ASSUME NEW CONSTANT calls, IsCalls(calls), Control(calls), NEW r \in Runs, NEW pc,
         ClaimJob(r, pc), pc \in calls[job[r].step]
  PROVE  /\ Control(calls)' /\ Sets(r, "current", At(job[r].step, pc)) /\ setting' = setting
         /\ job[r].step \in Working
         /\ \A q \in Runs : job'[q].step = job[q].step
<1>1. job[r].step \in Working
  BY StepsAre DEF ClaimJob, Claims, Control, HandlersTypeOK, Ends
<1>2. pc \in AllCalls /\ job[r].step \in DOMAIN calls  BY <1>1 DEF IsCalls
<1>3. At(job[r].step, pc) \in States /\ At(job[r].step, pc).step = job[r].step /\ At(job[r].step, pc).pc = pc
  BY <1>1, <1>2, AtIsTyped
<1>4. handler' = [handler EXCEPT ![r]["current"] = At(job[r].step, pc)]  BY DEF ClaimJob
<1>5. handler' \in [Runs -> [Slots -> States]] /\ Sets(r, "current", At(job[r].step, pc))
  BY <1>3, <1>4, SetsIsTyped DEF Control, Slots
<1>6. /\ job' \in [Runs -> [step : Steps, attempt : 0..MaxAttempts]]
      /\ \A q \in Runs : job'[q].step = job[q].step
  BY HandlersAssumption DEF ClaimJob, Control, HandlersTypeOK
<1>7. HandlersTypeOK(AllCalls)'
  BY <1>5, <1>6 DEF Control, HandlersTypeOK, States, ClaimJob
<1>8. HandlersFollow(calls)'
  BY <1>2, <1>3, <1>5, <1>6 DEF Sets, HandlersFollow, Control, Slots
<1> QED BY <1>1, <1>5, <1>6, <1>7, <1>8 DEF Control, ClaimJob

LEMMA DropKeepsControl ==
  ASSUME NEW CONSTANT calls, IsCalls(calls), Control(calls), NEW r \in Runs, WorkerDies(r)
  PROVE  Control(calls)' /\ Sets(r, "current", Idle) /\ setting' = setting /\ job' = job
<1>1. handler' = [handler EXCEPT ![r]["current"] = Idle] /\ setting' = setting /\ job' = job
  BY DEF WorkerDies
<1>2. failures' \in 0..MaxFaults  BY FaultIsBounded DEF WorkerDies, Control
<1>3. job' \in [Runs -> [step : Steps, attempt : 0..MaxAttempts]]  BY <1>1 DEF Control, HandlersTypeOK
<1>4. OthersKeepJobs(r)  BY <1>1 DEF OthersKeepJobs
<1> QED BY <1>1, <1>2, <1>3, <1>4, ReturnKeepsControl DEF Slots

\* The current handler goes on as the ghost, and the job is its own or cancelled.
Leaves(r) ==
  /\ handler'[r]["current"] = Idle /\ handler'[r]["ghost"] = handler[r]["current"]
  /\ \A q \in Runs : q # r => handler'[q] = handler[q] /\ job'[q] = job[q]

LEMMA LeaveKeepsControl ==
  ASSUME NEW CONSTANT calls, IsCalls(calls), Control(calls), NEW r \in Runs, Overtake(r) \/ CancelRun(r)
  PROVE  /\ Control(calls)' /\ Leaves(r) /\ setting' = setting
         /\ \/ Overtake(r) /\ job' = job
            \/ RequiresRollback(job[r].step) /\ job'[r].step = "ROLLBACK"
<1>1. LeaveToGhost(r) /\ setting' = setting  BY DEF Overtake, CancelRun
<1>2. failures' \in 0..MaxFaults  BY FaultIsBounded DEF Overtake, CancelRun, Control
<1>3. handler' \in [Runs -> [Slots -> States]] /\ handler'[r]["current"] = Idle
      /\ handler'[r]["ghost"] = handler[r]["current"] /\ \A q \in Runs : q # r => handler'[q] = handler[q]
  BY <1>1, IdleIsTyped DEF LeaveToGhost, Control, HandlersTypeOK, States, Slots
<1>4. /\ job' \in [Runs -> [step : Steps, attempt : 0..MaxAttempts]]
      /\ \A q \in Runs : q # r => job'[q] = job[q]
      /\ \/ Overtake(r) /\ job' = job
         \/ RequiresRollback(job[r].step) /\ job'[r].step = "ROLLBACK"
  BY StepsAre, HandlersAssumption DEF Overtake, CancelRun, Control, HandlersTypeOK
<1>5. HandlersTypeOK(AllCalls)'  BY <1>2, <1>3, <1>4 DEF HandlersTypeOK, States
<1>6. HandlersFollow(calls)'
  BY <1>3, <1>4, IdleIsTyped DEF HandlersFollow, Control, IsCalls, Slots
<1> QED BY <1>1, <1>3, <1>4, <1>5, <1>6 DEF Control, Leaves

LEMMA FirstCallIsSound ==
  ASSUME ~IsCompose, NEW r \in Runs, NEW step \in Working, step = "FINAL_BACKUP" => Reached(r)
  PROVE  /\ FirstCallOf(step) \in VeleroCalls[step]
         /\ HandlerIsSound(r, "current", At(step, FirstCallOf(step)))
<1>1. /\ FirstCall(step) \in VeleroCalls[step]
      /\ FirstCall(step) \in {"preflight", "list_pods", "quiesce", "verify_transfer", "read_mappings", "await_sync",
                              "validate_namespace"}
  BY VeleroCallsAre DEF FirstCall, Working, BackupCalls
<1>2. HandlerIsSound(r, "current", At(step, FirstCall(step)))
  BY <1>1, PlainCallIsSound DEF Slots, CallsAfterRestore
<1> QED BY <1>1, <1>2 DEF FirstCallOf

LEMMA ProcessOneStep ==
  ASSUME VeleroState, VeleroInvariant, NEW r \in Runs, ProcessOne(r)
  PROVE  VeleroTypeOK' /\ VeleroControl' /\ VeleroInvariant'
<1> DEFINE h == At(job[r].step, FirstCallOf(job[r].step))
<1>1. ClaimJob(r, FirstCallOf(job[r].step)) /\ setting' = setting  BY DEF ProcessOne, ClaimJob
<1>2. job[r].step \in Working
  BY <1>1, StepsAre DEF ClaimJob, Claims, VeleroState, VeleroControl, Control, HandlersTypeOK, Ends
<1>3. /\ FirstCallOf(job[r].step) \in VeleroCalls[job[r].step] /\ HandlerIsSound(r, "current", h)
  BY <1>2, FirstCallIsSound DEF Reached, StepsBeforeBackup, VeleroState, VeleroControl
<1>4. Control(VeleroCalls)' /\ Sets(r, "current", h) /\ \A q \in Runs : job'[q].step = job[q].step
  BY <1>1, <1>3, ClaimKeepsControl, CallsAre DEF VeleroState, VeleroControl
<1>5. h.step = job[r].step  BY DEF At
<1>6. Beside /\ up' = up /\ VeleroTypeOK'  BY <1>1, UnchangedIsBeside DEF ProcessOne, VeleroState
<1> HIDE DEF h
<1>7. \A q \in Runs : Advances(q)  BY <1>4 DEF Advances, Reached, Over, Ended
<1>8. \A q \in Runs, t \in Slots :
        /\ BackupHandlerIsSound(q, t, handler'[q][t]) /\ RestoreHandlerIsSound(q, handler'[q][t])
        /\ handler'[q][t].fresh => handler'[q][t].copy = config'.owners
  BY <1>3, <1>4, <1>6 DEF Sets, VeleroInvariant, HandlerIsSound, Beside
<1>9. \A q \in Runs : job'[q].step \in StepsAfterBackup \cup {"FINAL_BACKUP", "COMPLETED"} => ~up'[q]
  BY <1>4, <1>6 DEF VeleroInvariant, TransferIsSound
<1>10. \A q \in Runs : IsAfterBackup(q)' => IsAfterBackup(q)
  BY <1>4, <1>5 DEF IsAfterBackup, Sets
<1>11. \A q \in Runs : Restores(q)' => Restores(q)
  BY <1>4, <1>5, <1>6 DEF Restores, Sets, RestoreOf, BackupName, Beside, Steady
<1>12. GhostsStay  BY <1>4 DEF Sets, Slots, GhostsStay
<1>13. ConfigIsSound'  BY <1>6, <1>7, <1>11, <1>12, ConfigStays DEF Beside
<1>14. VeleroInvariant'
  BY <1>6, <1>7, <1>8, <1>9, <1>10, <1>12, <1>13, SteadyStep DEF VeleroState, Beside
<1> QED BY <1>1, <1>4, <1>6, <1>14 DEF VeleroState, VeleroControl, IsCompose

LEMMA WorkerDiesStep ==
  ASSUME VeleroState, VeleroInvariant, NEW r \in Runs, WorkerDies(r), UNCHANGED veleroVars
  PROVE  VeleroTypeOK' /\ VeleroControl' /\ VeleroInvariant'
<1>4. Control(VeleroCalls)' /\ Sets(r, "current", Idle) /\ setting' = setting /\ job' = job
  BY DropKeepsControl, CallsAre DEF VeleroState, VeleroControl
<1>6. Beside /\ up' = up /\ VeleroTypeOK'  BY <1>4, UnchangedIsBeside DEF VeleroState
<1>7. \A q \in Runs : Advances(q)  BY <1>4 DEF Advances, Reached, Over, Ended
<1>8. \A q \in Runs, t \in Slots :
        /\ BackupHandlerIsSound(q, t, handler'[q][t]) /\ RestoreHandlerIsSound(q, handler'[q][t])
        /\ handler'[q][t].fresh => handler'[q][t].copy = config'.owners
  BY <1>4, <1>6, IdleIsSound, IdleIsTyped DEF Sets, VeleroInvariant, HandlerIsSound, Beside
<1>9. \A q \in Runs : job'[q].step \in StepsAfterBackup \cup {"FINAL_BACKUP", "COMPLETED"} => ~up'[q]
  BY <1>4, <1>6 DEF VeleroInvariant, TransferIsSound
<1>10. \A q \in Runs : IsAfterBackup(q)' => IsAfterBackup(q)
  BY <1>4, IdleIsTyped DEF IsAfterBackup, Sets, StepsAfterBackup
<1>11. \A q \in Runs : Restores(q)' => Restores(q)
  BY <1>4, <1>6, IdleIsTyped DEF Restores, Sets, RestoreOf, BackupName, Beside, Steady
<1>12. GhostsStay  BY <1>4 DEF Sets, Slots, GhostsStay
<1>13. ConfigIsSound'  BY <1>6, <1>7, <1>11, <1>12, ConfigStays DEF Beside
<1>14. VeleroInvariant'
  BY <1>6, <1>7, <1>8, <1>9, <1>10, <1>12, <1>13, SteadyStep DEF VeleroState, Beside
<1> QED BY <1>4, <1>6, <1>14 DEF VeleroState, VeleroControl, IsCompose

LEMMA LeaveStep ==
  ASSUME VeleroState, VeleroInvariant, NEW r \in Runs, Overtake(r) \/ CancelRun(r), UNCHANGED veleroVars
  PROVE  VeleroTypeOK' /\ VeleroControl' /\ VeleroInvariant'
<1>4. /\ Control(VeleroCalls)' /\ Leaves(r) /\ setting' = setting
      /\ \/ Overtake(r) /\ job' = job
         \/ RequiresRollback(job[r].step) /\ job'[r].step = "ROLLBACK"
  BY LeaveKeepsControl, CallsAre DEF VeleroState, VeleroControl
<1>5. ~Ended(r) /\ ~Over(r)
  <2>1. CASE Overtake(r)
    <3>1. job[r].step \in Working
      BY <2>1, WorksAtAStep, CallsAre DEF Overtake, VeleroState, VeleroControl, Slots
    <3> QED BY <3>1 DEF Ended, Over, Ends, Working
  <2>2. CASE RequiresRollback(job[r].step)
    BY <2>2 DEF RequiresRollback, Ended, Over, Ends
  <2> QED BY <1>4, <2>1, <2>2
<1>6. Beside /\ up' = up /\ VeleroTypeOK'  BY <1>4, UnchangedIsBeside DEF VeleroState
<1>7. ASSUME NEW q \in Runs PROVE Advances(q)
  BY <1>4 DEF Advances, Reached, Over, Ended, Leaves, Ends, RequiresRollback, StepsBeforeBackup
<1>8. \A q \in Runs, t \in Slots :
        /\ BackupHandlerIsSound(q, t, handler'[q][t]) /\ RestoreHandlerIsSound(q, handler'[q][t])
        /\ handler'[q][t].fresh => handler'[q][t].copy = config'.owners
  <2>1. ASSUME NEW t \in Slots
        PROVE  /\ BackupHandlerIsSound(r, t, handler'[r][t]) /\ RestoreHandlerIsSound(r, handler'[r][t])
               /\ handler'[r][t].fresh => handler'[r][t].copy = config'.owners
    <3>1. CASE t = "current"
      BY <1>4, <3>1, IdleIsSound, IdleIsTyped DEF Leaves, HandlerIsSound
    <3>2. CASE t = "ghost"
      <4>1. HandlerIsSound(r, "current", handler[r]["current"])  BY DEF VeleroInvariant, Slots
      <4>2. HandlerIsSound(r, "ghost", handler[r]["current"])  BY <4>1 DEF HandlerIsSound, BackupHandlerIsSound
      <4> QED BY <1>4, <1>6, <3>2, <4>2 DEF Leaves, HandlerIsSound, Beside
    <3> QED BY <3>1, <3>2 DEF Slots
  <2>2. ASSUME NEW q \in Runs, q # r, NEW t \in Slots
        PROVE  /\ BackupHandlerIsSound(q, t, handler'[q][t]) /\ RestoreHandlerIsSound(q, handler'[q][t])
               /\ handler'[q][t].fresh => handler'[q][t].copy = config'.owners
    BY <1>4, <1>6, <2>2 DEF Leaves, VeleroInvariant, HandlerIsSound, Beside
  <2> QED BY <2>1, <2>2
<1>9. \A q \in Runs : job'[q].step \in StepsAfterBackup \cup {"FINAL_BACKUP", "COMPLETED"} => ~up'[q]
  BY <1>4, <1>6 DEF VeleroInvariant, TransferIsSound, Leaves, StepsAfterBackup
<1>10. ASSUME NEW q \in Runs PROVE IsAfterBackup(q)' => IsAfterBackup(q)
  BY <1>4, IdleIsTyped DEF IsAfterBackup, Leaves, StepsAfterBackup, Slots
<1>11. ASSUME NEW q \in Runs PROVE Restores(q)' => Restores(q)
  <2>1. RestoreOf(q)' = RestoreOf(q)  BY <1>6 DEF RestoreOf, BackupName, Beside, Steady
  <2> QED BY <1>4, <2>1, IdleIsTyped DEF Restores, Leaves, Slots
<1>12. GhostsStay  BY <1>4, <1>5 DEF Leaves, Slots, GhostsStay
<1>13. ConfigIsSound'  BY <1>6, <1>7, <1>11, <1>12, ConfigStays DEF Beside
<1>14. VeleroInvariant'
  BY <1>6, <1>7, <1>8, <1>9, <1>10, <1>12, <1>13, SteadyStep DEF VeleroState, Beside
<1> QED BY <1>4, <1>6, <1>14 DEF VeleroState, VeleroControl, IsCompose

\* A rollback starts the source again and ends the run.
LEMMA RollbackKeepsControl ==
  ASSUME NEW CONSTANT calls, IsCalls(calls), Control(calls), NEW r \in Runs, job[r].step = "ROLLBACK",
         job' = [job EXCEPT ![r].step = "FAILED"], UNCHANGED <<setting, handler>>, failures' \in 0..MaxFaults
  PROVE  /\ Control(calls)' /\ OthersKeepJobs(r) /\ job'[r].step = "FAILED"
<1>1. /\ job' \in [Runs -> [step : Steps, attempt : 0..MaxAttempts]]
      /\ OthersKeepJobs(r) /\ job'[r].step = "FAILED"
  BY StepsAre DEF Control, HandlersTypeOK, OthersKeepJobs
<1>2. handler[r].current.step = "ABSENT"
  <2>1. handler[r].current.step \in {"ABSENT", "ROLLBACK"}  BY DEF Control, HandlersFollow
  <2>2. handler[r].current.step \in DOMAIN calls  BY DEF Control, HandlersFollow, Slots
  <2> QED BY <2>1, <2>2 DEF IsCalls, Working
<1>3. HandlersTypeOK(AllCalls)'  BY <1>1 DEF HandlersTypeOK, Control
<1>4. HandlersFollow(calls)'  BY <1>1, <1>2 DEF HandlersFollow, Control, OthersKeepJobs
<1> QED BY <1>1, <1>3, <1>4 DEF Control

LEMMA VeleroRollbackStep ==
  ASSUME VeleroState, VeleroInvariant, NEW r \in Runs, VeleroRollback(r)
  PROVE  VeleroTypeOK' /\ VeleroControl' /\ VeleroInvariant'
<1>1. Control(VeleroCalls)' /\ OthersKeepJobs(r) /\ job'[r].step = "FAILED" /\ setting' = setting /\ handler' = handler
  <2>1. failures' \in 0..MaxFaults
    BY FaultIsBounded DEF VeleroRollback, VeleroState, VeleroControl, Control
  <2> QED BY <2>1, RollbackKeepsControl, CallsAre DEF VeleroRollback, VeleroState, VeleroControl
<1>2. /\ UNCHANGED <<backups, synced, restores, config, target, unwound>> /\ job[r].step = "ROLLBACK"
      /\ up' \in [Runs -> BOOLEAN] /\ staging' \in [Runs -> SUBSET Volumes]
      /\ \A q \in Runs : q # r => up'[q] = up[q] /\ staging'[q] = staging[q]
  <2>1. up \in [Runs -> BOOLEAN] /\ staging \in [Runs -> SUBSET Volumes]  BY DEF VeleroState, VeleroTypeOK
  <2>2. UNCHANGED <<backups, synced, restores, config, target, unwound>> /\ job[r].step = "ROLLBACK"
    BY DEF VeleroRollback
  <2>3. up' = [up EXCEPT ![r] = TRUE] \/ up' = up  BY DEF VeleroRollback
  <2>4. \/ \E left \in {{}, staging[r]} : staging' = [staging EXCEPT ![r] = left]
        \/ staging' = staging
    BY DEF VeleroRollback
  <2>5. staging' \in [Runs -> SUBSET Volumes] /\ \A q \in Runs : q # r => staging'[q] = staging[q]
    BY <2>1, <2>4
  <2> QED BY <2>1, <2>2, <2>3, <2>5
<1>3. VeleroTypeOK'  BY <1>2 DEF VeleroState, VeleroTypeOK
<1>6. Beside
  <2>1. Over(r)'  BY <1>1 DEF Over, Ends
  <2>2. ASSUME NEW q \in Runs PROVE StagingStays(q)
    BY <1>2, <2>1 DEF StagingStays
  <2> QED BY <1>1, <1>2, <2>2 DEF Beside, Steady, TargetStays
<1>7. ASSUME NEW q \in Runs PROVE Advances(q)
  BY <1>1, <1>2 DEF Advances, Reached, Over, Ended, OthersKeepJobs, Ends, StepsBeforeBackup
<1>8. \A q \in Runs, t \in Slots :
        /\ BackupHandlerIsSound(q, t, handler'[q][t]) /\ RestoreHandlerIsSound(q, handler'[q][t])
        /\ handler'[q][t].fresh => handler'[q][t].copy = config'.owners
  BY <1>1, <1>2 DEF VeleroInvariant, HandlerIsSound
<1>9. ASSUME NEW q \in Runs PROVE job'[q].step \in StepsAfterBackup \cup {"FINAL_BACKUP", "COMPLETED"} => ~up'[q]
  BY <1>1, <1>2 DEF VeleroInvariant, TransferIsSound, OthersKeepJobs, StepsAfterBackup, VeleroState, VeleroTypeOK
<1>10. ASSUME NEW q \in Runs PROVE IsAfterBackup(q)' => IsAfterBackup(q)
  BY <1>1 DEF IsAfterBackup, OthersKeepJobs, StepsAfterBackup
<1>11. ASSUME NEW q \in Runs PROVE Restores(q)' => Restores(q)
  BY <1>1, <1>2 DEF Restores, OthersKeepJobs, RestoreOf, BackupName
<1>12. GhostsStay  BY <1>1 DEF GhostsStay
<1>13. ConfigIsSound'  BY <1>6, <1>7, <1>11, <1>12, ConfigStays DEF Beside
<1>14. VeleroInvariant'
  BY <1>3, <1>6, <1>7, <1>8, <1>9, <1>10, <1>12, <1>13, SteadyStep DEF VeleroState, Beside
<1> QED BY <1>1, <1>3, <1>14 DEF VeleroState, VeleroControl, IsCompose

-----------------------------------------------------------------------------
(***************************************************************************)
(* Backups of the source cluster.                                          *)
(***************************************************************************)
\* What is left to show of a step that changes backups, and the calls of handlers.
LEMMA BackupsStep ==
  ASSUME VeleroInvariant, UNCHANGED <<setting, job, up, synced, restores, config, target, unwound>>,
         \A n \in Runs : BackupIsSound(n)' /\ SyncIsSound(n)',
         \A q \in Runs : Restorable(q) => Restorable(q)',
         \A q \in Runs, s \in Slots : handler'[q][s].step = handler[q][s].step,
         \A q \in Runs, s \in Slots :
           /\ BackupHandlerIsSound(q, s, handler[q][s])' /\ RestoreHandlerIsSound(q, handler'[q][s])
           /\ handler'[q][s].fresh => handler'[q][s].copy = config.owners,
         \A q \in Runs : IsAfterBackup(q) => (Valid(Final(q), q) \/ Gone(q))'
  PROVE  VeleroInvariant'
<1>0. \A q \in Runs : Synced(q)' = Synced(q) /\ RestoreOf(q)' = RestoreOf(q)
  BY DEF Synced, RestoreOf, BackupName
<1>1. ASSUME NEW q \in Runs, NEW s \in Slots PROVE HandlerIsSound(q, s, handler[q][s])'
  <2>1. RestoreHandlerIsSound(q, handler[q][s])'
    <3>1. RestoreHandlerIsSound(q, handler'[q][s])  OBVIOUS
    <3>2. Restorable(q) => Restorable(q)'  OBVIOUS
    <3>3. (Restored(q) => Restored(q)') /\ (CanClean(q) => CanClean(q)')
          /\ (Valid(target[q].of, q) => Valid(target[q].of, q)')
      BY <1>0 DEF Restored, Valid, HasAll, CanClean, Ended
    <3> QED BY <1>0, <3>1, <3>2, <3>3 DEF RestoreHandlerIsSound
  <2> QED BY <2>1 DEF HandlerIsSound
<1>2. ASSUME NEW q \in Runs PROVE TransferIsSound(q)' /\ TargetIsSound(q)'
  <2>0. TransferIsSound(q) /\ TargetIsSound(q)  BY DEF VeleroInvariant
  <2>1. IsAfterBackup(q)' => IsAfterBackup(q)  BY DEF IsAfterBackup
  <2>2. TransferIsSound(q)'
    BY <1>0, <2>0, <2>1 DEF TransferIsSound, Valid, HasAll
  <2>3. TargetIsSound(q)'
    BY <2>0 DEF TargetIsSound, Valid, HasAll, Profile, NoBackup, Backup, Ended
  <2> QED BY <2>2, <2>3
<1>3. ASSUME NEW n \in Runs PROVE RestoreIsSound(n)'
  <2>1. RestoreIsSound(n)  BY DEF VeleroInvariant
  <2>2. ASSUME NEW q \in Runs, q = restores[n].owner, Restorable(restores[n].owner)
        PROVE  Restorable(restores[n].owner)'
    <3>1. Restorable(q)'  BY <2>2
    <3>2. q = restores'[n].owner  BY <2>2
    <3> QED BY <3>1, <3>2, RestorableOwner
  <2> QED BY <2>1, <2>2 DEF RestoreIsSound, BackupName, Valid, HasAll, Profile, Ended
<1>4. ConfigIsSound'
  <2>1. ConfigIsSound  BY DEF VeleroInvariant
  <2>2. ASSUME NEW q \in Runs, Restores(q)' PROVE (Annotated(q) \/ Restored(q) \/ CanClean(q))'
    <3>1. Restores(q)  BY <1>0, <2>2 DEF Restores
    <3>2. Annotated(q) \/ Restored(q) \/ CanClean(q)  BY <2>1, <3>1 DEF ConfigIsSound
    <3>3. (Restored(q) => Restored(q)') /\ (Annotated(q) => Annotated(q)') /\ (CanClean(q) => CanClean(q)')
      BY <1>0 DEF Restored, Annotated, Profile, CanClean, Ended
    <3> QED BY <3>2, <3>3
  <2> QED BY <2>1, <2>2 DEF ConfigIsSound, IsProfile, Merged
<1> QED BY <1>1, <1>2, <1>3, <1>4 DEF VeleroInvariant

\* What a cluster does on its own: no handler, job or source changes.
ClustersAct == /\ UNCHANGED <<setting, job, handler, up, staging, unwound>>
               /\ failures' \in 0..MaxFaults

LEMMA ClustersKeepControl ==
  ASSUME VeleroState, ClustersAct
  PROVE  VeleroControl'
BY DEF VeleroState, VeleroControl, ClustersAct, Control, HandlersTypeOK, HandlersFollow, IsCompose

BackupsAre(name, b) ==
  \A n \in Runs : backups'[n].final = IF n = name THEN b ELSE backups[n].final

\* Velero goes on with a final backup.
LEMMA BackupMoves ==
  ASSUME VeleroState, VeleroInvariant, ClustersAct, UNCHANGED <<synced, restores, config, target>>,
         NEW name \in Runs, NEW b, BackupsAre(name, b),
         backups[name].final.phase \in {"New", "InProgress"}, b.owner = backups[name].final.owner,
         b.phase \in {"InProgress", "Completed", "PartiallyFailed", "Failed"},
         b.phase \in {"InProgress", "Completed"} =>
           Over(b.owner) \/ (b.stopped /\ HasAll(b, b.owner))
  PROVE  VeleroInvariant'
<1> DEFINE a == backups[name].final
<1>0. UNCHANGED <<setting, job, handler, up, staging, unwound>>  BY DEF ClustersAct
<1>1. ASSUME NEW q \in Runs
      PROVE  Final(q)' = IF BackupName(q) = name THEN b ELSE Final(q)
  BY <1>0, NamesAreRuns DEF Final, BackupsAre, BackupName
<1>2. ASSUME NEW q \in Runs, BackupName(q) = name PROVE Final(q) = a
  BY <1>2 DEF Final
<1>3. ASSUME NEW q \in Runs, Gone(q) PROVE Gone(q)'
  BY <1>0, <1>1, <1>2, <1>3 DEF Gone, Ended
<1>9. ASSUME NEW q \in Runs, Restorable(q) PROVE Restorable(q)'
  <2>1. CASE Valid(Synced(q), q)  BY <1>0, <2>1 DEF Restorable, Synced, BackupName, Valid, HasAll
  <2>2. CASE Gone(q)  BY <1>3, <2>2 DEF Restorable
  <2>3. CASE Dropped(q)
    <3>1. BackupName(q) # name  BY <1>2, <2>3 DEF Valid, Dropped
    <3> QED BY <1>0, <1>1, <2>3, <3>1 DEF Restorable, Dropped, Synced, BackupName, Valid, HasAll, Ended
  <2> QED BY <1>9, <2>1, <2>2, <2>3 DEF Restorable
<1>4. ASSUME NEW q \in Runs, NEW s \in Slots PROVE BackupHandlerIsSound(q, s, handler[q][s])'
  <2>1. BackupHandlerIsSound(q, s, handler[q][s])  BY DEF VeleroInvariant, HandlerIsSound
  <2>2. CASE BackupName(q) # name
    BY <1>0, <1>1, <2>1, <2>2 DEF BackupHandlerIsSound, Reached, Staged, Over
  <2>3. CASE BackupName(q) = name
    <3>1. Final(q) = a /\ Final(q)' = b  BY <1>1, <1>2, <2>3
    <3> QED BY <1>0, <2>1, <3>1 DEF BackupHandlerIsSound, Reached
  <2> QED BY <2>2, <2>3
<1>5. ASSUME NEW q \in Runs, NEW s \in Slots
      PROVE  /\ RestoreHandlerIsSound(q, handler'[q][s])
             /\ handler'[q][s].fresh => handler'[q][s].copy = config.owners
  BY <1>0 DEF VeleroInvariant, HandlerIsSound
<1>6. ASSUME NEW q \in Runs, IsAfterBackup(q) PROVE (Valid(Final(q), q) \/ Gone(q))'
  <2>1. Valid(Final(q), q) \/ Gone(q)  BY <1>6 DEF VeleroInvariant, TransferIsSound
  <2>2. BackupName(q) # name  BY <1>2, <2>1 DEF Valid, Gone
  <2>3. Valid(Final(q), q) => Valid(Final(q), q)'  BY <1>0, <1>1, <2>2 DEF Valid, HasAll
  <2> QED BY <1>3, <2>1, <2>3
<1>7. ASSUME NEW n \in Runs PROVE BackupIsSound(n)'
  <2>1. BackupIsSound(n)  BY DEF VeleroInvariant
  <2>2. CASE n # name
    BY <1>0, <2>1, <2>2 DEF BackupIsSound, BackupsAre, BackupName, Reached, Staged, Over, HasAll
  <2>3. CASE n = name
    <3>1. backups'[n].final = b  BY <2>3 DEF BackupsAre
    <3>2. b.owner \in Runs /\ BackupName(b.owner) = name /\ Reached(b.owner)  BY <2>1, <2>3 DEF BackupIsSound
    <3> QED BY <1>0, <2>3, <3>1, <3>2 DEF BackupIsSound, BackupName, Reached, Over, HasAll
  <2> QED BY <2>2, <2>3
<1>8. ASSUME NEW n \in Runs PROVE SyncIsSound(n)'
  <2>1. SyncIsSound(n)  BY DEF VeleroInvariant
  <2>2. CASE n # name
    BY <1>0, <2>1, <2>2 DEF SyncIsSound, BackupsAre, BackupName, Ended
  <2>3. CASE n = name
    <3>1. synced[n].phase \in {"absent", "Completed", "PartiallyFailed"}
      BY DEF VeleroState, VeleroTypeOK, BackupStates
    <3>2. synced[n] # a  BY <3>1
    <3> QED BY <1>0, <2>1, <2>3, <3>2 DEF SyncIsSound, BackupName, Ended
  <2> QED BY <2>2, <2>3
<1> QED BY <1>0, <1>9, <1>4, <1>5, <1>6, <1>7, <1>8, BackupsStep

\* Backups of the first copy do not matter to the invariant.
LEMMA PresyncMoves ==
  ASSUME VeleroState, VeleroInvariant, ClustersAct, UNCHANGED <<synced, restores, config, target>>,
         \A n \in Runs : backups'[n].final = backups[n].final
  PROVE  VeleroInvariant'
<1>0. UNCHANGED <<setting, job, handler, up, staging, unwound>>  BY DEF ClustersAct
<1>1. Steady  BY <1>0 DEF Steady, StagingStays, TargetStays
<1>2. \A q \in Runs : Advances(q)  BY <1>0 DEF Advances, Reached, Over, Ended
<1>3. GhostsStay  BY <1>0 DEF GhostsStay
<1>4. \A q \in Runs, t \in Slots :
        /\ BackupHandlerIsSound(q, t, handler'[q][t]) /\ RestoreHandlerIsSound(q, handler'[q][t])
        /\ handler'[q][t].fresh => handler'[q][t].copy = config'.owners
  BY <1>0 DEF VeleroInvariant, HandlerIsSound
<1>5. \A q \in Runs : job'[q].step \in StepsAfterBackup \cup {"FINAL_BACKUP", "COMPLETED"} => ~up'[q]
  BY <1>0 DEF VeleroInvariant, TransferIsSound
<1>6. \A q \in Runs : IsAfterBackup(q)' => IsAfterBackup(q)  BY <1>0 DEF IsAfterBackup
<1>7. \A q \in Runs : Restores(q)' => Restores(q)  BY <1>0 DEF Restores, RestoreOf, BackupName
<1>8. ConfigIsSound'  BY <1>1, <1>2, <1>3, <1>7, ConfigStays
<1> QED BY <1>1, <1>2, <1>3, <1>4, <1>5, <1>6, <1>8, SteadyStep DEF VeleroState

\* One backup is replaced.
LEMMA OneBackup ==
  ASSUME VeleroTypeOK, NEW name \in Runs, NEW stage \in BackupStages, NEW b \in BackupStates(Phases),
         backups' = [backups EXCEPT ![name][stage] = b]
  PROVE  /\ backups' \in [Runs -> [BackupStages -> BackupStates(Phases)]]
         /\ stage = "final" => BackupsAre(name, b)
         /\ stage = "presync" => \A n \in Runs : backups'[n].final = backups[n].final
BY DEF VeleroTypeOK, BackupStages, BackupsAre

LEMMA BackupFields ==
  ASSUME NEW b \in BackupStates(Phases), NEW phase \in Phases
  PROVE  /\ [b EXCEPT !.phase = phase] \in BackupStates(Phases)
         /\ [b EXCEPT !.phase = phase].phase = phase /\ [b EXCEPT !.phase = phase].owner = b.owner
         /\ [b EXCEPT !.phase = phase].volumes = b.volumes /\ [b EXCEPT !.phase = phase].stopped = b.stopped
         /\ [b EXCEPT !.phase = phase, !.volumes = {}] \in BackupStates(Phases)
         /\ [b EXCEPT !.phase = phase, !.volumes = {}].phase = phase
         /\ [b EXCEPT !.phase = phase, !.volumes = {}].owner = b.owner
BY DEF BackupStates

\* One backup changes, by one of the steps of Velero.
LEMMA OneBackupMoves ==
  ASSUME VeleroState, VeleroInvariant, ClustersAct, UNCHANGED <<synced, restores, config, target>>,
         NEW name \in Runs, NEW stage \in BackupStages, NEW b \in BackupStates(Phases),
         backups' = [backups EXCEPT ![name][stage] = b],
         backups[name][stage].phase \in {"New", "InProgress"}, b.owner = backups[name][stage].owner,
         b.phase \in {"InProgress", "Completed", "PartiallyFailed", "Failed"},
         stage = "final" /\ b.phase \in {"InProgress", "Completed"} =>
           Over(b.owner) \/ (b.stopped /\ HasAll(b, b.owner))
  PROVE  VeleroTypeOK' /\ VeleroControl' /\ VeleroInvariant'
<1>1. VeleroTypeOK'
  BY OneBackup DEF VeleroState, VeleroTypeOK, ClustersAct
<1>2. VeleroControl'  BY ClustersKeepControl
<1>3. CASE stage = "final"
  <2>1. BackupsAre(name, b)  BY <1>3, OneBackup DEF VeleroState
  <2>2. VeleroInvariant'  BY <1>3, <2>1, BackupMoves
  <2> QED BY <1>1, <1>2, <2>2
<1>4. CASE stage = "presync"
  <2>1. \A n \in Runs : backups'[n].final = backups[n].final  BY <1>4, OneBackup DEF VeleroState
  <2>2. VeleroInvariant'  BY <2>1, PresyncMoves
  <2> QED BY <1>1, <1>2, <2>2
<1> QED BY <1>3, <1>4 DEF BackupStages

LEMMA VeleroStartsBackupStep ==
  ASSUME VeleroState, VeleroInvariant, NEW name \in Runs, NEW stage \in BackupStages, VeleroStartsBackup(name, stage)
  PROVE  VeleroTypeOK' /\ VeleroControl' /\ VeleroInvariant'
<1> DEFINE a == backups[name][stage]
           b == Backup("InProgress", a.owner, Captured(a.owner), ~up[a.owner])
<1>1. /\ UNCHANGED <<handlerVars, up, staging, synced, restores, config, target, unwound>>
      /\ backups' = [backups EXCEPT ![name][stage] = b] /\ a.phase = "New"
  BY DEF VeleroStartsBackup, SetBackup
<1>2. ClustersAct  BY <1>1 DEF ClustersAct, handlerVars, VeleroState, VeleroControl, Control, HandlersTypeOK
<1>3. a.owner \in Runs  BY DEF VeleroState, VeleroTypeOK, BackupStates
<1>4. Captured(a.owner) \in SUBSET Volumes /\ up[a.owner] \in BOOLEAN
  BY <1>3 DEF Captured, AppVolumes, VeleroState, VeleroTypeOK
<1>5. /\ b \in BackupStates(Phases) /\ b.phase = "InProgress" /\ b.owner = a.owner /\ b.volumes = Captured(a.owner)
      /\ b.stopped = ~up[a.owner]
  <2>1. (~up[a.owner]) \in BOOLEAN  OBVIOUS
  <2>2. b \in BackupStates(Phases)  BY <1>3, <1>4, <2>1 DEF Backup, BackupStates, Phases
  <2>3. /\ b.phase = "InProgress" /\ b.owner = a.owner /\ b.volumes = Captured(a.owner)
        /\ b.stopped = ~up[a.owner]
    BY DEF Backup
  <2> QED BY <2>2, <2>3
<1>6. ASSUME stage = "final", ~Over(a.owner) PROVE ~up[a.owner] /\ (Captured(a.owner) = Volumes \/ a.owner \in unwound)
  <2>1. Reached(a.owner) /\ Staged(a.owner, {})  BY <1>1, <1>6 DEF VeleroInvariant, BackupIsSound
  <2>2. ~up[a.owner]  BY <1>3, <1>6, <2>1, StoppedOrOver
  <2>3. staging[a.owner] \subseteq Volumes  BY <1>3 DEF VeleroState, VeleroTypeOK
  <2> QED BY <1>6, <2>1, <2>2, <2>3 DEF Captured, AppVolumes, Staged
<1>7. stage = "final" => Over(b.owner) \/ (b.stopped /\ HasAll(b, b.owner))
  BY <1>5, <1>6 DEF HasAll
<1> HIDE DEF b
<1> QED BY <1>1, <1>2, <1>5, <1>7, OneBackupMoves

LEMMA VeleroEndsBackupStep ==
  ASSUME VeleroState, VeleroInvariant, NEW name \in Runs, NEW stage \in BackupStages, VeleroEndsBackup(name, stage)
  PROVE  VeleroTypeOK' /\ VeleroControl' /\ VeleroInvariant'
<1> DEFINE a == backups[name][stage]
           b == [a EXCEPT !.phase = "Completed"]
<1>1. /\ UNCHANGED <<handlerVars, up, staging, synced, restores, config, target, unwound>>
      /\ backups' = [backups EXCEPT ![name][stage] = b] /\ a.phase = "InProgress"
  BY DEF VeleroEndsBackup, SetBackup
<1>2. ClustersAct  BY <1>1 DEF ClustersAct, handlerVars, VeleroState, VeleroControl, Control, HandlersTypeOK
<1>3. a \in BackupStates(Phases)  BY DEF VeleroState, VeleroTypeOK
<1>5. /\ b \in BackupStates(Phases) /\ b.phase = "Completed" /\ b.owner = a.owner /\ b.volumes = a.volumes
      /\ b.stopped = a.stopped
  BY <1>3, BackupFields DEF Phases
<1>7. stage = "final" => Over(b.owner) \/ (b.stopped /\ HasAll(b, b.owner))
  BY <1>1, <1>5 DEF HasAll, VeleroInvariant, BackupIsSound
<1> HIDE DEF b
<1> QED BY <1>1, <1>2, <1>5, <1>7, OneBackupMoves

LEMMA VeleroFailsBackupStep ==
  ASSUME VeleroState, VeleroInvariant, NEW name \in Runs, NEW stage \in BackupStages,
         NEW phase \in {"PartiallyFailed", "Failed"}, VeleroFailsBackup(name, stage, phase)
  PROVE  VeleroTypeOK' /\ VeleroControl' /\ VeleroInvariant'
<1> DEFINE a == backups[name][stage]
           b == [a EXCEPT !.phase = phase, !.volumes = {}]
<1>3. a \in BackupStates(Phases)  BY DEF VeleroState, VeleroTypeOK
<1>1. /\ UNCHANGED <<setting, job, handler, up, staging, synced, restores, config, target, unwound>>
      /\ backups' = [backups EXCEPT ![name][stage] = b] /\ a.phase = "InProgress" /\ Fault
  BY DEF VeleroFailsBackup, VeleroState, VeleroTypeOK
<1>2. ClustersAct  BY <1>1, FaultIsBounded DEF ClustersAct, VeleroState, VeleroControl, Control
<1>5. b \in BackupStates(Phases) /\ b.phase = phase /\ b.owner = a.owner
  <2>1. phase \in Phases  BY DEF Phases
  <2> HIDE DEF a
  <2> QED BY <1>3, <2>1, BackupFields
<1> HIDE DEF b
<1> QED BY <1>1, <1>2, <1>5, OneBackupMoves

\* Velero deletes a final backup of a run that has ended.
LEMMA FinalBackupIsDeleted ==
  ASSUME VeleroState, VeleroInvariant, ClustersAct, UNCHANGED <<synced, restores, config, target>>,
         NEW r \in Runs, CanClean(r), BackupsAre(r, NoBackup)
  PROVE  VeleroInvariant'
<1>1. Ended(r) /\ Over(r) /\ setting.kind # "names"  BY DEF CanClean, Ended, Over
<1>3. UNCHANGED <<setting, job, handler, up, staging, unwound>>  BY DEF ClustersAct
<1>6. ASSUME NEW q \in Runs PROVE BackupName(q) = q  BY <1>1 DEF BackupName
<1>7. ASSUME NEW n \in Runs, n # r PROVE backups'[n].final = backups[n].final
  BY <1>7 DEF BackupsAre
<1>8. backups'[r].final.phase = "absent"  BY DEF BackupsAre, NoBackup, Backup
<1>9. \A q \in Runs : Final(q)' = backups'[q].final /\ Final(q) = backups[q].final
  BY <1>3, <1>6 DEF Final, BackupName
<1>10. ASSUME NEW q \in Runs, Gone(q) PROVE Gone(q)'
  <2>1. Final(q)'.phase = "absent"  BY <1>7, <1>8, <1>9, <1>10 DEF Gone
  <2> QED BY <1>3, <1>10, <2>1 DEF Gone, Ended
<1>17. ASSUME NEW q \in Runs, Restorable(q) PROVE Restorable(q)'
  <2>1. CASE Valid(Synced(q), q)  BY <1>3, <2>1 DEF Restorable, Synced, BackupName, Valid, HasAll
  <2>2. CASE Gone(q)  BY <1>10, <2>2 DEF Restorable
  <2>3. CASE Dropped(q) /\ q # r
    <3>1. Final(q)' = Final(q)  BY <1>7, <1>9, <2>3
    <3> QED BY <1>3, <2>3, <3>1 DEF Restorable, Dropped, Synced, BackupName, Valid, HasAll, Ended
  <2>4. CASE Dropped(q) /\ q = r
    <3>1. Final(q)'.phase = "absent"  BY <1>8, <1>9, <2>4
    <3> QED BY <1>3, <2>4, <3>1 DEF Restorable, Dropped, Gone, Ended
  <2> QED BY <1>17, <2>1, <2>2, <2>3, <2>4 DEF Restorable
<1>11. handler[r]["current"].step \notin StepsAfterBackup \cup {"FINAL_BACKUP"}
  BY <1>1 DEF VeleroState, VeleroControl, Control, HandlersFollow, Ended, Ends, StepsAfterBackup
<1>12. ASSUME NEW q \in Runs, NEW s \in Slots PROVE BackupHandlerIsSound(q, s, handler[q][s])'
  <2>1. BackupHandlerIsSound(q, s, handler[q][s])  BY DEF VeleroInvariant, HandlerIsSound
  <2>2. CASE q # r
    <3>1. Final(q)' = Final(q)  BY <1>7, <1>9, <2>2
    <3> QED BY <1>1, <1>3, <2>1, <3>1 DEF BackupHandlerIsSound, Reached, Staged, Over
  <2>3. CASE q = r
    <3>1. Final(r)'.phase = "absent"  BY <1>8, <1>9
    <3>2. Over(r)' /\ setting'.kind # "names"  BY <1>1, <1>3 DEF Over
    <3>3. s = "current" => handler'[r][s].step # "FINAL_BACKUP"  BY <1>3, <1>11
    <3> QED BY <1>3, <2>1, <2>3, <3>1, <3>2, <3>3 DEF BackupHandlerIsSound, Reached, Staged
  <2> QED BY <2>2, <2>3
<1>13. ASSUME NEW q \in Runs, NEW s \in Slots
       PROVE  /\ RestoreHandlerIsSound(q, handler'[q][s])
              /\ handler'[q][s].fresh => handler'[q][s].copy = config.owners
  BY <1>3 DEF VeleroInvariant, HandlerIsSound
<1>14. ASSUME NEW q \in Runs, IsAfterBackup(q) PROVE (Valid(Final(q), q) \/ Gone(q))'
  <2>1. Valid(Final(q), q) \/ Gone(q)  BY <1>14 DEF VeleroInvariant, TransferIsSound
  <2>2. CASE q # r
    <3>1. Final(q)' = Final(q)  BY <1>7, <1>9, <2>2
    <3> QED BY <1>3, <1>10, <2>1, <3>1 DEF Valid, HasAll
  <2>3. CASE q = r
    <3>1. job[r].step \notin StepsAfterBackup  BY <1>1 DEF Ended, Ends, StepsAfterBackup
    <3>2. handler[r]["ghost"].step \in StepsAfterBackup
      BY <1>11, <1>14, <2>3, <3>1 DEF IsAfterBackup, Slots
    <3>3. handler[r]["ghost"].step # "FINAL_BACKUP"  BY <3>2 DEF StepsAfterBackup
    <3>4. Final(r)'.phase = "absent"  BY <1>8, <1>9
    <3> QED BY <1>1, <1>3, <2>3, <3>3, <3>4 DEF Gone, Ended
  <2> QED BY <2>2, <2>3
<1>15. ASSUME NEW n \in Runs PROVE BackupIsSound(n)'
  <2>1. BackupIsSound(n)  BY DEF VeleroInvariant
  <2>2. CASE n # r
    <3>1. UNCHANGED <<setting, job, staging, unwound>> /\ backups'[n].final = backups[n].final
      BY <1>3, <1>7, <2>2
    <3> QED BY <2>1, <3>1 DEF BackupIsSound, BackupName, Reached, Staged, Over, HasAll
  <2>3. CASE n = r  BY <1>8, <2>3 DEF BackupIsSound
  <2> QED BY <2>2, <2>3
<1>16. ASSUME NEW n \in Runs PROVE SyncIsSound(n)'
  <2>1. SyncIsSound(n)  BY DEF VeleroInvariant
  <2>2. CASE n # r
    BY <1>1, <1>3, <1>7, <2>1, <2>2 DEF SyncIsSound, BackupName, Ended
  <2>3. CASE n = r
    <3>1. synced[n].phase # "absent" => synced[n].owner \in Runs /\ synced[n].owner = n
      BY <1>6, <2>1 DEF SyncIsSound
    <3> QED BY <1>1, <1>3, <2>1, <2>3, <3>1 DEF SyncIsSound, BackupName, Ended
  <2> QED BY <2>2, <2>3
<1> QED BY <1>3, <1>12, <1>13, <1>14, <1>15, <1>16, <1>17, BackupsStep

LEMMA VeleroDeletesBackupStep ==
  ASSUME VeleroState, VeleroInvariant, NEW name \in Runs, NEW stage \in BackupStages, VeleroDeletesBackup(name, stage)
  PROVE  VeleroTypeOK' /\ VeleroControl' /\ VeleroInvariant'
<1>1. /\ UNCHANGED <<handlerVars, up, staging, synced, restores, config, target, unwound>>
      /\ backups' = [backups EXCEPT ![name][stage] = NoBackup]
      /\ backups[name][stage].phase # "absent" /\ CanClean(backups[name][stage].owner)
  BY DEF VeleroDeletesBackup, SetBackup
<1>2. ClustersAct  BY <1>1 DEF ClustersAct, handlerVars, VeleroState, VeleroControl, Control, HandlersTypeOK
<1>3. VeleroTypeOK'
  BY <1>1, OneBackup, EmptyObjects DEF VeleroState, VeleroTypeOK
<1>4. VeleroControl'  BY <1>2, ClustersKeepControl
<1>5. CASE stage = "final"
  <2>1. BackupsAre(name, NoBackup)  BY <1>1, <1>5, OneBackup, EmptyObjects DEF VeleroState
  <2>2. backups[name].final.owner = name
    BY <1>1, <1>5 DEF VeleroInvariant, BackupIsSound, BackupName, CanClean
  <2>3. VeleroInvariant'  BY <1>1, <1>2, <1>5, <2>1, <2>2, FinalBackupIsDeleted
  <2> QED BY <1>3, <1>4, <2>3
<1>6. CASE stage = "presync"
  <2>1. \A n \in Runs : backups'[n].final = backups[n].final  BY <1>1, <1>6, OneBackup, EmptyObjects DEF VeleroState
  <2>2. VeleroInvariant'  BY <1>1, <1>2, <2>1, PresyncMoves
  <2> QED BY <1>3, <1>4, <2>2
<1> QED BY <1>5, <1>6 DEF BackupStages


\* A final backup is created where its run and its staging pods are ready for it.
LEMMA FinalBackupIsCreated ==
  ASSUME VeleroState, VeleroInvariant, NEW r \in Runs, NEW s \in Slots, Works(r, s),
         handler[r][s].pc = "create_backup", handler[r][s].step = "FINAL_BACKUP", Final(r).phase = "absent",
         NEW b, BackupsAre(BackupName(r), b), b.phase = "New", b.owner = r,
         NEW h, h.step = "FINAL_BACKUP", h.pc = "poll_backup", ~h.fresh, Sets(r, s, h),
         UNCHANGED <<setting, job, up, staging, synced, restores, config, target, unwound>>
  PROVE  VeleroInvariant'
<1> DEFINE name == BackupName(r)
<1>0. name \in Runs /\ backups[name].final = Final(r)  BY NamesAreRuns DEF Final
<1>1. ASSUME NEW q \in Runs
      PROVE  Final(q)' = IF BackupName(q) = name THEN b ELSE Final(q)
  BY NamesAreRuns DEF Final, BackupsAre, BackupName
<1>2. ASSUME NEW q \in Runs, BackupName(q) = name
      PROVE  Final(q) = Final(r) /\ (setting.kind # "names" => q = r)
  BY <1>2 DEF Final, BackupName
<1>3. Reached(r) /\ Staged(r, {}) /\ (s = "current" => job[r].step = "FINAL_BACKUP")
  <2>1. BackupHandlerIsSound(r, s, handler[r][s])  BY DEF VeleroInvariant, HandlerIsSound
  <2> QED BY <2>1, HandlerFacts DEF BackupHandlerIsSound
<1>4. ~Gone(r)
  BY <1>3 DEF Gone, Ended, Ends, Slots
<1>13. ASSUME NEW q \in Runs, Restorable(q) PROVE Restorable(q)'
  <2>1. CASE Valid(Synced(q), q)  BY <2>1 DEF Restorable, Synced, BackupName, Valid, HasAll
  <2>2. CASE Gone(q)
    <3>1. BackupName(q) # name  BY <1>2, <1>4, <2>2 DEF Gone
    <3> QED BY <1>1, <2>2, <3>1 DEF Restorable, Gone, Ended, Slots, Sets
  <2>3. CASE Dropped(q)
    <3>1. BackupName(q) # name  BY <1>2, <2>3 DEF Dropped, Valid
    <3> QED BY <1>1, <2>3, <3>1 DEF Restorable, Dropped, Synced, BackupName, Valid, HasAll, Ended, Slots, Sets
  <2> QED BY <1>13, <2>1, <2>2, <2>3 DEF Restorable
<1>5. ASSUME NEW q \in Runs, Gone(q) PROVE BackupName(q) # name
  BY <1>2, <1>4, <1>5 DEF Gone
<1>6. \A q \in Runs, t \in Slots : handler'[q][t].step = handler[q][t].step  BY DEF Sets
<1>7. ASSUME NEW q \in Runs, Gone(q) PROVE Gone(q)'
  BY <1>1, <1>5, <1>6, <1>7 DEF Gone, Ended, Slots
<1>8. ASSUME NEW q \in Runs, NEW t \in Slots PROVE BackupHandlerIsSound(q, t, handler[q][t])'
  <2>1. CASE q = r /\ t = s
    <3>1. Final(r)' = b /\ handler'[r][s] = h  BY <1>1 DEF Sets
    <3> QED BY <1>3, <2>1, <3>1 DEF BackupHandlerIsSound, Reached
  <2>2. CASE q # r \/ t # s
    <3>1. BackupHandlerIsSound(q, t, handler[q][t])  BY DEF VeleroInvariant, HandlerIsSound
    <3>2. handler'[q][t] = handler[q][t]  BY <2>2 DEF Sets
    <3>3. CASE BackupName(q) # name
      <4>1. Final(q)' = Final(q)  BY <1>1, <3>3
      <4> QED BY <3>1, <3>2, <4>1 DEF BackupHandlerIsSound, Reached, Staged, Over
    <3>4. CASE BackupName(q) = name
      <4>1. Final(q)' = b /\ Final(q) = Final(r) /\ (setting.kind # "names" => q = r)  BY <1>1, <1>2, <3>4
      <4> QED BY <3>1, <3>2, <4>1 DEF BackupHandlerIsSound, Reached, Staged, Over
    <3> QED BY <3>3, <3>4
  <2> QED BY <2>1, <2>2
<1>9. ASSUME NEW q \in Runs, NEW t \in Slots
      PROVE  /\ RestoreHandlerIsSound(q, handler'[q][t])
             /\ handler'[q][t].fresh => handler'[q][t].copy = config.owners
  <2>1. CASE q = r /\ t = s
    <3>2. RestoreHandlerIsSound(r, h)  BY DEF RestoreHandlerIsSound, CallsAfterRestore
    <3> QED BY <2>1, <3>2 DEF Sets
  <2>2. CASE q # r \/ t # s
    BY <2>2 DEF Sets, VeleroInvariant, HandlerIsSound
  <2> QED BY <2>1, <2>2
<1>10. ASSUME NEW q \in Runs, IsAfterBackup(q) PROVE (Valid(Final(q), q) \/ Gone(q))'
  <2>1. Valid(Final(q), q) \/ Gone(q)  BY <1>10 DEF VeleroInvariant, TransferIsSound
  <2>2. BackupName(q) # name  BY <1>2, <1>5, <2>1 DEF Valid
  <2>3. Valid(Final(q), q) => Valid(Final(q), q)'  BY <1>1, <2>2 DEF Valid, HasAll
  <2> QED BY <1>7, <2>1, <2>3
<1>11. ASSUME NEW n \in Runs PROVE BackupIsSound(n)'
  <2>1. BackupIsSound(n)  BY DEF VeleroInvariant
  <2>2. CASE n # name
    <3>1. backups'[n].final = backups[n].final  BY <2>2 DEF BackupsAre
    <3> QED BY <2>1, <3>1 DEF BackupIsSound, BackupName, Reached, Staged, Over, HasAll
  <2>3. CASE n = name
    <3>1. backups'[n].final = b  BY <2>3 DEF BackupsAre
    <3> QED BY <1>3, <2>3, <3>1 DEF BackupIsSound, BackupName, Reached, Staged, Over
  <2> QED BY <2>2, <2>3
<1>12. ASSUME NEW n \in Runs PROVE SyncIsSound(n)'
  <2>1. SyncIsSound(n)  BY DEF VeleroInvariant
  <2>2. CASE n # name
    <3>1. backups'[n].final = backups[n].final  BY <2>2 DEF BackupsAre
    <3> QED BY <2>1, <3>1 DEF SyncIsSound, BackupName, Ended
  <2>3. CASE n = name
    <3>1. synced[n].phase # "absent" => synced[n] # backups[n].final  BY <1>0, <2>3
    <3> QED BY <2>1, <3>1 DEF SyncIsSound, BackupName, Ended
  <2> QED BY <2>2, <2>3
<1> QED BY <1>6, <1>8, <1>9, <1>10, <1>11, <1>12, <1>13, BackupsStep

LEMMA CreateBackupStep ==
  ASSUME VeleroState, VeleroInvariant, NEW r \in Runs, NEW s \in Slots, CreateBackup(r, s)
  PROVE  VeleroTypeOK' /\ VeleroControl' /\ VeleroInvariant'
<1> DEFINE g == handler[r][s]
           h == At(g.step, "poll_backup")
           b == Backup("New", r, {}, FALSE)
           name == BackupName(r)
           stage == StageOf(r, s)
<1>1. Works(r, s) /\ g.pc = "create_backup" /\ g.pc \in BackupCalls  BY AtIsWorking DEF CreateBackup, BackupCalls
<1>2. g.step \in {"PRESYNC", "FINAL_BACKUP"} /\ g.step \in Working /\ HandlerIsSound(r, s, g)
  BY <1>1, StepOfCall, HandlerFacts DEF BackupCalls, VeleroState, VeleroControl
<1>3. UNCHANGED <<up, staging, synced, restores, config, target, unwound>>  BY DEF CreateBackup
<1>4. CASE backups' = backups
  <2>1. setting' = setting  BY DEF CreateBackup, ProceedTo, GoOn, Unwind, Refuse, ReturnError
  <2>2. Beside /\ up' = up /\ VeleroTypeOK'
    BY <1>3, <1>4, <2>1, UnchangedIsBeside DEF veleroVars, VeleroState
  <2>3. CASE BackupOf(r, s).phase # "absent" /\ SameBackupIdentity(BackupOf(r, s), r) /\ ProceedTo(r, s, "poll_backup")
    BY <1>1, <2>2, <2>3, PollsItsOwn DEF SameBackupIdentity
  <2>4. CASE Unwind(r, s)  BY <1>1, <2>2, <2>4, UnwindStep
  <2>5. CASE /\ BackupOf(r, s).phase = "absent"
             /\ backups' = [backups EXCEPT ![name][stage] = b]
             /\ ProceedTo(r, s, "poll_backup")
    <3>1. name \in Runs /\ stage \in BackupStages  BY NamesAreRuns DEF StageOf, BackupStages
    <3>2. backups'[name][stage] = b  BY <2>5, <3>1 DEF VeleroState, VeleroTypeOK
    <3>3. b.phase = "New"  BY DEF Backup
    <3> QED BY <1>4, <2>5, <3>2, <3>3 DEF BackupOf
  <2> QED BY <2>2, <2>3, <2>4, <2>5 DEF CreateBackup
<1>5. CASE /\ BackupOf(r, s).phase = "absent"
           /\ backups' = [backups EXCEPT ![name][stage] = b]
           /\ ProceedTo(r, s, "poll_backup")
  <2>1. name \in Runs /\ stage \in BackupStages  BY NamesAreRuns DEF StageOf, BackupStages
  <2>2. b \in BackupStates(Phases) /\ b.phase = "New" /\ b.owner = r  BY DEF Backup, BackupStates, Phases
  <2>3. h.step = g.step /\ h.pc = "poll_backup" /\ ~h.fresh  BY DEF At
  <2>4. "poll_backup" \in VeleroCalls[g.step] /\ "poll_backup" \in AllCalls
    <3>1. "poll_backup" \in VeleroCalls[g.step]  BY <1>2, VeleroCallsAre DEF BackupCalls
    <3> QED BY <1>2, <3>1, CallsAre DEF IsCalls
  <2>5. h \in States  BY <1>2, <2>4, AtIsTyped
  <2>6. GoOn(r, s, h)  BY <1>5 DEF ProceedTo
  <2> HIDE DEF b, h
  <2>7. /\ backups' \in [Runs -> [BackupStages -> BackupStates(Phases)]]
        /\ stage = "final" => BackupsAre(name, b)
        /\ stage = "presync" => \A n \in Runs : backups'[n].final = backups[n].final
    BY <1>5, <2>1, <2>2, OneBackup DEF VeleroState
  <2>8. VeleroTypeOK'  BY <1>3, <2>7 DEF VeleroState, VeleroTypeOK
  <2>9. CASE g.step = "PRESYNC"
    <3>1. Beside
      BY <1>3, <2>6, <2>7, <2>9 DEF Beside, Steady, StagingStays, TargetStays, StageOf, GoOn
    <3>2. HandlerIsSound(r, s, h)
      BY <2>3, <2>9 DEF HandlerIsSound, BackupHandlerIsSound, RestoreHandlerIsSound, CallsAfterRestore
    <3> QED BY <1>1, <1>3, <2>3, <2>4, <2>5, <2>6, <2>8, <3>1, <3>2, MoveStep
  <2>10. CASE g.step = "FINAL_BACKUP"
    <3>1. Goes(r, s, h)  BY <2>6, GoOnGoes DEF VeleroState, VeleroControl, Control
    <3>2. Control(VeleroCalls)' /\ Sets(r, s, h) /\ job' = job /\ setting' = setting
      BY <1>1, <2>3, <2>4, <2>5, <3>1, GoOnKeepsControl, CallsAre DEF VeleroState, VeleroControl
    <3>3. BackupsAre(name, b)  BY <2>7, <2>10 DEF StageOf
    <3>4. Final(r).phase = "absent"  BY <1>5, <2>10 DEF BackupOf, StageOf, Final
    <3>5. VeleroInvariant'
      BY <1>1, <1>3, <2>2, <2>3, <2>10, <3>2, <3>3, <3>4, FinalBackupIsCreated
    <3> QED BY <2>8, <3>2, <3>5 DEF VeleroState, VeleroControl, IsCompose
  <2> QED BY <1>2, <2>9, <2>10
<1> QED BY <1>4, <1>5 DEF CreateBackup

-----------------------------------------------------------------------------
(***************************************************************************)
(* The target cluster: copies of backups, restores, and the namespace.     *)
(***************************************************************************)
\* What is left to show of a step that changes the target cluster, and the calls
\* of handlers.
LEMMA TargetStep ==
  ASSUME VeleroInvariant, UNCHANGED <<setting, job, up, staging, backups, config, unwound>>,
         \A q \in Runs, s \in Slots : handler'[q][s].step = handler[q][s].step,
         \A q \in Runs, s \in Slots :
           /\ BackupHandlerIsSound(q, s, handler'[q][s]) /\ RestoreHandlerIsSound(q, handler[q][s])'
           /\ handler'[q][s].fresh => handler'[q][s].copy = config.owners,
         \A n \in Runs : SyncIsSound(n)' /\ RestoreIsSound(n)',
         \A q \in Runs : TargetIsSound(q)',
         \A q \in Runs : IsAfterBackup(q) /\ Synced(q)'.phase # "absent" => Valid(Synced(q), q)',
         \A q \in Runs : Restores(q)' => Annotated(q) \/ Restored(q)' \/ CanClean(q)
  PROVE  VeleroInvariant'
<1>1. ASSUME NEW q \in Runs
      PROVE  /\ Final(q)' = Final(q) /\ (Gone(q) => Gone(q)') /\ (Annotated(q) => Annotated(q)')
             /\ CanClean(q) => CanClean(q)'
  BY DEF Final, BackupName, Gone, Ended, Annotated, Profile, Slots, CanClean
<1>2. ASSUME NEW q \in Runs, NEW s \in Slots PROVE HandlerIsSound(q, s, handler[q][s])'
  <2>1. BackupHandlerIsSound(q, s, handler'[q][s])  OBVIOUS
  <2>2. BackupHandlerIsSound(q, s, handler[q][s])'
    BY <1>1, <2>1 DEF BackupHandlerIsSound, Reached, Staged, Over
  <2> QED BY <2>2 DEF HandlerIsSound
<1>3. ASSUME NEW q \in Runs PROVE TransferIsSound(q)'
  <2>0. TransferIsSound(q)  BY DEF VeleroInvariant
  <2>1. IsAfterBackup(q)' => IsAfterBackup(q)  BY DEF IsAfterBackup
  <2>2. Valid(Final(q), q) => Valid(Final(q), q)'  BY <1>1 DEF Valid, HasAll
  <2> QED BY <1>1, <2>0, <2>1, <2>2 DEF TransferIsSound
<1>4. ASSUME NEW n \in Runs PROVE BackupIsSound(n)'
  <2>1. BackupIsSound(n)  BY DEF VeleroInvariant
  <2> QED BY <2>1 DEF BackupIsSound, BackupName, Reached, Staged, Over, HasAll
<1>5. ConfigIsSound'
  <2>1. ConfigIsSound  BY DEF VeleroInvariant
  <2> QED BY <1>1, <2>1 DEF ConfigIsSound, IsProfile, Merged
<1> QED BY <1>2, <1>3, <1>4, <1>5 DEF VeleroInvariant

\* A cluster's own steps leave the handlers and what they know of backups.
LEMMA HandlersStay ==
  ASSUME VeleroInvariant, ClustersAct, UNCHANGED <<backups, config>>
  PROVE  /\ UNCHANGED <<setting, job, up, staging, backups, config, unwound>>
         /\ \A q \in Runs, s \in Slots : handler'[q][s].step = handler[q][s].step
         /\ \A q \in Runs, s \in Slots :
              /\ BackupHandlerIsSound(q, s, handler'[q][s])
              /\ handler'[q][s].fresh => handler'[q][s].copy = config.owners
         /\ \A q \in Runs : (Gone(q)' <=> Gone(q)) /\ (CanClean(q)' <=> CanClean(q)) /\ (Ended(q)' <=> Ended(q))
         /\ \A q \in Runs : BackupName(q)' = BackupName(q) /\ Final(q)' = Final(q)
         /\ \A q \in Runs : Synced(q)' = Synced(q) /\ Restorable(q) => Restorable(q)'
<1>1. UNCHANGED <<setting, job, handler, up, staging, unwound>>  BY DEF ClustersAct
<1>2. \A q \in Runs : (Gone(q)' <=> Gone(q)) /\ (CanClean(q)' <=> CanClean(q)) /\ (Ended(q)' <=> Ended(q))
  BY <1>1 DEF Gone, Ended, Final, BackupName, CanClean
<1>3. \A q \in Runs, s \in Slots :
        /\ BackupHandlerIsSound(q, s, handler'[q][s])
        /\ handler'[q][s].fresh => handler'[q][s].copy = config.owners
  BY <1>1 DEF VeleroInvariant, HandlerIsSound
<1>4. \A q \in Runs : BackupName(q)' = BackupName(q) /\ Final(q)' = Final(q)  BY <1>1 DEF BackupName, Final
<1>5. ASSUME NEW q \in Runs, Synced(q)' = Synced(q), Restorable(q) PROVE Restorable(q)'
  <2>1. Advances(q)  BY <1>1 DEF Advances, Reached, Over, Ended
  <2> QED BY <1>1, <1>4, <1>5, <2>1, RestorablePersists
<1> QED BY <1>1, <1>2, <1>3, <1>4, <1>5

LEMMA VeleroSyncsStep ==
  ASSUME VeleroState, VeleroInvariant, NEW name \in Runs, VeleroSyncs(name)
  PROVE  VeleroTypeOK' /\ VeleroControl' /\ VeleroInvariant'
<1> DEFINE b == backups[name].final
<1>1. /\ UNCHANGED <<handlerVars, up, staging, backups, restores, config, target, unwound>>
      /\ synced' = [synced EXCEPT ![name] = b] /\ synced[name].phase = "absent"
      /\ b.phase \in {"Completed", "PartiallyFailed"}
  BY DEF VeleroSyncs
<1>2. ClustersAct  BY <1>1 DEF ClustersAct, handlerVars, VeleroState, VeleroControl, Control, HandlersTypeOK
<1>3. VeleroControl'  BY <1>2, ClustersKeepControl
<1>4. b \in BackupStates({"absent", "Completed", "PartiallyFailed"})
  BY <1>1 DEF VeleroState, VeleroTypeOK, BackupStates, BackupStages
<1>5. VeleroTypeOK'  BY <1>1, <1>4 DEF VeleroState, VeleroTypeOK
<1>6. \A n \in Runs : synced'[n] = IF n = name THEN b ELSE synced[n]
  BY <1>1 DEF VeleroState, VeleroTypeOK
<1>7. /\ UNCHANGED <<setting, job, up, staging, backups, config, unwound>>
      /\ \A q \in Runs, s \in Slots : handler'[q][s].step = handler[q][s].step
      /\ \A q \in Runs, s \in Slots :
           /\ BackupHandlerIsSound(q, s, handler'[q][s])
           /\ handler'[q][s].fresh => handler'[q][s].copy = config.owners
      /\ \A q \in Runs : (Gone(q)' <=> Gone(q)) /\ (CanClean(q)' <=> CanClean(q)) /\ (Ended(q)' <=> Ended(q))
      /\ \A q \in Runs : BackupName(q)' = BackupName(q) /\ Final(q)' = Final(q)
      /\ \A q \in Runs : Synced(q)' = Synced(q) /\ Restorable(q) => Restorable(q)'
  BY <1>1, <1>2, HandlersStay
<1>8. ASSUME NEW q \in Runs
      PROVE  /\ Synced(q)' = IF BackupName(q) = name THEN b ELSE Synced(q)
             /\ BackupName(q) = name => Synced(q).phase = "absent" /\ Final(q) = b
             /\ RestoreOf(q)' = RestoreOf(q)
  BY <1>1, <1>6, <1>7, NamesAreRuns DEF Synced, Final, RestoreOf
<1>9. handler' = handler  BY <1>2 DEF ClustersAct
<1>15. ASSUME NEW q \in Runs, Restorable(q) PROVE Restorable(q)'
  <2>1. CASE BackupName(q) # name  BY <1>7, <1>8, <1>15, <2>1
  <2>2. CASE BackupName(q) = name
    <3>1. Synced(q)' = b /\ Synced(q).phase = "absent" /\ Final(q) = b  BY <1>8, <2>2
    <3>2. ~Valid(Synced(q), q) /\ ~Gone(q)  BY <1>1, <3>1 DEF Valid, Gone
    <3>3. Valid(b, q)  BY <1>15, <3>1, <3>2 DEF Restorable, Dropped
    <3> QED BY <1>7, <3>1, <3>3 DEF Restorable, Valid, HasAll
  <2> QED BY <2>1, <2>2
<1> HIDE DEF b
<1>10. ASSUME NEW q \in Runs, NEW s \in Slots PROVE RestoreHandlerIsSound(q, handler[q][s])'
  <2>1. RestoreHandlerIsSound(q, handler[q][s])  BY DEF VeleroInvariant, HandlerIsSound
  <2>2. Restorable(q) => Restorable(q)'  BY <1>15
  <2>3. (Restored(q) => Restored(q)') /\ (Valid(target[q].of, q) => Valid(target[q].of, q)')
    BY <1>1, <1>8 DEF Restored, Valid, HasAll
  <2> QED BY <1>1, <1>7, <1>8, <1>9, <2>1, <2>2, <2>3 DEF RestoreHandlerIsSound
<1>11. ASSUME NEW n \in Runs PROVE SyncIsSound(n)' /\ RestoreIsSound(n)'
  <2>1. SyncIsSound(n) /\ RestoreIsSound(n) /\ BackupIsSound(n)  BY DEF VeleroInvariant
  <2>2. SyncIsSound(n)'
    <3>1. CASE n = name
      <4>1. b.owner \in Runs /\ BackupName(b.owner) = name  BY <1>1, <2>1, <3>1 DEF BackupIsSound, b
      <4> QED BY <1>1, <1>6, <1>7, <3>1, <4>1 DEF SyncIsSound, b
    <3>2. CASE n # name
      <4>1. synced'[n] = synced[n] /\ backups'[n].final = backups[n].final  BY <1>6, <1>7, <3>2
      <4> QED BY <1>7, <2>1, <4>1 DEF SyncIsSound, Ended
    <3> QED BY <3>1, <3>2
  <2>3. RestoreIsSound(n)'
    <3>1. PICK q \in Runs : q = restores[n].owner  BY DEF VeleroState, VeleroTypeOK, RestoreStates
    <3>2. restores'[n] = restores[n]  BY <1>1
    <3>3. Restorable(q) => Restorable(restores[n].owner)'
      <4>1. Restorable(q) => Restorable(q)'  BY <1>15
      <4> QED BY <3>1, <3>2, <4>1, RestorableOwner
    <3>4. Ended(q)' <=> Ended(q)  BY <1>7
    <3> QED BY <1>1, <1>7, <2>1, <3>1, <3>2, <3>3, <3>4 DEF RestoreIsSound, Valid, HasAll, Profile, Ended
  <2> QED BY <2>2, <2>3
<1>12. ASSUME NEW q \in Runs PROVE TargetIsSound(q)'
  <2>1. TargetIsSound(q)  BY DEF VeleroInvariant
  <2> QED BY <1>1, <1>7, <2>1 DEF TargetIsSound, Valid, HasAll, Profile, NoBackup, Backup, Ended
<1>13. ASSUME NEW q \in Runs, IsAfterBackup(q), Synced(q)'.phase # "absent" PROVE Valid(Synced(q), q)'
  <2>1. /\ Valid(Final(q), q) \/ Gone(q)
        /\ Synced(q).phase # "absent" => Valid(Synced(q), q)
    BY <1>13 DEF VeleroInvariant, TransferIsSound
  <2>2. CASE BackupName(q) = name
    <3>1. Valid(Final(q), q)  BY <1>1, <1>8, <2>1, <2>2 DEF Gone, b
    <3> QED BY <1>7, <1>8, <2>2, <3>1 DEF Valid, HasAll
  <2>3. CASE BackupName(q) # name
    BY <1>7, <1>8, <1>13, <2>1, <2>3 DEF Valid, HasAll
  <2> QED BY <2>2, <2>3
<1>14. ASSUME NEW q \in Runs, Restores(q)' PROVE Annotated(q) \/ Restored(q)' \/ CanClean(q)
  <2>1. Restores(q)  BY <1>7, <1>8, <1>9, <1>14 DEF Restores
  <2>2. Annotated(q) \/ Restored(q) \/ CanClean(q)  BY <2>1 DEF VeleroInvariant, ConfigIsSound
  <2> QED BY <1>8, <2>2 DEF Restored
<1> QED BY <1>3, <1>5, <1>7, <1>10, <1>11, <1>12, <1>13, <1>14, TargetStep

LEMMA OneRestore ==
  ASSUME VeleroTypeOK, NEW name \in Runs, NEW x \in RestoreStates, restores' = [restores EXCEPT ![name] = x]
  PROVE  /\ restores' \in [Runs -> RestoreStates]
         /\ \A n \in Runs : restores'[n] = IF n = name THEN x ELSE restores[n]
BY DEF VeleroTypeOK

\* What a namespace was restored from is as before, or a valid backup with the
\* mappings of its run.
TargetGains(q) ==
  /\ target'[q].scaled = target[q].scaled
  /\ \/ target'[q].of = target[q].of /\ target'[q].mapped = target[q].mapped
     \/ Valid(target'[q].of, q) /\ (Profile(q) \subseteq target'[q].mapped \/ Ended(q))

\* Velero goes on with a restore.
LEMMA RestoreMoves ==
  ASSUME VeleroState, VeleroInvariant, ClustersAct, UNCHANGED <<backups, synced, config>>,
         NEW name \in Runs, NEW x \in RestoreStates, restores' = [restores EXCEPT ![name] = x],
         target' \in [Runs -> TargetStates],
         restores[name].phase \in {"New", "InProgress"}, x.owner = restores[name].owner,
         x.phase \in {"InProgress", "Completed", "PartiallyFailed", "Failed"},
         x.phase = "InProgress" =>
           Valid(x.of, x.owner) /\ (Profile(x.owner) \subseteq x.mapped \/ Ended(x.owner)),
         x.phase = "Completed" => Valid(target'[x.owner].of, x.owner),
         \A q \in Runs : TargetGains(q)
  PROVE  VeleroTypeOK' /\ VeleroControl' /\ VeleroInvariant'
<1>1. VeleroControl'  BY ClustersKeepControl
<1>2. /\ restores' \in [Runs -> RestoreStates]
      /\ \A n \in Runs : restores'[n] = IF n = name THEN x ELSE restores[n]
  BY OneRestore DEF VeleroState
<1>3. /\ UNCHANGED <<setting, job, up, staging, backups, config, unwound>>
      /\ \A q \in Runs, s \in Slots : handler'[q][s].step = handler[q][s].step
      /\ \A q \in Runs, s \in Slots :
           /\ BackupHandlerIsSound(q, s, handler'[q][s])
           /\ handler'[q][s].fresh => handler'[q][s].copy = config.owners
      /\ \A q \in Runs : (Gone(q)' <=> Gone(q)) /\ (CanClean(q)' <=> CanClean(q)) /\ (Ended(q)' <=> Ended(q))
      /\ \A q \in Runs : BackupName(q)' = BackupName(q) /\ Final(q)' = Final(q)
      /\ \A q \in Runs : Synced(q)' = Synced(q) /\ Restorable(q) => Restorable(q)'
  BY HandlersStay
<1>4. VeleroTypeOK'  BY <1>2, <1>3 DEF VeleroState, VeleroTypeOK
<1>5. handler' = handler  BY DEF ClustersAct
<1>6. ASSUME NEW q \in Runs
      PROVE  /\ RestoreOf(q)' = IF BackupName(q) = name THEN x ELSE RestoreOf(q)
             /\ BackupName(q) = name => RestoreOf(q).phase \in {"New", "InProgress"} /\ RestoreOf(q).owner = x.owner
             /\ Synced(q)' = Synced(q)
  BY <1>2, <1>3, NamesAreRuns DEF RestoreOf, Synced
<1>7. ASSUME NEW q \in Runs PROVE Valid(target[q].of, q) => Valid(target[q].of, q)'
  <2>1. TargetGains(q)  OBVIOUS
  <2> QED BY <1>3, <2>1 DEF TargetGains, Valid, HasAll
<1>8. ASSUME NEW q \in Runs, NEW s \in Slots PROVE RestoreHandlerIsSound(q, handler[q][s])'
  <2>1. RestoreHandlerIsSound(q, handler[q][s])  BY DEF VeleroInvariant, HandlerIsSound
  <2>2. Restorable(q) => Restorable(q)'  BY <1>3, <1>6
  <2>3. Restored(q) => Restored(q)'  BY <1>6 DEF Restored
  <2> QED BY <1>3, <1>5, <1>6, <1>7, <2>1, <2>2, <2>3 DEF RestoreHandlerIsSound
<1>9. ASSUME NEW n \in Runs PROVE SyncIsSound(n)' /\ RestoreIsSound(n)'
  <2>1. SyncIsSound(n) /\ RestoreIsSound(n)  BY DEF VeleroInvariant
  <2>2. SyncIsSound(n)'  BY <1>3, <2>1 DEF SyncIsSound, Ended
  <2>3. CASE n = name
    <3>1. x.owner \in Runs /\ BackupName(x.owner) = name  BY <2>1, <2>3 DEF RestoreIsSound
    <3>2. restores'[n] = x  BY <1>2, <2>3
    <3>3. RestoreIsSound(n)'
      BY <1>3, <2>3, <3>1, <3>2 DEF RestoreIsSound, Valid, HasAll, Profile, Ended
    <3> QED BY <2>2, <3>3
  <2>4. CASE n # name
    <3>1. restores'[n] = restores[n]  BY <1>2, <2>4
    <3>2. restores[n].owner \in Runs  BY DEF VeleroState, VeleroTypeOK, RestoreStates
    <3>3. Valid(target[restores[n].owner].of, restores[n].owner) =>
            Valid(target'[restores[n].owner].of, restores[n].owner)
      <4>1. TargetGains(restores[n].owner)  BY <3>2
      <4> QED BY <1>3, <4>1 DEF TargetGains, Valid, HasAll
    <3>5. Restorable(restores[n].owner) => Restorable(restores[n].owner)'
      <4>1. PICK q \in Runs : q = restores[n].owner  BY <3>2
      <4>2. Restorable(q) => Restorable(q)'  BY <1>3, <1>6
      <4> QED BY <3>1, <4>1, <4>2, RestorableOwner
    <3>4. RestoreIsSound(n)'
      BY <1>3, <2>1, <3>1, <3>2, <3>3, <3>5 DEF RestoreIsSound, Valid, HasAll, Profile, Ended
    <3> QED BY <2>2, <3>4
  <2> QED BY <2>3, <2>4
<1>10. ASSUME NEW q \in Runs PROVE TargetIsSound(q)'
  <2>1. TargetIsSound(q) /\ TargetGains(q)  BY DEF VeleroInvariant
  <2>2. CASE target'[q].of = target[q].of /\ target'[q].mapped = target[q].mapped
    BY <1>3, <2>1, <2>2 DEF TargetIsSound, TargetGains, Valid, HasAll, Profile, NoBackup, Backup, Ended
  <2>3. CASE Valid(target'[q].of, q) /\ (Profile(q) \subseteq target'[q].mapped \/ Ended(q))
    BY <1>3, <2>3 DEF TargetIsSound, Valid, HasAll, Profile, Ended
  <2> QED BY <2>1, <2>2, <2>3 DEF TargetGains
<1>11. ASSUME NEW q \in Runs, IsAfterBackup(q), Synced(q)'.phase # "absent" PROVE Valid(Synced(q), q)'
  BY <1>3, <1>6, <1>11 DEF VeleroInvariant, TransferIsSound, Valid, HasAll
<1>12. ASSUME NEW q \in Runs, Restores(q)' PROVE Annotated(q) \/ Restored(q)' \/ CanClean(q)
  <2>1. Restores(q)  BY <1>3, <1>5, <1>6, <1>12 DEF Restores
  <2>2. Annotated(q) \/ Restored(q) \/ CanClean(q)  BY <2>1 DEF VeleroInvariant, ConfigIsSound
  <2> QED BY <1>6, <2>2 DEF Restored
<1> QED BY <1>1, <1>3, <1>4, <1>8, <1>9, <1>10, <1>11, <1>12, TargetStep

LEMMA VeleroStartsRestoreStep ==
  ASSUME VeleroState, VeleroInvariant, NEW name \in Runs, VeleroStartsRestore(name)
  PROVE  VeleroTypeOK' /\ VeleroControl' /\ VeleroInvariant'
<1> DEFINE y == restores[name]
           phase == IF synced[name].phase = "absent" \/ backups[name].final.phase = "absent"
                    THEN "Failed" ELSE "InProgress"
           x == [y EXCEPT !.phase = phase, !.of = synced[name], !.mapped = config.data]
<1>1. /\ UNCHANGED <<handlerVars, up, staging, backups, synced, config, target, unwound>>
      /\ restores' = [restores EXCEPT ![name] = x] /\ y.phase = "New"
  BY DEF VeleroStartsRestore, SetRestore
<1>2. ClustersAct  BY <1>1 DEF ClustersAct, handlerVars, VeleroState, VeleroControl, Control, HandlersTypeOK
<1>3. /\ x \in RestoreStates /\ x.phase = phase /\ x.owner = y.owner /\ x.of = synced[name]
      /\ x.mapped = config.data
  <2>1. y \in RestoreStates /\ synced[name] \in BackupStates(Phases) /\ config.data \in SUBSET Classes
    BY DEF VeleroState, VeleroTypeOK, BackupStates, Phases
  <2>2. phase \in Phases  BY DEF Phases
  <2>3. PICK a, b, c : a = y /\ b = synced[name] /\ c = config.data  OBVIOUS
  <2>4. PICK d : d = phase  OBVIOUS
  <2>5. x = [a EXCEPT !.phase = d, !.of = b, !.mapped = c]  BY <2>3, <2>4
  <2> HIDE DEF y, phase, x
  <2>6. a \in RestoreStates /\ b \in BackupStates(Phases) /\ c \in SUBSET Classes /\ d \in Phases
    BY <2>1, <2>2, <2>3, <2>4
  <2>7. x \in RestoreStates /\ x.phase = d /\ x.owner = a.owner /\ x.of = b /\ x.mapped = c
    BY <2>5, <2>6 DEF RestoreStates
  <2> QED BY <2>3, <2>4, <2>7
<1>4. phase \in {"InProgress", "Failed"}  OBVIOUS
<1>5. ASSUME phase = "InProgress"
      PROVE  Valid(synced[name], y.owner) /\ (Profile(y.owner) \subseteq config.data \/ Ended(y.owner))
  <2>1. y.owner \in Runs /\ BackupName(y.owner) = name /\ Restorable(y.owner)
    BY <1>1 DEF VeleroInvariant, RestoreIsSound
  <2>2. ~Gone(y.owner) /\ ~Dropped(y.owner)  BY <1>5, <2>1 DEF Gone, Dropped, Final, Synced
  <2>6. Valid(synced[name], y.owner)  BY <2>1, <2>2 DEF Restorable, Synced
  <2>3. Restores(y.owner) /\ ~Restored(y.owner)  BY <1>1, <2>1 DEF Restores, Restored, RestoreOf
  <2>4. (Annotated(y.owner) \/ Ended(y.owner)) /\ config.data = Merged(config.owners)
    BY <2>1, <2>3 DEF VeleroInvariant, ConfigIsSound, CanClean
  <2>5. ASSUME NEW pair \in Profile(y.owner), Annotated(y.owner) PROVE pair \in config.data
    <3>1. <<y.owner, pair>> \in config.owners  BY <2>5 DEF Annotated
    <3>2. <<y.owner, pair>>[2] = pair  OBVIOUS
    <3> QED BY <2>4, <3>1, <3>2 DEF Merged
  <2> QED BY <2>4, <2>5, <2>6
<1>6. \A q \in Runs : TargetGains(q)  BY <1>1 DEF TargetGains
<1>7. target' \in [Runs -> TargetStates]  BY <1>1 DEF VeleroState, VeleroTypeOK
<1> HIDE DEF x, phase
<1> QED BY <1>1, <1>2, <1>3, <1>4, <1>5, <1>6, <1>7, RestoreMoves

LEMMA VeleroFailsRestoreStep ==
  ASSUME VeleroState, VeleroInvariant, NEW name \in Runs, VeleroFailsRestore(name)
  PROVE  VeleroTypeOK' /\ VeleroControl' /\ VeleroInvariant'
<1> DEFINE y == restores[name]
           x == [y EXCEPT !.phase = "PartiallyFailed"]
<1>1. /\ UNCHANGED <<setting, job, handler, up, staging, backups, synced, config, target, unwound>>
      /\ restores' = [restores EXCEPT ![name] = x] /\ y.phase = "InProgress" /\ Fault
  BY DEF VeleroFailsRestore
<1>2. ClustersAct  BY <1>1, FaultIsBounded DEF ClustersAct, VeleroState, VeleroControl, Control
<1>3. x \in RestoreStates /\ x.phase = "PartiallyFailed" /\ x.owner = y.owner
  <2>1. y \in RestoreStates /\ "PartiallyFailed" \in Phases  BY DEF VeleroState, VeleroTypeOK, Phases
  <2> HIDE DEF y
  <2> QED BY <2>1 DEF RestoreStates
<1>6. \A q \in Runs : TargetGains(q)  BY <1>1 DEF TargetGains
<1>7. target' \in [Runs -> TargetStates]  BY <1>1 DEF VeleroState, VeleroTypeOK
<1> HIDE DEF x
<1> QED BY <1>1, <1>2, <1>3, <1>6, <1>7, RestoreMoves

LEMMA VeleroEndsRestoreStep ==
  ASSUME VeleroState, VeleroInvariant, NEW name \in Runs, VeleroEndsRestore(name)
  PROVE  VeleroTypeOK' /\ VeleroControl' /\ VeleroInvariant'
<1> DEFINE y == restores[name]
           o == y.owner
           x == [y EXCEPT !.phase = "Completed"]
           pods == IF setting.fsb THEN y.of.volumes ELSE {}
           u == [target[o] EXCEPT !.of = y.of, !.mapped = y.mapped, !.staging = pods]
<1>0. /\ y \in RestoreStates /\ o \in Runs /\ y.of \in BackupStates(Phases) /\ y.mapped \in SUBSET Classes
      /\ y.of.volumes \in SUBSET Volumes /\ "Completed" \in Phases
  BY DEF VeleroState, VeleroTypeOK, RestoreStates, Phases, BackupStates
<1>1. /\ UNCHANGED <<handlerVars, up, staging, backups, synced, config, unwound>>
      /\ restores' = [restores EXCEPT ![name] = x] /\ y.phase = "InProgress"
  BY DEF VeleroEndsRestore, SetRestore
<1>2. ClustersAct  BY <1>1 DEF ClustersAct, handlerVars, VeleroState, VeleroControl, Control, HandlersTypeOK
<1>3. x \in RestoreStates /\ x.phase = "Completed" /\ x.owner = y.owner
  <2> HIDE DEF y
  <2> QED BY <1>0 DEF RestoreStates
<1>4. Valid(y.of, o) /\ (Profile(o) \subseteq y.mapped \/ Ended(o))
  BY <1>1 DEF VeleroInvariant, RestoreIsSound
<1>5. target' = [target EXCEPT ![o] = u]
  BY <1>0 DEF VeleroEndsRestore, VeleroState, VeleroTypeOK, TargetStates
<1>6. u \in TargetStates /\ u.of = y.of /\ u.mapped = y.mapped /\ u.scaled = target[o].scaled
  <2>1. target[o] \in TargetStates  BY <1>0 DEF VeleroState, VeleroTypeOK
  <2>2. pods \in SUBSET Volumes  BY <1>0
  <2>3. PICK a, b, c, d : a = target[o] /\ b = y.of /\ c = y.mapped /\ d = pods  OBVIOUS
  <2>4. u = [a EXCEPT !.of = b, !.mapped = c, !.staging = d]  BY <2>3
  <2> HIDE DEF y, o, pods, u
  <2>5. a \in TargetStates /\ b \in BackupStates(Phases) /\ c \in SUBSET Classes /\ d \in SUBSET Volumes
    BY <1>0, <2>1, <2>2, <2>3
  <2>6. u \in TargetStates /\ u.of = b /\ u.mapped = c /\ u.scaled = a.scaled
    BY <2>4, <2>5 DEF TargetStates
  <2> QED BY <2>3, <2>6
<1> HIDE DEF x, u
<1>7. target' \in [Runs -> TargetStates] /\ \A q \in Runs : target'[q] = IF q = o THEN u ELSE target[q]
  BY <1>5, <1>6 DEF VeleroState, VeleroTypeOK
<1>8. ASSUME NEW q \in Runs PROVE TargetGains(q)
  <2>1. CASE q = o  BY <1>0, <1>4, <1>6, <1>7, <2>1 DEF TargetGains
  <2>2. CASE q # o  BY <1>7, <2>2 DEF TargetGains
  <2> QED BY <2>1, <2>2
<1>9. Valid(target'[x.owner].of, x.owner)  BY <1>0, <1>3, <1>4, <1>6, <1>7
<1> QED BY <1>1, <1>2, <1>3, <1>7, <1>8, <1>9, RestoreMoves

\* A restore is created where a valid backup is, or nothing is left of the run.
LEMMA RestoreIsCreated ==
  ASSUME VeleroState, VeleroInvariant, NEW r \in Runs, NEW s \in Slots, Works(r, s),
         handler[r][s].pc = "create_restore", RestoreOf(r).phase = "absent",
         NEW x \in RestoreStates, x.phase = "New", x.owner = r, restores' = [restores EXCEPT ![BackupName(r)] = x],
         NEW h, h.step = "RESTORE", h.pc = "poll_restore", ~h.fresh, Sets(r, s, h),
         \A q \in Runs : TargetStays(q) /\ target'[q].scaled = target[q].scaled,
         UNCHANGED <<setting, job, up, staging, backups, synced, config, unwound>>
  PROVE  VeleroInvariant'
<1> DEFINE name == BackupName(r)
<1>0. handler[r][s].step = "RESTORE" /\ Restorable(r) /\ Restores(r)
  <2>1. handler[r][s].step = "RESTORE" /\ HandlerIsSound(r, s, handler[r][s])  BY RestoreCall
  <2> QED BY <2>1 DEF HandlerIsSound, RestoreHandlerIsSound, Restores
<1>1. name \in Runs /\ \A n \in Runs : restores'[n] = IF n = name THEN x ELSE restores[n]
  BY NamesAreRuns, OneRestore DEF VeleroState
<1>2. ASSUME NEW q \in Runs
      PROVE  /\ RestoreOf(q)' = IF BackupName(q) = name THEN x ELSE RestoreOf(q)
             /\ BackupName(q) = name => RestoreOf(q).phase = "absent" /\ (setting.kind # "names" => q = r)
             /\ Synced(q)' = Synced(q) /\ Final(q)' = Final(q)
  BY <1>1, NamesAreRuns DEF RestoreOf, Synced, Final, BackupName
<1>3. \A q \in Runs, t \in Slots : handler'[q][t].step = handler[q][t].step  BY <1>0 DEF Sets
<1>4. ASSUME NEW q \in Runs
      PROVE  /\ Restorable(q) => Restorable(q)'
             /\ (CanClean(q)' <=> CanClean(q)) /\ (Ended(q)' <=> Ended(q))
             /\ Valid(target[q].of, q) => Valid(target[q].of, q)'
  <2>1. Restorable(q) => Restorable(q)'
    <3>1. Advances(q)  BY DEF Advances, Reached, Over, Ended
    <3>2. handler'[q].ghost.step = handler[q].ghost.step  BY <1>3 DEF Slots
    <3> QED BY <1>2, <3>1, <3>2, RestorablePersists
  <2>2. TargetStays(q)  OBVIOUS
  <2> QED BY <2>1, <2>2 DEF TargetStays, Valid, HasAll, CanClean, Ended
<1>5. ASSUME NEW q \in Runs, NEW t \in Slots
      PROVE  /\ BackupHandlerIsSound(q, t, handler'[q][t]) /\ RestoreHandlerIsSound(q, handler[q][t])'
             /\ handler'[q][t].fresh => handler'[q][t].copy = config.owners
  <2>1. CASE q = r /\ t = s
    <3>1. handler'[r][s] = h  BY DEF Sets
    <3>2. RestoreOf(r)' = x  BY <1>2
    <3> QED BY <2>1, <3>1, <3>2 DEF BackupHandlerIsSound, RestoreHandlerIsSound, CallsAfterRestore
  <2>2. CASE q # r \/ t # s
    <3>1. HandlerIsSound(q, t, handler[q][t]) /\ handler'[q][t] = handler[q][t]
      BY <2>2 DEF Sets, VeleroInvariant
    <3>2. Restored(q) => Restored(q)'  BY <1>2 DEF Restored
    <3>4. RestoreHandlerIsSound(q, handler[q][t])'
      BY <1>2, <1>4, <3>1, <3>2 DEF HandlerIsSound, RestoreHandlerIsSound
    <3> QED BY <3>1, <3>4 DEF HandlerIsSound
  <2> QED BY <2>1, <2>2
<1>6. ASSUME NEW n \in Runs PROVE SyncIsSound(n)' /\ RestoreIsSound(n)'
  <2>1. SyncIsSound(n) /\ RestoreIsSound(n)  BY DEF VeleroInvariant
  <2>2. SyncIsSound(n)'  BY <2>1 DEF SyncIsSound, Ended, BackupName
  <2>3. CASE n = name
    <3>1. restores'[n] = x  BY <1>1, <2>3
    <3>2. Restorable(restores[n].owner)'  BY <1>0, <1>4, <3>1, RestorableOwner
    <3> QED BY <2>2, <2>3, <3>1, <3>2 DEF RestoreIsSound, BackupName
  <2>4. CASE n # name
    <3>1. restores'[n] = restores[n]  BY <1>1, <2>4
    <3>2. PICK o : o = restores[n].owner  OBVIOUS
    <3>3. o \in Runs  BY <3>2 DEF VeleroState, VeleroTypeOK, RestoreStates
    <3>4. (Ended(o)' <=> Ended(o)) /\ (Valid(target[o].of, o) => Valid(target[o].of, o)')  BY <1>4, <3>3
    <3>6. Restorable(o) => Restorable(restores[n].owner)'  BY <1>4, <3>1, <3>2, <3>3, RestorableOwner
    <3>5. RestoreIsSound(n)'
      BY <2>1, <3>1, <3>2, <3>3, <3>4, <3>6 DEF RestoreIsSound, Valid, HasAll, Profile, BackupName, Ended
    <3> QED BY <2>2, <3>5
  <2> QED BY <2>3, <2>4
<1>7. ASSUME NEW q \in Runs PROVE TargetIsSound(q)'
  <2>1. TargetIsSound(q) /\ TargetStays(q) /\ target'[q].scaled = target[q].scaled  BY DEF VeleroInvariant
  <2> QED BY <2>1 DEF TargetIsSound, TargetStays, Valid, HasAll, Profile, NoBackup, Backup, Ended
<1>8. ASSUME NEW q \in Runs, IsAfterBackup(q), Synced(q)'.phase # "absent" PROVE Valid(Synced(q), q)'
  BY <1>2, <1>8 DEF VeleroInvariant, TransferIsSound, Valid, HasAll
<1>9. ASSUME NEW q \in Runs, Restores(q)' PROVE Annotated(q) \/ Restored(q)' \/ CanClean(q)
  <2>1. Restores(q)
    <3>1. CASE q = r  BY <1>0, <3>1
    <3>2. CASE q # r  BY <1>2, <1>3, <1>9, <3>2 DEF Restores
    <3> QED BY <3>1, <3>2
  <2>2. Annotated(q) \/ Restored(q) \/ CanClean(q)  BY <2>1 DEF VeleroInvariant, ConfigIsSound
  <2> QED BY <1>2, <2>2 DEF Restored
<1> QED BY <1>3, <1>5, <1>6, <1>7, <1>8, <1>9, TargetStep

LEMMA CreateRestoreStep ==
  ASSUME VeleroState, VeleroInvariant, NEW r \in Runs, NEW s \in Slots, CreateRestore(r, s)
  PROVE  VeleroTypeOK' /\ VeleroControl' /\ VeleroInvariant'
<1> DEFINE t == [target[r] EXCEPT !.admission = "none"]
           h == At("RESTORE", "poll_restore")
           x == Restore("New", r, NoBackup, {})
           name == BackupName(r)
<1>1. Works(r, s) /\ handler[r][s].pc = "create_restore"  BY AtIsWorking DEF CreateRestore
<1>2. handler[r][s].step = "RESTORE"  BY <1>1, RestoreCall
<1>3. UNCHANGED <<setting, up, staging, backups, synced, config, unwound>>
  BY DEF CreateRestore, ProceedTo, GoOn, Refuse, ReturnError
<1>4. /\ t \in TargetStates /\ t.of = target[r].of /\ t.mapped = target[r].mapped /\ t.scaled = target[r].scaled
      /\ target' = [target EXCEPT ![r] = t]
  <2>1. target[r] \in TargetStates  BY DEF VeleroState, VeleroTypeOK
  <2> QED BY <2>1, TargetFields DEF CreateRestore, EnsureMigrationNamespace
<1> HIDE DEF t
<1>5. "poll_restore" \in VeleroCalls["RESTORE"] /\ "poll_restore" \in AllCalls /\ "RESTORE" \in Working
  BY VeleroCallsAre, CallsAre DEF IsCalls, Working
<1>6. h \in States /\ h.step = "RESTORE" /\ h.pc = "poll_restore" /\ ~h.fresh  BY <1>5, AtIsTyped
<1>7. CASE restores' = restores
  <2>1. Beside /\ VeleroTypeOK'  BY <1>3, <1>4, <1>7, TargetChangeIsBeside DEF VeleroState
  <2>2. CASE RestoreOf(r).phase # "absent" /\ RestoreOf(r).owner = r /\ ProceedTo(r, s, "poll_restore")
    <3>1. RestoreHandlerIsSound(r, h)  BY <1>6, <2>2 DEF RestoreHandlerIsSound, CallsAfterRestore
    <3> QED BY <1>1, <1>2, <1>3, <1>5, <2>1, <2>2, <3>1, RestoreCallIsSound, ProceedStep
  <2>3. CASE Refuse(r, s)  BY <1>1, <1>3, <2>1, <2>3, RefuseStep
  <2>4. CASE RestoreOf(r).phase = "absent" /\ restores' = [restores EXCEPT ![name] = x]
    <3>1. restores'[name] = x  BY <2>4, NamesAreRuns DEF VeleroState, VeleroTypeOK
    <3>2. x.phase = "New"  BY DEF Restore
    <3> QED BY <1>7, <2>4, <3>1, <3>2 DEF RestoreOf
  <2> QED BY <2>1, <2>2, <2>3, <2>4 DEF CreateRestore
<1>8. CASE /\ RestoreOf(r).phase = "absent" /\ restores' = [restores EXCEPT ![name] = x]
           /\ ProceedTo(r, s, "poll_restore")
  <2>1. x \in RestoreStates /\ x.phase = "New" /\ x.owner = r
    BY EmptyObjects DEF Restore, RestoreStates, Phases
  <2> HIDE DEF x, h
  <2>2. Goes(r, s, h)
    <3>1. GoOn(r, s, h)  BY <1>2, <1>8 DEF ProceedTo, h
    <3> QED BY <3>1, GoOnGoes DEF VeleroState, VeleroControl, Control
  <2>3. Control(VeleroCalls)' /\ Sets(r, s, h) /\ job' = job /\ setting' = setting
    BY <1>1, <1>2, <1>5, <1>6, <2>2, GoOnKeepsControl, CallsAre DEF VeleroState, VeleroControl
  <2>4. \A q \in Runs : TargetStays(q) /\ target'[q].scaled = target[q].scaled
    BY <1>4 DEF VeleroState, VeleroTypeOK, TargetStays
  <2>5. VeleroInvariant'
    BY <1>1, <1>3, <1>6, <1>8, <2>1, <2>3, <2>4, RestoreIsCreated
  <2>6. restores' \in [Runs -> RestoreStates] /\ target' \in [Runs -> TargetStates]
    BY <1>4, <1>8, <2>1, NamesAreRuns, OneRestore DEF VeleroState, VeleroTypeOK
  <2>7. VeleroTypeOK'  BY <1>3, <2>6 DEF VeleroState, VeleroTypeOK
  <2> QED BY <2>3, <2>5, <2>7 DEF VeleroState, VeleroControl, IsCompose
<1> QED BY <1>7, <1>8 DEF CreateRestore

LEMMA CleanTargetStep ==
  ASSUME VeleroState, VeleroInvariant, NEW r \in Runs, CleanTarget(r)
  PROVE  VeleroTypeOK' /\ VeleroControl' /\ VeleroInvariant'
<1>1. /\ UNCHANGED <<handlerVars, up, staging, backups, config, target, unwound>>
      /\ CanClean(r) /\ Ended(r) /\ setting.kind # "names"
      /\ restores' = [n \in Runs |-> IF IsOf(restores[n], r) THEN NoRestore ELSE restores[n]]
      /\ synced' = [n \in Runs |-> IF IsOf(synced[n], r) THEN NoBackup ELSE synced[n]]
  BY DEF CleanTarget, CanClean
<1>2. ClustersAct  BY <1>1 DEF ClustersAct, handlerVars, VeleroState, VeleroControl, Control, HandlersTypeOK
<1>3. VeleroControl'  BY <1>2, ClustersKeepControl
<1>4. VeleroTypeOK'
  <2>1. \A n \in Runs : /\ (IF IsOf(restores[n], r) THEN NoRestore ELSE restores[n]) \in RestoreStates
                        /\ (IF IsOf(synced[n], r) THEN NoBackup ELSE synced[n])
                             \in BackupStates({"absent", "Completed", "PartiallyFailed"})
    BY EmptyObjects DEF VeleroState, VeleroTypeOK
  <2>2. /\ restores' \in [Runs -> RestoreStates]
        /\ synced' \in [Runs -> BackupStates({"absent", "Completed", "PartiallyFailed"})]
    BY <1>1, <2>1
  <2> QED BY <1>1, <2>2 DEF VeleroState, VeleroTypeOK
<1>5. /\ UNCHANGED <<setting, job, up, staging, backups, config, unwound>>
      /\ \A q \in Runs, s \in Slots : handler'[q][s].step = handler[q][s].step
      /\ \A q \in Runs, s \in Slots :
           /\ BackupHandlerIsSound(q, s, handler'[q][s])
           /\ handler'[q][s].fresh => handler'[q][s].copy = config.owners
      /\ \A q \in Runs : (Gone(q)' <=> Gone(q)) /\ (CanClean(q)' <=> CanClean(q)) /\ (Ended(q)' <=> Ended(q))
      /\ \A q \in Runs : BackupName(q)' = BackupName(q) /\ Final(q)' = Final(q)
      /\ \A q \in Runs : Synced(q)' = Synced(q) /\ Restorable(q) => Restorable(q)'
  BY <1>1, <1>2, HandlersStay
<1>6. handler' = handler  BY <1>2 DEF ClustersAct
<1>7. ASSUME NEW q \in Runs PROVE BackupName(q) = q  BY <1>1 DEF BackupName
<1>8. ASSUME NEW n \in Runs, n # r PROVE restores'[n] = restores[n] /\ synced'[n] = synced[n]
  <2>1. ~IsOf(restores[n], r) /\ ~IsOf(synced[n], r)
    BY <1>7, <1>8 DEF IsOf, VeleroInvariant, RestoreIsSound, SyncIsSound
  <2> QED BY <1>1, <2>1
<1>9. restores'[r].phase = "absent" /\ synced'[r].phase = "absent"
  <2>1. /\ restores[r].phase # "absent" => IsOf(restores[r], r)
        /\ synced[r].phase # "absent" => IsOf(synced[r], r)
    BY <1>7 DEF IsOf, VeleroInvariant, RestoreIsSound, SyncIsSound
  <2> QED BY <1>1, <2>1 DEF NoRestore, Restore, NoBackup, Backup
<1>10. ASSUME NEW s \in Slots, handler[r][s].step = "RESTORE" PROVE Restorable(r)'
  <2>1. handler[r]["current"].step # "RESTORE"
    BY <1>1 DEF VeleroState, VeleroControl, Control, HandlersFollow, Ended, Ends
  <2>2. handler[r].ghost.step # "FINAL_BACKUP"  BY <1>10, <2>1 DEF Slots
  <2>3. IsAfterBackup(r)  BY <1>10 DEF IsAfterBackup, StepsAfterBackup
  <2>4. Valid(Final(r), r) \/ Gone(r)  BY <2>3 DEF VeleroInvariant, TransferIsSound
  <2>5. CASE Gone(r)  BY <1>5, <2>5 DEF Restorable
  <2>6. CASE Valid(Final(r), r)
    <3>1. Valid(Final(r), r)' /\ Ended(r)' /\ handler'[r].ghost.step # "FINAL_BACKUP"
      BY <1>1, <1>5, <1>6, <2>2, <2>6 DEF Valid, HasAll
    <3>2. Synced(r)'.phase = "absent" /\ setting'.kind # "names"
      BY <1>1, <1>5, <1>7, <1>9 DEF Synced
    <3> QED BY <3>1, <3>2 DEF Restorable, Dropped
  <2> QED BY <2>4, <2>5, <2>6
<1>11. ASSUME NEW q \in Runs
       PROVE  /\ q # r => RestoreOf(q)' = RestoreOf(q) /\ Synced(q)' = Synced(q)
              /\ RestoreOf(r)'.phase = "absent" /\ Synced(r)'.phase = "absent"
  BY <1>5, <1>7, <1>8, <1>9 DEF RestoreOf, Synced
<1>12. ASSUME NEW q \in Runs, NEW s \in Slots PROVE RestoreHandlerIsSound(q, handler[q][s])'
  <2>1. RestoreHandlerIsSound(q, handler[q][s])  BY DEF VeleroInvariant, HandlerIsSound
  <2>2. Valid(target[q].of, q) => Valid(target[q].of, q)'  BY <1>1 DEF Valid, HasAll
  <2>3. CASE q = r
    <3>1. handler[r][s].pc \in {"create_restore", "poll_restore"} \cup CallsAfterRestore => handler[r][s].step = "RESTORE"
      BY StepOfCall DEF VeleroState, VeleroControl
    <3>2. handler[r][s].pc \in {"create_restore", "poll_restore"} \cup CallsAfterRestore => Restorable(r)'
      BY <1>5, <1>10, <3>1
    <3>3. CanClean(r)'  BY <1>1, <1>5
    <3> QED BY <1>1, <1>5, <1>6, <1>11, <2>1, <2>2, <2>3, <3>2, <3>3 DEF RestoreHandlerIsSound, CallsAfterRestore
  <2>4. CASE q # r
    <3>1. (Restored(q) => Restored(q)') /\ (Restorable(q) => Restorable(q)')
      BY <1>1, <1>5, <1>11, <2>4 DEF Restored
    <3> QED BY <1>5, <1>6, <1>11, <2>1, <2>2, <2>4, <3>1 DEF RestoreHandlerIsSound
  <2> QED BY <2>3, <2>4
<1>13. ASSUME NEW n \in Runs PROVE SyncIsSound(n)' /\ RestoreIsSound(n)'
  <2>1. SyncIsSound(n) /\ RestoreIsSound(n)  BY DEF VeleroInvariant
  <2>2. CASE n = r  BY <1>9, <2>2 DEF SyncIsSound, RestoreIsSound
  <2>3. CASE n # r
    <3>1. synced'[n] = synced[n] /\ restores'[n] = restores[n]  BY <1>8, <2>3
    <3>2. SyncIsSound(n)'  BY <1>5, <2>1, <3>1 DEF SyncIsSound, Ended
    <3>4. restores[n].phase = "New" => Restorable(restores[n].owner)'
      <4>1. PICK q \in Runs : q = restores[n].owner  BY DEF VeleroState, VeleroTypeOK, RestoreStates
      <4>2. restores[n].phase = "New" => BackupName(q) = n /\ Restorable(q)  BY <2>1, <4>1 DEF RestoreIsSound
      <4>3. restores[n].phase = "New" => q # r  BY <1>7, <2>3, <4>2
      <4>4. Synced(q)' = Synced(q) \/ q = r  BY <1>11
      <4> QED BY <1>5, <3>1, <4>1, <4>2, <4>3, <4>4, RestorableOwner
    <3>3. RestoreIsSound(n)'
      BY <1>1, <1>5, <2>1, <3>1, <3>4 DEF RestoreIsSound, Valid, HasAll, Profile, Ended
    <3> QED BY <3>2, <3>3
  <2> QED BY <2>2, <2>3
<1>14. ASSUME NEW q \in Runs PROVE TargetIsSound(q)'
  <2>1. TargetIsSound(q)  BY DEF VeleroInvariant
  <2> QED BY <1>1, <1>5, <2>1 DEF TargetIsSound, Valid, HasAll, Profile, NoBackup, Backup, Ended
<1>15. ASSUME NEW q \in Runs, IsAfterBackup(q), Synced(q)'.phase # "absent" PROVE Valid(Synced(q), q)'
  <2>1. q # r /\ Synced(q)' = Synced(q)  BY <1>11, <1>15
  <2> QED BY <1>5, <1>15, <2>1 DEF VeleroInvariant, TransferIsSound, Valid, HasAll
<1>16. ASSUME NEW q \in Runs, Restores(q)' PROVE Annotated(q) \/ Restored(q)' \/ CanClean(q)
  <2>1. CASE q = r  BY <1>1, <2>1
  <2>2. CASE q # r
    <3>1. RestoreOf(q)' = RestoreOf(q)  BY <1>11, <2>2
    <3>2. Restores(q)  BY <1>5, <1>16, <3>1 DEF Restores
    <3>3. Annotated(q) \/ Restored(q) \/ CanClean(q)  BY <3>2 DEF VeleroInvariant, ConfigIsSound
    <3> QED BY <3>1, <3>3 DEF Restored
  <2> QED BY <2>1, <2>2
<1> QED BY <1>3, <1>4, <1>5, <1>12, <1>13, <1>14, <1>15, <1>16, TargetStep

-----------------------------------------------------------------------------
(***************************************************************************)
(* The transfer of Kubernetes applications.                                *)
(***************************************************************************)
LEMMA VeleroHandlerStep ==
  ASSUME VeleroState, VeleroInvariant, NEW r \in Runs, NEW s \in Slots, VeleroHandler(r, s)
  PROVE  VeleroTypeOK' /\ VeleroControl' /\ VeleroInvariant'
<1>1. CASE VeleroPreflight(r, s) \/ ListPods(r, s) \/ StagingIsReady(r, s) \/ CreateBackup(r, s)
  BY <1>1, PreflightStep, ListPodsStep, StagingIsReadyStep, CreateBackupStep
<1>2. CASE \E v \in Volumes : CreateStagingPod(r, s, v) \/ AwaitStagingPod(r, s, v)
  BY <1>2, CreateStagingPodStep, AwaitStagingPodStep
<1>3. CASE PollBackup(r, s) \/ DeleteStaging(r, s) \/ UnwindStaging(r, s) \/ VeleroQuiesce(r, s) \/ VerifyTransfer(r, s)
  BY <1>3, PollBackupStep, DeleteStagingStep, UnwindStagingStep, QuiesceStep, VerifyTransferStep
<1>4. CASE ReadMappings(r, s) \/ EnsureMappings(r, s) \/ AwaitSync(r, s) \/ CreateRestore(r, s) \/ PollRestore(r, s)
  BY <1>4, ReadMappingsStep, EnsureMappingsStep, AwaitSyncStep, CreateRestoreStep, PollRestoreStep
<1>5. CASE ReadOwners(r, s) \/ DeleteMappings(r, s) \/ DeleteTargetStaging(r, s) \/ ScaleTarget(r, s)
  BY <1>5, ReadOwnersStep, DeleteMappingsStep, DeleteTargetStagingStep, ScaleTargetStep
<1>6. CASE ValidateNamespace(r, s) \/ ValidateEndpoints(r, s)
  BY <1>6, ValidateNamespaceStep, ValidateEndpointsStep
<1> QED BY <1>1, <1>2, <1>3, <1>4, <1>5, <1>6 DEF VeleroHandler

LEMMA VeleroNextStep ==
  ASSUME VeleroState, VeleroInvariant, VeleroNext
  PROVE  VeleroTypeOK' /\ VeleroControl' /\ VeleroInvariant'
<1>1. CASE \E r \in Runs, s \in Slots : VeleroHandler(r, s) \/ VeleroCallFails(r, s)
  BY <1>1, VeleroHandlerStep, CallFailsStep
<1>2. CASE \E r \in Runs : VeleroRollback(r) \/ CleanTarget(r)
  BY <1>2, VeleroRollbackStep, CleanTargetStep
<1>6. CASE \E name \in Runs, stage \in BackupStages : VeleroDeletesBackup(name, stage)
  BY <1>6, VeleroDeletesBackupStep
<1>3. CASE \E name \in Runs : Velero(name)
  <2>0. PICK name \in Runs : Velero(name)  BY <1>3
  <2>1. CASE \E stage \in BackupStages : VeleroStartsBackup(name, stage) \/ VeleroEndsBackup(name, stage)
    BY <2>1, VeleroStartsBackupStep, VeleroEndsBackupStep
  <2>2. CASE VeleroSyncs(name) \/ VeleroStartsRestore(name) \/ VeleroEndsRestore(name)
    BY <2>2, VeleroSyncsStep, VeleroStartsRestoreStep, VeleroEndsRestoreStep
  <2> QED BY <2>0, <2>1, <2>2 DEF Velero
<1>4. CASE \E name \in Runs, stage \in BackupStages, phase \in {"PartiallyFailed", "Failed"} :
             VeleroFailsBackup(name, stage, phase)
  BY <1>4, VeleroFailsBackupStep
<1>5. CASE \E name \in Runs : VeleroFailsRestore(name)
  BY <1>5, VeleroFailsRestoreStep
<1> QED BY <1>1, <1>2, <1>3, <1>4, <1>5, <1>6 DEF VeleroNext

\* A step in which nothing happens.
LEMMA VeleroStutters ==
  ASSUME VeleroState, VeleroInvariant, UNCHANGED <<handlerVars, veleroVars>>
  PROVE  VeleroTypeOK' /\ VeleroControl' /\ VeleroInvariant'
<1>1. /\ UNCHANGED <<setting, job, handler, failures>>
      /\ UNCHANGED <<up, staging, backups, synced, restores, config, target, unwound>>
  BY DEF handlerVars, veleroVars
<1>2. ClustersAct  BY <1>1 DEF ClustersAct, VeleroState, VeleroControl, Control, HandlersTypeOK
<1>3. VeleroControl'  BY <1>2, ClustersKeepControl
<1>4. VeleroTypeOK'  BY <1>1 DEF VeleroState, VeleroTypeOK
<1>5. VeleroInvariant'  BY <1>1, <1>2, PresyncMoves
<1> QED BY <1>3, <1>4, <1>5

LEMMA KubernetesStep ==
  ASSUME VeleroState, VeleroInvariant, [Next]_allVars
  PROVE  VeleroTypeOK' /\ VeleroControl' /\ VeleroInvariant'
<1>1. CASE \E r \in Runs : ProcessOne(r) \/ Interruption(r)
  BY <1>1, ProcessOneStep, WorkerDiesStep, LeaveStep DEF Interruption
<1>2. CASE VeleroNext  BY <1>2, VeleroNextStep
<1>3. CASE UNCHANGED allVars  BY <1>3, VeleroStutters DEF allVars
<1>4. ~IsCompose  BY DEF VeleroState, VeleroControl
<1> QED BY <1>1, <1>2, <1>3, <1>4 DEF Next

LEMMA VeleroBegins ==
  ASSUME TransferInit, ~IsCompose
  PROVE  VeleroInvariant
<1> DEFINE meets == setting.kind = "mappings"
           complete(r) == Backup("Completed", r, Volumes, TRUE)
<1>1. setting.kind \in {"whole", "mappings", "names"}  BY SettingsAre DEF TransferInit, IsCompose
<1>2. /\ \A r \in Runs : up[r] = (setting.kind = "whole")
      /\ \A r \in Runs : backups[r].final = IF meets THEN complete(r) ELSE NoBackup
      /\ \A r \in Runs : synced[r] = IF meets THEN complete(r) ELSE NoBackup
      /\ \A r \in Runs : restores[r].phase = "absent"
      /\ config = NoConfig
      /\ \A r \in Runs : target[r].of = NoBackup /\ ~target[r].scaled
  BY DEF TransferInit, VeleroInit, BackupStages, NoRestore, Restore
<1>3. \A r \in Runs : job[r].step \in
        IF setting.kind = "whole" THEN {"PREFLIGHT", "ABSENT"} ELSE IF meets THEN {"TRANSFORM"} ELSE {"FINAL_BACKUP"}
  BY <1>1 DEF TransferInit, HandlersInit, FirstStep, IsCompose
<1>4. \A r \in Runs, s \in Slots : handler[r][s] = Idle  BY DEF TransferInit, HandlersInit
<1>5. \A r \in Runs : setting.kind # "names" => BackupName(r) = r  BY DEF BackupName
<1>6. \A r \in Runs : /\ complete(r).phase = "Completed" /\ complete(r).owner = r /\ complete(r).stopped
                      /\ complete(r).volumes = Volumes
  BY DEF Backup
<1>7. NoBackup.phase = "absent"  BY DEF NoBackup, Backup
<1> HIDE DEF complete
<1>8. \A r \in Runs, s \in Slots : HandlerIsSound(r, s, handler[r][s])  BY <1>4, IdleIsSound
<1>9. ASSUME NEW r \in Runs PROVE TransferIsSound(r) /\ TargetIsSound(r)
  <2>1. IsAfterBackup(r) => meets
    BY <1>1, <1>3, <1>4, IdleIsTyped DEF IsAfterBackup, StepsAfterBackup
  <2>2. meets => Valid(Final(r), r) /\ Valid(Synced(r), r)
    BY <1>2, <1>5, <1>6 DEF Valid, HasAll, Final, Synced
  <2>3. job[r].step \in StepsAfterBackup \cup {"FINAL_BACKUP", "COMPLETED"} => ~up[r]
    BY <1>1, <1>2, <1>3 DEF StepsAfterBackup
  <2> QED BY <1>2, <2>1, <2>2, <2>3 DEF TransferIsSound, TargetIsSound
<1>10. ASSUME NEW n \in Runs PROVE BackupIsSound(n) /\ SyncIsSound(n) /\ RestoreIsSound(n)
  <2>1. CASE ~meets
    BY <1>2, <1>7, <2>1 DEF BackupIsSound, SyncIsSound, RestoreIsSound
  <2>2. CASE meets
    <3>1. backups[n].final = complete(n) /\ synced[n] = complete(n)  BY <1>2, <2>2
    <3>2. Reached(n) /\ BackupName(n) = n  BY <1>3, <1>5, <2>2 DEF Reached, StepsBeforeBackup
    <3> QED BY <1>2, <1>6, <3>1, <3>2 DEF BackupIsSound, SyncIsSound, RestoreIsSound, HasAll
  <2> QED BY <2>1, <2>2
<1>11. ConfigIsSound
  <2>1. ASSUME NEW r \in Runs PROVE ~Restores(r)
    <3>1. RestoreOf(r).phase = "absent"  BY <1>2, NamesAreRuns DEF RestoreOf
    <3> QED BY <1>1, <1>3, <1>4, <3>1, IdleIsTyped DEF Restores
  <2>2. config.data = Merged(config.owners) /\ IsProfile(config.data)
    BY <1>2 DEF NoConfig, Merged, IsProfile
  <2> QED BY <2>1, <2>2 DEF ConfigIsSound
<1> QED BY <1>8, <1>9, <1>10, <1>11 DEF VeleroInvariant

-----------------------------------------------------------------------------
(***************************************************************************)
(* Steps of a Compose transfer.                                            *)
(***************************************************************************)
ComposeControl == Control(ComposeCalls) /\ setting \in Settings /\ IsCompose
ComposeState == ComposeTypeOK /\ ComposeControl

\* A step touches the objects of one run.
OthersKeepObjects(r) ==
  \A q \in Runs : q # r =>
    /\ project'[q] = project[q] /\ log'[q] = log[q] /\ snapshots'[q] = snapshots[q] /\ helpers'[q] = helpers[q]
    /\ namespace'[q] = namespace[q] /\ claims'[q] = claims[q] /\ kopia'[q] = kopia[q]
    /\ q \in disturbed' <=> q \in disturbed

OthersKeepHandlers(r) ==
  \A q \in Runs : q # r => job'[q].step = job[q].step /\ \A t \in Slots : handler'[q][t] = handler[q][t]

LEMMA OthersStaySound ==
  ASSUME ComposeInvariant, setting' = setting, NEW r \in Runs, OthersKeepObjects(r), OthersKeepHandlers(r),
         ComposeIsSound(r)'
  PROVE  ComposeInvariant'
<1>1. ASSUME NEW q \in Runs, q # r PROVE ComposeIsSound(q)'
  <2>1. /\ project'[q] = project[q] /\ log'[q] = log[q] /\ snapshots'[q] = snapshots[q] /\ helpers'[q] = helpers[q]
        /\ namespace'[q] = namespace[q] /\ claims'[q] = claims[q] /\ kopia'[q] = kopia[q]
        /\ q \in disturbed' <=> q \in disturbed
        /\ job'[q].step = job[q].step /\ handler'[q]["current"] = handler[q]["current"]
        /\ \A t \in Slots : handler'[q][t] = handler[q][t]
    BY <1>1 DEF OthersKeepObjects, OthersKeepHandlers, Slots
  <2>2. ComposeIsSound(q)  BY DEF ComposeInvariant
  <2>3. Failed(q)' <=> Failed(q)  BY <2>1 DEF Failed
  <2>4. Undisturbed(q)' <=> Undisturbed(q)  BY <2>1 DEF Undisturbed, HasComposeData
  <2>5. \A v \in Volumes : IsRestored(q, v)' <=> IsRestored(q, v)  BY <2>1 DEF IsRestored
  <2>6. ProjectIsSound(q)'  BY <2>1, <2>2, <2>3 DEF ComposeIsSound, ProjectIsSound, Recorded
  <2>7. ASSUME NEW s \in Slots PROVE CopierIsSound(q, handler[q][s])'
    BY <2>1, <2>2, <2>3 DEF ComposeIsSound, CopierIsSound, Recorded
  <2>8. RestorerIsSound(q, handler[q].current)'
    BY <2>1, <2>2, <2>4, <2>5 DEF ComposeIsSound, RestorerIsSound
  <2> QED BY <2>1, <2>2, <2>4, <2>5, <2>6, <2>7, <2>8 DEF ComposeIsSound
<1> QED BY <1>1 DEF ComposeInvariant

\* What handlers copy and restore is left as it is.
Calm(r) ==
  /\ project'[r] => project[r]
  /\ log[r] \subseteq log'[r]
  /\ Recorded(r, "COMPOSE_SOURCE_STOPPED")' => Recorded(r, "COMPOSE_SOURCE_STOPPED") \/ ~project[r] \/ Failed(r)
  /\ \A v \in Volumes :
       /\ snapshots'[r].final[v] = "none" => snapshots[r].final[v] = "none"
       /\ helpers'[r].final[v] = "running" \/ snapshots'[r].final[v] = "running" =>
            helpers[r].final[v] = "running" \/ snapshots[r].final[v] = "running" \/ Failed(r)
       /\ claims'[r][v] = claims[r][v] /\ kopia'[r][v] \in {kopia[r][v], "absent", "failed"}
  /\ HasComposeData /\ namespace'[r].started => namespace[r].started
  /\ disturbed' = disturbed

Fits(r, s) ==
  /\ CopierIsSound(r, handler[r][s])
  /\ s = "current" => RestorerIsSound(r, handler[r][s])

Inherits(r, s) == \E t \in Slots : handler'[r][s] = handler[r][t] /\ (s = "current" => t = "current")

LEMMA CalmIsSound ==
  ASSUME NEW r \in Runs, ComposeIsSound(r), Calm(r), setting' = setting, Failed(r) => Failed(r)',
         \A s \in Slots : Inherits(r, s) \/ Fits(r, s)'
  PROVE  ComposeIsSound(r)'
<1>1. ProjectIsSound(r)'
  BY DEF Calm, ComposeIsSound, ProjectIsSound, Recorded
<1>2. Undisturbed(r)' <=> Undisturbed(r)  BY DEF Undisturbed, HasComposeData, Calm
<1>3. Undisturbed(r) /\ namespace'[r].started => namespace[r].started  BY DEF Undisturbed, Calm
<1>4. \A v \in Volumes : IsRestored(r, v) => IsRestored(r, v)'  BY DEF IsRestored, Calm
<1>5. ASSUME NEW s \in Slots PROVE CopierIsSound(r, handler[r][s])'
  <2>1. CASE Inherits(r, s)
    <3>1. PICK t \in Slots : handler'[r][s] = handler[r][t]  BY <2>1 DEF Inherits
    <3> QED BY <3>1 DEF ComposeIsSound, CopierIsSound, Calm, Recorded
  <2> QED BY <2>1 DEF Fits
<1>6. RestorerIsSound(r, handler[r]["current"])'
  <2>1. CASE Inherits(r, "current")
    <3>1. handler'[r]["current"] = handler[r]["current"]  BY <2>1 DEF Inherits
    <3> QED BY <1>2, <1>3, <1>4, <3>1 DEF ComposeIsSound, RestorerIsSound
  <2> QED BY <2>1 DEF Fits, Slots
<1> QED BY <1>1, <1>2, <1>3, <1>4, <1>5, <1>6 DEF ComposeIsSound

\* The calls that the invariant asks nothing of.
SpecialCalls == CopyCalls \cup {"record_stopped", "record_applied", "restore", "await_restore", "start_workloads"}

LEMMA PlainFits ==
  ASSUME NEW r, NEW s, handler'[r][s].pc \notin SpecialCalls
  PROVE  Fits(r, s)'
BY DEF SpecialCalls, Fits, CopierIsSound, RestorerIsSound, CopyCalls

LEMMA ComposeWorks ==
  ASSUME ComposeState, NEW r \in Runs, NEW s \in Slots, NEW pc, IsAt(r, s, pc), pc # "none"
  PROVE  /\ Works(r, s) /\ handler[r][s].pc = pc /\ handler[r][s] \in States
         /\ handler[r][s].step \in Working /\ pc \in ComposeCalls[handler[r][s].step]
         /\ s = "current" => job[r].step = handler[r][s].step
<1>1. Works(r, s) /\ handler[r][s].pc = pc  BY DEF Works, IsAt
<1>2. handler[r][s] \in States  BY DEF ComposeState, ComposeControl, Control, HandlersTypeOK, States
<1> QED BY <1>1, <1>2, WorksAtAStep, CallsAre DEF ComposeState, ComposeControl

LEMMA WorkingHasNotFailed ==
  ASSUME NEW r, job[r].step \in Working
  PROVE  ~Failed(r)
BY DEF Failed, Working

\* A handler goes on.
LEMMA ComposeGoesSoundly ==
  ASSUME ComposeState, ComposeInvariant, NEW r \in Runs, NEW s \in Slots, NEW h \in States, Works(r, s),
         GoOn(r, s, h), h.step = handler[r][s].step, h.pc \in ComposeCalls[h.step], OthersKeepObjects(r),
         ComposeIsSound(r)'
  PROVE  ComposeControl' /\ ComposeInvariant'
<1>1. Goes(r, s, h)  BY GoOnGoes DEF ComposeState, ComposeControl, Control
<1>2. Control(ComposeCalls)' /\ Sets(r, s, h) /\ job' = job /\ setting' = setting
  BY <1>1, GoOnKeepsControl, CallsAre DEF ComposeState, ComposeControl
<1>3. OthersKeepHandlers(r)  BY <1>2 DEF Sets, OthersKeepHandlers
<1> QED BY <1>2, <1>3, OthersStaySound DEF ComposeState, ComposeControl, IsCompose

LEMMA ComposeGoesOn ==
  ASSUME ComposeState, ComposeInvariant, NEW r \in Runs, NEW s \in Slots, NEW h \in States, Works(r, s),
         GoOn(r, s, h), h.step = handler[r][s].step, h.pc \in ComposeCalls[h.step], OthersKeepObjects(r),
         Calm(r), Fits(r, s)'
  PROVE  ComposeControl' /\ ComposeInvariant'
<1>1. /\ handler \in [Runs -> [Slots -> States]] /\ ComposeIsSound(r)
      /\ job' = job /\ setting' = setting /\ handler' = [handler EXCEPT ![r][s] = h]
  BY DEF GoOn, ComposeState, ComposeControl, Control, HandlersTypeOK, States, ComposeInvariant
<1>2. \A t \in Slots : t # s => Inherits(r, t)  BY <1>1 DEF Inherits
<1>3. ComposeIsSound(r)'  BY <1>1, <1>2, CalmIsSound DEF Failed
<1> QED BY <1>3, ComposeGoesSoundly

\* It returns.
Returns(r, s) == Succeed(r, s) \/ (ReturnError(r, s) /\ failures' \in 0..MaxFaults)

LEMMA ReturningKeepsControl ==
  ASSUME ComposeState, NEW r \in Runs, NEW s \in Slots, Works(r, s), Returns(r, s)
  PROVE  /\ ComposeControl' /\ Sets(r, s, Idle) /\ setting' = setting
         /\ OthersKeepHandlers(r) /\ (Failed(r) => Failed(r)')
         /\ \A t \in Slots : Inherits(r, t) \/ Fits(r, t)'
<1>1. /\ Control(ComposeCalls)' /\ Sets(r, s, Idle) /\ setting' = setting /\ OthersKeepJobs(r)
      /\ s = "ghost" => job' = job
  <2>1. CASE Succeed(r, s)
    BY <2>1, SucceedKeepsControl, CallsAre DEF ComposeState, ComposeControl, MovesOn
  <2>2. CASE ReturnError(r, s) /\ failures' \in 0..MaxFaults
    BY <2>2, ErrorKeepsControl, CallsAre DEF ComposeState, ComposeControl, ReturnError
  <2> QED BY <2>1, <2>2 DEF Returns
<1>2. s = "current" => ~Failed(r)
  BY WorksAtAStep, CallsAre, WorkingHasNotFailed DEF ComposeState, ComposeControl
<1>3. handler'[r][s].pc \notin SpecialCalls  BY <1>1, IdleIsTyped DEF Sets, SpecialCalls, CopyCalls
<1>4. Fits(r, s)'  BY <1>3, PlainFits
<1>5. \A t \in Slots : t # s => Inherits(r, t)  BY <1>1 DEF Sets, Inherits
<1> QED BY <1>1, <1>2, <1>4, <1>5
        DEF Slots, Failed, ComposeState, ComposeControl, IsCompose, OthersKeepJobs, OthersKeepHandlers, Sets

LEMMA ComposeReturns ==
  ASSUME ComposeState, ComposeInvariant, NEW r \in Runs, NEW s \in Slots, Works(r, s), Returns(r, s),
         OthersKeepObjects(r), Calm(r)
  PROVE  ComposeControl' /\ ComposeInvariant'
<1>1. ComposeControl' /\ setting' = setting /\ OthersKeepHandlers(r) /\ (Failed(r) => Failed(r)')
  BY ReturningKeepsControl
<1>2. \A t \in Slots : Inherits(r, t) \/ Fits(r, t)'  BY ReturningKeepsControl
<1>3. ComposeIsSound(r)  BY DEF ComposeInvariant
<1>4. ComposeIsSound(r)'  BY <1>1, <1>2, <1>3, CalmIsSound
<1> QED BY <1>1, <1>4, OthersStaySound

LEMMA RefusalReturns ==
  ASSUME ComposeState, NEW r \in Runs, NEW s \in Slots, Refuse(r, s) \/ (FaultOf(s) /\ ReturnError(r, s))
  PROVE  Returns(r, s)
<1>1. ReturnError(r, s) /\ failures' \in 0..MaxFaults
  BY FaultIsBounded DEF Refuse, ComposeState, ComposeControl, Control
<1> QED BY <1>1 DEF Returns

\* It makes a call that the invariant asks nothing of.
LEMMA ComposeProceeds ==
  ASSUME ComposeState, ComposeInvariant, NEW r \in Runs, NEW s \in Slots, Works(r, s), NEW pc, ProceedTo(r, s, pc),
         pc \in ComposeCalls[handler[r][s].step], pc \notin SpecialCalls \/ Fits(r, s)', OthersKeepObjects(r), Calm(r)
  PROVE  ComposeControl' /\ ComposeInvariant'
<1> DEFINE h == At(handler[r][s].step, pc)
<1>1. handler[r][s].step \in Working  BY WorksAtAStep, CallsAre DEF ComposeState, ComposeControl
<1>2. pc \in AllCalls  BY <1>1, CallsAre DEF IsCalls
<1>3. h \in States /\ h.step = handler[r][s].step /\ h.pc = pc  BY <1>1, <1>2, AtIsTyped
<1>4. GoOn(r, s, h)  BY DEF ProceedTo
<1> HIDE DEF h
<1>5. handler'[r][s] = h
  <2>1. handler \in [Runs -> [Slots -> States]]  BY DEF ComposeState, ComposeControl, Control, HandlersTypeOK, States
  <2> QED BY <1>4, <2>1 DEF GoOn
<1>6. Fits(r, s)'  BY <1>3, <1>5, PlainFits
<1> QED BY <1>3, <1>4, <1>6, ComposeGoesOn

LEMMA ComposeCallsAre ==
  LET convert == {"start_kompose", "await_kompose"}
  IN  /\ ComposeCalls["PREFLIGHT"] = convert \cup {"publish_images", "record"}
      /\ ComposeCalls["PRESYNC"] = convert \cup CopyCalls \cup {"stateless"}
      /\ ComposeCalls["QUIESCE"] = convert \cup {"stateless", "stop_project", "record_stopped"}
      /\ ComposeCalls["FINAL_BACKUP"] = convert \cup CopyCalls \cup {"stateless", "check_stopped"}
      /\ ComposeCalls["TRANSFER"] = convert \cup {"stateless", "count_snapshots"}
      /\ ComposeCalls["TRANSFORM"] = convert \cup {"record"}
      /\ ComposeCalls["RESTORE"] =
           convert \cup {"prepare_namespace", "apply_claims", "apply_workloads", "record_applied",
                         "restore", "await_restore", "start_workloads", "record"}
      /\ ComposeCalls["VALIDATION"] = {"validate_workloads"}
BY DEF ComposeCalls

LEMMA StepOfComposeCall ==
  ASSUME NEW step \in Working, NEW pc \in ComposeCalls[step]
  PROVE  /\ pc = "publish_images" => step = "PREFLIGHT"
         /\ pc \in {"start_kompose", "await_kompose"} => step # "VALIDATION"
         /\ pc \in CopyCalls => step \in {"PRESYNC", "FINAL_BACKUP"}
         /\ pc \in {"stop_project", "record_stopped"} => step = "QUIESCE"
         /\ pc = "check_stopped" => step = "FINAL_BACKUP"
         /\ pc = "count_snapshots" => step = "TRANSFER"
         /\ pc \in {"prepare_namespace", "apply_claims", "apply_workloads", "record_applied",
                    "restore", "await_restore", "start_workloads"} => step = "RESTORE"
         /\ pc = "validate_workloads" => step = "VALIDATION"
BY ComposeCallsAre DEF Working, CopyCalls

\* Steps after which the objects are as before, up to the conversion job.
LEMMA UnchangedIsCalm ==
  ASSUME ComposeTypeOK, NEW r \in Runs, UNCHANGED composeVars
  PROVE  Calm(r) /\ OthersKeepObjects(r) /\ ComposeTypeOK'
<1>1. UNCHANGED <<project, log, snapshots, helpers, kompose, namespace, claims, kopia, disturbed>>
  BY DEF composeVars
<1>2. Calm(r)  BY <1>1 DEF Calm, Recorded
<1>3. OthersKeepObjects(r)  BY <1>1 DEF OthersKeepObjects
<1>4. ComposeTypeOK'  BY <1>1 DEF ComposeTypeOK
<1> QED BY <1>2, <1>3, <1>4

LEMMA ConversionIsCalm ==
  ASSUME ComposeTypeOK, NEW r \in Runs, NEW exists \in BOOLEAN, SetKompose(r, exists)
  PROVE  Calm(r) /\ OthersKeepObjects(r) /\ ComposeTypeOK'
<1>1. UNCHANGED <<project, log, snapshots, helpers, namespace, claims, kopia, disturbed>>
  BY DEF SetKompose
<1>2. Calm(r)  BY <1>1 DEF Calm, Recorded
<1>3. OthersKeepObjects(r)  BY <1>1 DEF OthersKeepObjects
<1>4. kompose' \in [Runs -> BOOLEAN]  BY DEF SetKompose, ComposeTypeOK
<1>5. ComposeTypeOK'  BY <1>1, <1>4 DEF ComposeTypeOK
<1> QED BY <1>2, <1>3, <1>5

LEMMA RecordStep ==
  ASSUME ComposeState, ComposeInvariant, NEW r \in Runs, NEW s \in Slots, Record(r, s)
  PROVE  ComposeTypeOK' /\ ComposeControl' /\ ComposeInvariant'
<1>1. Works(r, s) /\ Returns(r, s)  BY DEF Record, RecordsOnly, Works, IsAt, Returns
<1>2. Calm(r) /\ OthersKeepObjects(r) /\ ComposeTypeOK'  BY UnchangedIsCalm DEF Record, ComposeState
<1> QED BY <1>1, <1>2, ComposeReturns

LEMMA PublishImagesStep ==
  ASSUME ComposeState, ComposeInvariant, NEW r \in Runs, NEW s \in Slots, PublishImages(r, s)
  PROVE  ComposeTypeOK' /\ ComposeControl' /\ ComposeInvariant'
<1>1. Works(r, s) /\ handler[r][s].step \in Working /\ "publish_images" \in ComposeCalls[handler[r][s].step]
  BY ComposeWorks DEF PublishImages
<1>2. "start_kompose" \in ComposeCalls[handler[r][s].step] /\ "start_kompose" \notin SpecialCalls
  BY <1>1, StepOfComposeCall, ComposeCallsAre DEF SpecialCalls, CopyCalls
<1>3. /\ UNCHANGED <<project, snapshots, helpers, kompose, namespace, claims, kopia, disturbed>>
      /\ log' \in [Runs -> SUBSET ComposeEvents]
      /\ log'[r] \in {log[r], log[r] \cup {"COMPOSE_IMAGES_MIRRORED"}}
      /\ \A q \in Runs : q # r => log'[q] = log[q]
  BY DEF PublishImages, ComposeState, ComposeTypeOK, ComposeEvents
<1>4. Calm(r) /\ OthersKeepObjects(r) /\ ComposeTypeOK'
  BY <1>3 DEF Calm, Recorded, OthersKeepObjects, ComposeState, ComposeTypeOK
<1>5. ProceedTo(r, s, "start_kompose")  BY DEF PublishImages
<1> QED BY <1>1, <1>2, <1>4, <1>5, ComposeProceeds

LEMMA StartKomposeStep ==
  ASSUME ComposeState, ComposeInvariant, NEW r \in Runs, NEW s \in Slots, StartKompose(r, s)
  PROVE  ComposeTypeOK' /\ ComposeControl' /\ ComposeInvariant'
<1>1. Works(r, s) /\ handler[r][s].step \in Working /\ "start_kompose" \in ComposeCalls[handler[r][s].step]
  BY ComposeWorks DEF StartKompose
<1>2. "await_kompose" \in ComposeCalls[handler[r][s].step] /\ "await_kompose" \notin SpecialCalls
  BY <1>1, StepOfComposeCall, ComposeCallsAre DEF SpecialCalls, CopyCalls, Working
<1>3. Calm(r) /\ OthersKeepObjects(r) /\ ComposeTypeOK'
  BY ConversionIsCalm DEF StartKompose, ComposeState
<1>4. ProceedTo(r, s, "await_kompose")  BY DEF StartKompose
<1> QED BY <1>1, <1>2, <1>3, <1>4, ComposeProceeds

LEMMA AwaitKomposeStep ==
  ASSUME ComposeState, ComposeInvariant, NEW r \in Runs, NEW s \in Slots, AwaitKompose(r, s)
  PROVE  ComposeTypeOK' /\ ComposeControl' /\ ComposeInvariant'
<1> DEFINE step == handler[r][s].step
<1>1. Works(r, s) /\ step \in Working /\ "await_kompose" \in ComposeCalls[step]
      /\ (s = "current" => job[r].step = step) /\ handler[r][s].pc = "await_kompose"
  BY ComposeWorks DEF AwaitKompose
<1>2. step # "VALIDATION"  BY <1>1, StepOfComposeCall
<1>3. Calm(r) /\ OthersKeepObjects(r) /\ ComposeTypeOK'
  BY ConversionIsCalm DEF AwaitKompose, ComposeState
<1>4. CASE ProceedTo(r, s, AfterKompose(step))
  <2>1. step \in {"PREFLIGHT", "PRESYNC", "QUIESCE", "FINAL_BACKUP", "TRANSFER", "TRANSFORM", "RESTORE"}
    BY <1>1, <1>2 DEF Working
  <2>2. AfterKompose(step) \in ComposeCalls[step]
    BY <2>1, ComposeCallsAre DEF AfterKompose, CopyCalls
  <2>3. AfterKompose(step) \notin SpecialCalls \/ (step = "PRESYNC" /\ AfterKompose(step) = "list_snapshots")
    BY <2>1 DEF AfterKompose, SpecialCalls, CopyCalls
  <2>4. ASSUME step = "PRESYNC", AfterKompose(step) = "list_snapshots" PROVE Fits(r, s)'
    <3>1. handler'[r][s] = At("PRESYNC", "list_snapshots")
      <4>1. handler \in [Runs -> [Slots -> States]]  BY DEF ComposeState, ComposeControl, Control, HandlersTypeOK, States
      <4> QED BY <1>4, <2>4, <4>1 DEF ProceedTo, GoOn
    <3>2. handler'[r][s].step = "PRESYNC" /\ handler'[r][s].pc = "list_snapshots"  BY <3>1 DEF At
    <3> QED BY <3>2 DEF Fits, CopierIsSound, RestorerIsSound
  <2> HIDE DEF step
  <2>5. handler[r][s].step = step  BY DEF step
  <2>6. AfterKompose(step) \notin SpecialCalls \/ Fits(r, s)'  BY <2>3, <2>4
  <2>7. AfterKompose(step) \in ComposeCalls[handler[r][s].step]  BY <2>2, <2>5
  <2> QED BY <1>1, <1>3, <1>4, <2>6, <2>7, ComposeProceeds
<1>5. CASE Refuse(r, s)  BY <1>1, <1>3, <1>5, RefusalReturns, ComposeReturns
<1> QED BY <1>4, <1>5 DEF AwaitKompose

LEMMA StopProjectStep ==
  ASSUME ComposeState, ComposeInvariant, NEW r \in Runs, NEW s \in Slots, StopProject(r, s)
  PROVE  ComposeTypeOK' /\ ComposeControl' /\ ComposeInvariant'
<1>1. Works(r, s) /\ handler[r][s].step \in Working /\ "stop_project" \in ComposeCalls[handler[r][s].step]
  BY ComposeWorks DEF StopProject
<1>2. handler[r][s].step = "QUIESCE" /\ "record_stopped" \in ComposeCalls["QUIESCE"]
  BY <1>1, StepOfComposeCall, ComposeCallsAre
<1>3. CASE Succeed(r, s) /\ UNCHANGED project
  <2>1. UNCHANGED composeVars  BY <1>3 DEF StopProject, composeVars
  <2>2. Calm(r) /\ OthersKeepObjects(r) /\ ComposeTypeOK'  BY <2>1, UnchangedIsCalm DEF ComposeState
  <2> QED BY <1>1, <1>3, <2>2, ComposeReturns DEF Returns
<1>4. CASE project' = [project EXCEPT ![r] = FALSE] /\ ProceedTo(r, s, "record_stopped")
  <2>1. /\ UNCHANGED <<log, snapshots, helpers, kompose, namespace, claims, kopia, disturbed>>
        /\ project' \in [Runs -> BOOLEAN] /\ ~project'[r] /\ \A q \in Runs : q # r => project'[q] = project[q]
    BY <1>4 DEF StopProject, ComposeState, ComposeTypeOK
  <2>2. Calm(r) /\ OthersKeepObjects(r) /\ ComposeTypeOK'
    BY <2>1 DEF Calm, Recorded, OthersKeepObjects, ComposeState, ComposeTypeOK
  <2>3. Fits(r, s)'
    <3>1. handler'[r][s] = At("QUIESCE", "record_stopped")
      <4>1. handler \in [Runs -> [Slots -> States]]  BY DEF ComposeState, ComposeControl, Control, HandlersTypeOK, States
      <4> QED BY <1>2, <1>4, <4>1 DEF ProceedTo, GoOn
    <3>2. handler'[r][s].step = "QUIESCE" /\ handler'[r][s].pc = "record_stopped"  BY <3>1 DEF At
    <3> QED BY <2>1, <3>2 DEF Fits, CopierIsSound, RestorerIsSound, CopyCalls
  <2> QED BY <1>1, <1>2, <1>4, <2>2, <2>3, ComposeProceeds
<1> QED BY <1>3, <1>4 DEF StopProject

LEMMA RecordStoppedStep ==
  ASSUME ComposeState, ComposeInvariant, NEW r \in Runs, NEW s \in Slots, RecordStopped(r, s)
  PROVE  ComposeTypeOK' /\ ComposeControl' /\ ComposeInvariant'
<1>1. Works(r, s) /\ handler[r][s].pc = "record_stopped"  BY ComposeWorks DEF RecordStopped
<1>2. ~project[r] \/ Failed(r)  BY <1>1 DEF ComposeInvariant, ComposeIsSound, CopierIsSound
<1>3. /\ UNCHANGED <<project, snapshots, helpers, kompose, namespace, claims, kopia, disturbed>>
      /\ log' \in [Runs -> SUBSET ComposeEvents] /\ log[r] \subseteq log'[r]
      /\ \A q \in Runs : q # r => log'[q] = log[q]
  BY DEF RecordStopped, ComposeState, ComposeTypeOK, ComposeEvents
<1>4. Calm(r) /\ OthersKeepObjects(r) /\ ComposeTypeOK'
  BY <1>2, <1>3 DEF Calm, Recorded, OthersKeepObjects, ComposeState, ComposeTypeOK
<1>5. Returns(r, s)  BY DEF RecordStopped, Returns
<1> QED BY <1>1, <1>4, <1>5, ComposeReturns

LEMMA GoOnSets ==
  ASSUME ComposeState, NEW r \in Runs, NEW s \in Slots, NEW h, GoOn(r, s, h)
  PROVE  /\ handler'[r][s] = h /\ job' = job /\ setting' = setting
         /\ \A t \in Slots : t # s => handler'[r][t] = handler[r][t]
<1>1. handler \in [Runs -> [Slots -> States]]
  BY DEF ComposeState, ComposeControl, Control, HandlersTypeOK, States
<1> QED BY <1>1 DEF GoOn

LEMMA CheckStoppedStep ==
  ASSUME ComposeState, ComposeInvariant, NEW r \in Runs, NEW s \in Slots, CheckStopped(r, s)
  PROVE  ComposeTypeOK' /\ ComposeControl' /\ ComposeInvariant'
<1>1. Works(r, s) /\ handler[r][s].step = "FINAL_BACKUP"
  BY ComposeWorks, StepOfComposeCall DEF CheckStopped
<1>2. Calm(r) /\ OthersKeepObjects(r) /\ ComposeTypeOK'  BY UnchangedIsCalm DEF CheckStopped, ComposeState
<1>3. CASE Recorded(r, "COMPOSE_SOURCE_STOPPED") /\ ProceedTo(r, s, "list_snapshots")
  <2>1. "list_snapshots" \in ComposeCalls[handler[r][s].step]  BY <1>1, ComposeCallsAre DEF CopyCalls
  <2>2. handler'[r][s].pc = "list_snapshots"  BY <1>3, GoOnSets DEF ProceedTo, At
  <2>3. Recorded(r, "COMPOSE_SOURCE_STOPPED")'  BY <1>2, <1>3 DEF Calm, Recorded
  <2>4. Fits(r, s)'  BY <2>2, <2>3 DEF Fits, CopierIsSound, RestorerIsSound
  <2> QED BY <1>1, <1>2, <1>3, <2>1, <2>4, ComposeProceeds
<1>4. CASE Refuse(r, s)  BY <1>1, <1>2, <1>4, RefusalReturns, ComposeReturns
<1> QED BY <1>3, <1>4 DEF CheckStopped

LEMMA CopierFits ==
  ASSUME ComposeState, ComposeInvariant, NEW r \in Runs, NEW s \in Slots, handler[r][s].pc \in CopyCalls,
         handler'[r][s].step = handler[r][s].step, handler'[r][s].pc \in CopyCalls, log' = log
  PROVE  Fits(r, s)'
<1>1. CopierIsSound(r, handler[r][s])  BY DEF ComposeInvariant, ComposeIsSound
<1> QED BY <1>1 DEF Fits, CopierIsSound, RestorerIsSound, CopyCalls, Recorded

LEMMA CopierWorks ==
  ASSUME ComposeState, ComposeInvariant, NEW r \in Runs, NEW s \in Slots, NEW pc \in CopyCalls, IsAt(r, s, pc)
  PROVE  /\ Works(r, s) /\ handler[r][s].pc = pc /\ handler[r][s] \in States
         /\ handler[r][s].step \in {"PRESYNC", "FINAL_BACKUP"}
         /\ CopyCalls \subseteq ComposeCalls[handler[r][s].step] /\ CopyCalls \subseteq AllCalls
         /\ handler[r][s].step = "FINAL_BACKUP" /\ ~Failed(r) => ~project[r]
<1>1. pc # "none"  BY DEF CopyCalls
<1>2. /\ Works(r, s) /\ handler[r][s].pc = pc /\ handler[r][s] \in States
      /\ handler[r][s].step \in {"PRESYNC", "FINAL_BACKUP"}
  BY <1>1, ComposeWorks, StepOfComposeCall
<1>3. CopyCalls \subseteq ComposeCalls[handler[r][s].step]  BY <1>2, ComposeCallsAre
<1>4. CopyCalls \subseteq AllCalls  BY <1>2, <1>3, CallsAre DEF IsCalls, Working
<1>5. handler[r][s].step = "FINAL_BACKUP" /\ ~Failed(r) => ~project[r]
  BY <1>2 DEF ComposeInvariant, ComposeIsSound, CopierIsSound, ProjectIsSound
<1> QED BY <1>2, <1>3, <1>4, <1>5

LEMMA ListSnapshotsStep ==
  ASSUME ComposeState, ComposeInvariant, NEW r \in Runs, NEW s \in Slots, ListSnapshots(r, s)
  PROVE  ComposeTypeOK' /\ ComposeControl' /\ ComposeInvariant'
<1> DEFINE todo == {v \in Volumes : snapshots[r][PhaseOf(r, s)][v] = "none"}
           h == [At(handler[r][s].step, "snapshot") EXCEPT !.todo = todo]
<1>1. "list_snapshots" \in CopyCalls /\ "snapshot" \in CopyCalls  BY DEF CopyCalls
<1>2. /\ Works(r, s) /\ handler[r][s].pc = "list_snapshots" /\ handler[r][s].step \in {"PRESYNC", "FINAL_BACKUP"}
      /\ CopyCalls \subseteq ComposeCalls[handler[r][s].step] /\ CopyCalls \subseteq AllCalls
  BY <1>1, CopierWorks DEF ListSnapshots
<1>3. Calm(r) /\ OthersKeepObjects(r) /\ ComposeTypeOK'  BY UnchangedIsCalm DEF ListSnapshots, ComposeState
<1>4. h \in States /\ h.step = handler[r][s].step /\ h.pc = "snapshot"
  <2>1. At(handler[r][s].step, "snapshot") \in States  BY <1>1, <1>2, AtIsTyped DEF Working
  <2> QED BY <2>1 DEF At, States, HandlerStates
<1>5. GoOn(r, s, h)  BY DEF ListSnapshots
<1> HIDE DEF h
<1>6. handler'[r][s] = h  BY <1>5, GoOnSets
<1>7. log' = log  BY DEF ListSnapshots, composeVars
<1>8. Fits(r, s)'  BY <1>1, <1>2, <1>4, <1>6, <1>7, CopierFits
<1> QED BY <1>1, <1>2, <1>3, <1>4, <1>5, <1>8, ComposeGoesOn

\* One volume's copy in one of the phases changes.
LEMMA OneCopy ==
  ASSUME NEW f \in [Runs -> [SnapshotPhases -> [Volumes -> Copies]]], NEW g, NEW r \in Runs,
         NEW phase \in SnapshotPhases, NEW v \in Volumes, NEW copy \in Copies,
         g = [f EXCEPT ![r][phase][v] = copy]
  PROVE  /\ g \in [Runs -> [SnapshotPhases -> [Volumes -> Copies]]]
         /\ \A q \in Runs : q # r => g[q] = f[q]
         /\ g[r][phase][v] = copy
         /\ \A p \in SnapshotPhases, w \in Volumes : p # phase \/ w # v => g[r][p][w] = f[r][p][w]
OBVIOUS

LEMMA RunHelperStep ==
  ASSUME ComposeState, ComposeInvariant, NEW r \in Runs, NEW s \in Slots, NEW v \in Volumes, RunHelper(r, s, v)
  PROVE  ComposeTypeOK' /\ ComposeControl' /\ ComposeInvariant'
<1> DEFINE g == handler[r][s]
           h == [g EXCEPT !.pc = "await_helper"]
           phase == HelperOf(r, s)
           held == helpers[r][phase][v]
           copy == IF held # "none" THEN held ELSE IF project[r] THEN "running" ELSE "stopped"
<1>1. "snapshot" \in CopyCalls /\ "await_helper" \in CopyCalls  BY DEF CopyCalls
<1>2. /\ Works(r, s) /\ g.pc = "snapshot" /\ g \in States /\ g.step \in {"PRESYNC", "FINAL_BACKUP"}
      /\ CopyCalls \subseteq ComposeCalls[g.step] /\ CopyCalls \subseteq AllCalls
      /\ g.step = "FINAL_BACKUP" /\ ~Failed(r) => ~project[r]
  BY <1>1, CopierWorks DEF RunHelper
<1>3. h \in States /\ h.step = g.step /\ h.pc = "await_helper"
  BY <1>1, <1>2 DEF States, HandlerStates
<1>4. GoOn(r, s, h) /\ UNCHANGED <<project, log, snapshots, kompose, namespace, claims, kopia, disturbed>>
  BY DEF RunHelper
<1>5. phase \in SnapshotPhases /\ (phase = "final" <=> g.step = "FINAL_BACKUP")
  BY <1>2 DEF HelperOf, PhaseOf, SnapshotPhases
<1>6. copy \in Copies  BY <1>5 DEF ComposeState, ComposeTypeOK, Copies
<1>7. helpers' = [helpers EXCEPT ![r][phase][v] = copy]  BY DEF RunHelper
<1>8. phase = "final" /\ copy = "running" => held = "running" \/ Failed(r)  BY <1>2, <1>5
<1> HIDE DEF h, copy, phase
<1>9. /\ helpers' \in [Runs -> [SnapshotPhases -> [Volumes -> Copies]]]
      /\ \A q \in Runs : q # r => helpers'[q] = helpers[q]
      /\ helpers'[r][phase][v] = copy
      /\ \A p \in SnapshotPhases, w \in Volumes : p # phase \/ w # v => helpers'[r][p][w] = helpers[r][p][w]
  BY <1>5, <1>6, <1>7, OneCopy DEF ComposeState, ComposeTypeOK
<1>10. handler'[r][s] = h  BY <1>4, GoOnSets
<1>11. Fits(r, s)'  BY <1>1, <1>2, <1>3, <1>4, <1>10, CopierFits
<1>12. ComposeTypeOK'  BY <1>4, <1>9 DEF ComposeState, ComposeTypeOK
<1>13. ASSUME NEW w \in Volumes, helpers'[r].final[w] = "running" PROVE helpers[r].final[w] = "running" \/ Failed(r)
  <2>1. "final" \in SnapshotPhases  BY DEF SnapshotPhases
  <2>2. CASE phase = "final" /\ w = v  BY <1>8, <1>9, <1>13, <2>1, <2>2
  <2>3. CASE phase # "final" \/ w # v  BY <1>9, <1>13, <2>1, <2>3
  <2> QED BY <2>2, <2>3
<1>14. Calm(r)  BY <1>4, <1>13 DEF Calm, Recorded
<1>15. OthersKeepObjects(r)  BY <1>4, <1>9 DEF OthersKeepObjects
<1> QED BY <1>1, <1>2, <1>3, <1>4, <1>11, <1>12, <1>14, <1>15, ComposeGoesOn

LEMMA AwaitHelperStep ==
  ASSUME ComposeState, ComposeInvariant, NEW r \in Runs, NEW s \in Slots, NEW v \in Volumes, AwaitHelper(r, s, v)
  PROVE  ComposeTypeOK' /\ ComposeControl' /\ ComposeInvariant'
<1> DEFINE g == handler[r][s]
           h == [g EXCEPT !.pc = "snapshot", !.todo = @ \ {v}]
           phase == PhaseOf(r, s)
           held == helpers[r][phase][v]
<1>1. "snapshot" \in CopyCalls /\ "await_helper" \in CopyCalls  BY DEF CopyCalls
<1>2. /\ Works(r, s) /\ g.pc = "await_helper" /\ g \in States /\ g.step \in {"PRESYNC", "FINAL_BACKUP"}
      /\ CopyCalls \subseteq ComposeCalls[g.step] /\ CopyCalls \subseteq AllCalls
  BY <1>1, CopierWorks DEF AwaitHelper
<1>3. h \in States /\ h.step = g.step /\ h.pc = "snapshot"
  BY <1>1, <1>2 DEF States, HandlerStates
<1>4. UNCHANGED <<project, log, kompose, namespace, claims, kopia, disturbed>>
  BY DEF AwaitHelper
<1>5. phase \in SnapshotPhases  BY DEF PhaseOf, SnapshotPhases
<1>6. held \in Copies /\ "none" \in Copies  BY <1>5 DEF ComposeState, ComposeTypeOK, Copies
<1>7. helpers' = [helpers EXCEPT ![r][phase][v] = "none"]  BY DEF AwaitHelper, HelperOf
<1>8. \/ UNCHANGED snapshots /\ Refuse(r, s)
      \/ UNCHANGED snapshots /\ FaultOf(s) /\ ReturnError(r, s)
      \/ snapshots' = [snapshots EXCEPT ![r][phase][v] = held] /\ held # "none" /\ GoOn(r, s, h)
  BY DEF AwaitHelper, HelperOf
<1> HIDE DEF h, phase
<1>9. /\ helpers' \in [Runs -> [SnapshotPhases -> [Volumes -> Copies]]]
      /\ \A q \in Runs : q # r => helpers'[q] = helpers[q]
      /\ helpers'[r][phase][v] = "none"
      /\ \A p \in SnapshotPhases, w \in Volumes : p # phase \/ w # v => helpers'[r][p][w] = helpers[r][p][w]
  BY <1>5, <1>6, <1>7, OneCopy DEF ComposeState, ComposeTypeOK
<1>10. "final" \in SnapshotPhases  BY DEF SnapshotPhases
<1>11. \A w \in Volumes : helpers'[r].final[w] = "running" => helpers[r].final[w] = "running"
  BY <1>9, <1>10
<1>12. CASE UNCHANGED snapshots /\ (Refuse(r, s) \/ (FaultOf(s) /\ ReturnError(r, s)))
  <2>1. Calm(r)  BY <1>4, <1>11, <1>12 DEF Calm, Recorded
  <2>2. OthersKeepObjects(r) /\ ComposeTypeOK'
    BY <1>4, <1>9, <1>12 DEF OthersKeepObjects, ComposeState, ComposeTypeOK
  <2> QED BY <1>2, <1>12, <2>1, <2>2, RefusalReturns, ComposeReturns
<1>13. CASE snapshots' = [snapshots EXCEPT ![r][phase][v] = held] /\ held # "none" /\ GoOn(r, s, h)
  <2>1. PICK copy \in Copies : copy = held  BY <1>6
  <2>2. snapshots' = [snapshots EXCEPT ![r][phase][v] = copy]  BY <1>13, <2>1
  <2>3. /\ snapshots' \in [Runs -> [SnapshotPhases -> [Volumes -> Copies]]]
        /\ \A q \in Runs : q # r => snapshots'[q] = snapshots[q]
        /\ snapshots'[r][phase][v] = copy
        /\ \A p \in SnapshotPhases, w \in Volumes : p # phase \/ w # v => snapshots'[r][p][w] = snapshots[r][p][w]
    BY <1>5, <2>2, OneCopy DEF ComposeState, ComposeTypeOK
  <2>4. ASSUME NEW w \in Volumes
        PROVE  /\ snapshots'[r].final[w] = "none" => snapshots[r].final[w] = "none"
               /\ snapshots'[r].final[w] = "running" =>
                    snapshots[r].final[w] = "running" \/ helpers[r].final[w] = "running"
    <3>1. CASE phase = "final" /\ w = v  BY <1>10, <1>13, <2>1, <2>3, <3>1
    <3>2. CASE phase # "final" \/ w # v  BY <1>10, <2>3, <3>2
    <3> QED BY <3>1, <3>2
  <2>5. Calm(r)  BY <1>4, <1>11, <2>4 DEF Calm, Recorded
  <2>6. OthersKeepObjects(r) /\ ComposeTypeOK'
    BY <1>4, <1>9, <2>3 DEF OthersKeepObjects, ComposeState, ComposeTypeOK
  <2>7. handler'[r][s] = h  BY <1>13, GoOnSets
  <2>8. Fits(r, s)'  BY <1>1, <1>2, <1>3, <1>4, <2>7, CopierFits
  <2> QED BY <1>1, <1>2, <1>3, <1>13, <2>5, <2>6, <2>8, ComposeGoesOn
<1> QED BY <1>8, <1>12, <1>13

LEMMA SnapshotsEndStep ==
  ASSUME ComposeState, ComposeInvariant, NEW r \in Runs, NEW s \in Slots, SnapshotsEnd(r, s)
  PROVE  ComposeTypeOK' /\ ComposeControl' /\ ComposeInvariant'
<1>1. Works(r, s) /\ Returns(r, s)  BY ComposeWorks DEF SnapshotsEnd, Returns
<1>2. Calm(r) /\ OthersKeepObjects(r) /\ ComposeTypeOK'  BY UnchangedIsCalm DEF SnapshotsEnd, ComposeState
<1> QED BY <1>1, <1>2, ComposeReturns

LEMMA CountSnapshotsStep ==
  ASSUME ComposeState, ComposeInvariant, NEW r \in Runs, NEW s \in Slots, CountSnapshots(r, s)
  PROVE  ComposeTypeOK' /\ ComposeControl' /\ ComposeInvariant'
<1>1. Works(r, s)  BY ComposeWorks DEF CountSnapshots
<1>2. Calm(r) /\ OthersKeepObjects(r) /\ ComposeTypeOK'  BY UnchangedIsCalm DEF CountSnapshots, ComposeState
<1>3. Returns(r, s)  BY RefusalReturns DEF CountSnapshots, Returns
<1> QED BY <1>1, <1>2, <1>3, ComposeReturns

NamespaceStates ==
  [objects : SUBSET {"claims", "workloads"}, started : BOOLEAN, admission : {"none", "restricted", "privileged"}]

LEMMA NamespaceIsTyped ==
  ASSUME NEW n \in NamespaceStates, NEW admission \in {"none", "restricted", "privileged"}
  PROVE  LET m == [n EXCEPT !.admission = admission]
         IN  m \in NamespaceStates /\ m.started = n.started
BY DEF NamespaceStates

\* Something of the namespace of one run changes.
LEMMA OneNamespace ==
  ASSUME ComposeTypeOK, NEW r \in Runs, NEW value \in NamespaceStates, namespace' = [namespace EXCEPT ![r] = value]
  PROVE  /\ namespace' \in [Runs -> NamespaceStates] /\ namespace'[r] = value
         /\ \A q \in Runs : q # r => namespace'[q] = namespace[q]
BY DEF ComposeTypeOK, NamespaceStates

LEMMA NamespaceIsCalm ==
  ASSUME ComposeTypeOK, NEW r \in Runs, NEW value \in NamespaceStates, SetNamespace(r, value), log' = log,
         HasComposeData /\ value.started => namespace[r].started
  PROVE  Calm(r) /\ OthersKeepObjects(r) /\ ComposeTypeOK' /\ namespace'[r] = value
<1>1. UNCHANGED <<project, log, snapshots, helpers, kompose, claims, kopia, disturbed>>
  BY DEF SetNamespace
<1>2. namespace' \in [Runs -> NamespaceStates] /\ namespace'[r] = value /\ \A q \in Runs : q # r => namespace'[q] = namespace[q]
  BY DEF SetNamespace, ComposeTypeOK, NamespaceStates
<1>3. Calm(r)  BY <1>1, <1>2 DEF Calm, Recorded
<1>4. OthersKeepObjects(r)  BY <1>1, <1>2 DEF OthersKeepObjects
<1>5. ComposeTypeOK'  BY <1>1, <1>2 DEF ComposeTypeOK, NamespaceStates
<1> QED BY <1>2, <1>3, <1>4, <1>5

LEMMA PrepareNamespaceStep ==
  ASSUME ComposeState, ComposeInvariant, NEW r \in Runs, NEW s \in Slots, PrepareNamespace(r, s)
  PROVE  ComposeTypeOK' /\ ComposeControl' /\ ComposeInvariant'
<1> DEFINE admission == IF PublishedImages(r) THEN "none" ELSE namespace[r].admission
           value == [namespace[r] EXCEPT !.admission = admission]
<1>1. Works(r, s) /\ handler[r][s].step = "RESTORE"
  BY ComposeWorks, StepOfComposeCall DEF PrepareNamespace
<1>2. value \in NamespaceStates /\ value.started = namespace[r].started
  <2>1. namespace[r] \in NamespaceStates /\ admission \in {"none", "restricted", "privileged"}
    BY DEF ComposeState, ComposeTypeOK, NamespaceStates
  <2> QED BY <2>1 DEF NamespaceStates
<1>3. SetNamespace(r, value) /\ log' = log  BY DEF PrepareNamespace
<1> HIDE DEF value
<1>4. Calm(r) /\ OthersKeepObjects(r) /\ ComposeTypeOK'  BY <1>2, <1>3, NamespaceIsCalm DEF ComposeState
<1>5. "apply_claims" \in ComposeCalls[handler[r][s].step] /\ "apply_claims" \notin SpecialCalls
  BY <1>1, ComposeCallsAre DEF SpecialCalls, CopyCalls
<1>6. ProceedTo(r, s, "apply_claims")  BY DEF PrepareNamespace
<1> QED BY <1>1, <1>4, <1>5, <1>6, ComposeProceeds

LEMMA ApplyStep ==
  ASSUME ComposeState, ComposeInvariant, NEW r \in Runs, NEW s \in Slots, NEW kind, NEW next,
         Works(r, s), handler[r][s].step = "RESTORE", Apply(r, s, kind, next),
         \/ kind = "claims" /\ next = "apply_workloads"
         \/ kind = "workloads" /\ next = "record_applied"
  PROVE  ComposeTypeOK' /\ ComposeControl' /\ ComposeInvariant'
<1> DEFINE allowed == kind \notin namespace[r].objects \/ Overwrites(r)
           objects == IF allowed THEN namespace[r].objects \cup {kind} ELSE namespace[r].objects
           started == IF allowed /\ kind = "workloads" THEN ~HasComposeData ELSE namespace[r].started
           value == [namespace[r] EXCEPT !.admission = "restricted", !.objects = objects, !.started = started]
<1>1. SetNamespace(r, value) /\ log' = log  BY DEF Apply
<1>2. namespace[r] \in NamespaceStates  BY DEF ComposeState, ComposeTypeOK, NamespaceStates
<1>3. objects \in SUBSET {"claims", "workloads"}  BY <1>2 DEF NamespaceStates
<1>4. setting.data \in BOOLEAN  BY SettingsAre DEF ComposeState, ComposeControl, IsCompose
<1>5. started \in BOOLEAN  BY <1>2, <1>4 DEF NamespaceStates, HasComposeData
<1>6. HasComposeData /\ started => namespace[r].started  OBVIOUS
<1>7. allowed /\ kind = "workloads" /\ HasComposeData => ~started  OBVIOUS
<1>8. value \in NamespaceStates /\ value.started = started
  <2>1. PICK n \in NamespaceStates, o \in SUBSET {"claims", "workloads"}, b \in BOOLEAN :
          n = namespace[r] /\ o = objects /\ b = started
    BY <1>2, <1>3, <1>5
  <2>2. value = [n EXCEPT !.admission = "restricted", !.objects = o, !.started = b]  BY <2>1
  <2> HIDE DEF value, objects, started
  <2>3. [n EXCEPT !.admission = "restricted", !.objects = o, !.started = b] \in NamespaceStates
        /\ [n EXCEPT !.admission = "restricted", !.objects = o, !.started = b].started = b
    BY DEF NamespaceStates
  <2> QED BY <2>1, <2>2, <2>3
<1>9. IF allowed THEN ProceedTo(r, s, next) ELSE Refuse(r, s)  BY DEF Apply
<1> HIDE DEF value, started
<1>10. Calm(r) /\ OthersKeepObjects(r) /\ ComposeTypeOK' /\ namespace'[r] = value
  BY <1>1, <1>6, <1>8, NamespaceIsCalm DEF ComposeState
<1>11. CASE allowed
  <2>1. next \in ComposeCalls[handler[r][s].step]  BY ComposeCallsAre
  <2>2. CASE kind = "claims" /\ next = "apply_workloads"
    <3>1. next \notin SpecialCalls  BY <2>2 DEF SpecialCalls, CopyCalls
    <3> QED BY <1>9, <1>10, <1>11, <2>1, <3>1, ComposeProceeds
  <2>3. CASE kind = "workloads" /\ next = "record_applied"
    <3>1. handler'[r][s].pc = "record_applied" /\ setting' = setting
      BY <1>9, <1>11, <2>3, GoOnSets DEF ProceedTo, At
    <3>2. HasComposeData' => ~namespace'[r].started
      BY <1>7, <1>8, <1>10, <1>11, <2>3, <3>1 DEF HasComposeData
    <3>3. Fits(r, s)'  BY <3>1, <3>2 DEF Fits, CopierIsSound, RestorerIsSound, CopyCalls, Undisturbed
    <3> QED BY <1>9, <1>10, <1>11, <2>1, <3>3, ComposeProceeds
  <2> QED BY <2>2, <2>3
<1>12. CASE ~allowed
  BY <1>9, <1>10, <1>12, RefusalReturns, ComposeReturns
<1> QED BY <1>11, <1>12

LEMMA ApplyClaimsStep ==
  ASSUME ComposeState, ComposeInvariant, NEW r \in Runs, NEW s \in Slots, ApplyClaims(r, s) \/ ApplyWorkloads(r, s)
  PROVE  ComposeTypeOK' /\ ComposeControl' /\ ComposeInvariant'
<1>1. Works(r, s) /\ handler[r][s].step = "RESTORE"
  BY ComposeWorks, StepOfComposeCall DEF ApplyClaims, ApplyWorkloads
<1>2. \/ Apply(r, s, "claims", "apply_workloads") \/ Apply(r, s, "workloads", "record_applied")
  BY DEF ApplyClaims, ApplyWorkloads
<1> QED BY <1>1, <1>2, ApplyStep

LEMMA RecordAppliedStep ==
  ASSUME ComposeState, ComposeInvariant, NEW r \in Runs, NEW s \in Slots, RecordApplied(r, s)
  PROVE  ComposeTypeOK' /\ ComposeControl' /\ ComposeInvariant'
<1> DEFINE h == [At(handler[r][s].step, AfterApplying) EXCEPT !.todo = Volumes]
<1>1. Works(r, s) /\ handler[r][s].step = "RESTORE" /\ handler[r][s].pc = "record_applied"
  BY ComposeWorks, StepOfComposeCall DEF RecordApplied
<1>2. AfterApplying \in ComposeCalls["RESTORE"]  BY ComposeCallsAre DEF AfterApplying
<1>3. AfterApplying \in AllCalls  BY <1>2, CallsAre DEF IsCalls, Working
<1>4. h \in States /\ h.step = "RESTORE" /\ h.pc = AfterApplying /\ h.todo = Volumes
  <2>1. At("RESTORE", AfterApplying) \in States  BY <1>3, AtIsTyped DEF Working
  <2> QED BY <1>1, <2>1 DEF At, States, HandlerStates
<1>5. GoOn(r, s, h)  BY DEF RecordApplied
<1> HIDE DEF h
<1>6. handler'[r][s] = h /\ setting' = setting  BY <1>5, GoOnSets
<1>7. /\ UNCHANGED <<project, snapshots, helpers, kompose, namespace, claims, kopia, disturbed>>
      /\ log' \in [Runs -> SUBSET ComposeEvents] /\ log'[r] = log[r] \cup {"COMPOSE_MANIFESTS_APPLIED"}
      /\ \A q \in Runs : q # r => log'[q] = log[q]
  BY DEF RecordApplied, ComposeState, ComposeTypeOK, ComposeEvents
<1>8. Calm(r) /\ OthersKeepObjects(r) /\ ComposeTypeOK'
  BY <1>7 DEF Calm, Recorded, OthersKeepObjects, ComposeState, ComposeTypeOK
<1>9. Fits(r, s)'
  <2>1. CopierIsSound(r, handler[r][s])'
    BY <1>4, <1>6 DEF CopierIsSound, AfterApplying, CopyCalls
  <2>2. ASSUME s = "current" PROVE RestorerIsSound(r, handler[r][s])'
    <3>1. Undisturbed(r)' => ~namespace'[r].started
      <4>1. RestorerIsSound(r, handler[r]["current"])  BY DEF ComposeInvariant, ComposeIsSound
      <4> QED BY <1>1, <1>6, <1>7, <2>2, <4>1 DEF RestorerIsSound, Undisturbed, HasComposeData
    <3>2. handler'[r][s].todo = Volumes /\ handler'[r][s].pc \in {"restore", "record"}
      BY <1>4, <1>6 DEF AfterApplying
    <3> QED BY <3>1, <3>2 DEF RestorerIsSound
  <2> QED BY <2>1, <2>2 DEF Fits
<1> QED BY <1>1, <1>2, <1>4, <1>5, <1>8, <1>9, ComposeGoesOn

LEMMA VolumesRestoredStep ==
  ASSUME ComposeState, ComposeInvariant, NEW r \in Runs, NEW s \in Slots, VolumesRestored(r, s)
  PROVE  ComposeTypeOK' /\ ComposeControl' /\ ComposeInvariant'
<1>1. Works(r, s) /\ handler[r][s].step = "RESTORE" /\ handler[r][s].pc = "restore" /\ handler[r][s].todo = {}
  BY ComposeWorks, StepOfComposeCall DEF VolumesRestored
<1>2. UNCHANGED composeVars /\ ProceedTo(r, s, "start_workloads")  BY DEF VolumesRestored
<1>3. Calm(r) /\ OthersKeepObjects(r) /\ ComposeTypeOK'  BY <1>2, UnchangedIsCalm DEF ComposeState
<1>4. "start_workloads" \in ComposeCalls[handler[r][s].step]  BY <1>1, ComposeCallsAre
<1>5. handler'[r][s].pc = "start_workloads" /\ setting' = setting  BY <1>2, GoOnSets DEF ProceedTo, At
<1>6. ASSUME s = "current", Undisturbed(r)', NEW v \in Volumes PROVE IsRestored(r, v)'
  <2>1. RestorerIsSound(r, handler[r]["current"])  BY DEF ComposeInvariant, ComposeIsSound
  <2>2. IsRestored(r, v)
    BY <1>1, <1>2, <1>5, <1>6, <2>1 DEF RestorerIsSound, Undisturbed, HasComposeData, composeVars
  <2> QED BY <1>2, <2>2 DEF IsRestored, composeVars
<1>7. Fits(r, s)'  BY <1>5, <1>6 DEF Fits, CopierIsSound, RestorerIsSound, CopyCalls
<1> QED BY <1>1, <1>2, <1>3, <1>4, <1>7, ComposeProceeds

LEMMA StartRestoreStep ==
  ASSUME ComposeState, ComposeInvariant, NEW r \in Runs, NEW s \in Slots, NEW v \in Volumes, StartRestore(r, s, v)
  PROVE  ComposeTypeOK' /\ ComposeControl' /\ ComposeInvariant'
<1> DEFINE g == handler[r][s]
           h == [g EXCEPT !.pc = "await_restore"]
<1>1. Works(r, s) /\ g \in States /\ g.step = "RESTORE" /\ g.pc = "restore" /\ v \in g.todo
  BY ComposeWorks, StepOfComposeCall DEF StartRestore, IsNext
<1>2. CASE Refuse(r, s) /\ UNCHANGED composeVars
  <2>1. Calm(r) /\ OthersKeepObjects(r) /\ ComposeTypeOK'  BY <1>2, UnchangedIsCalm DEF ComposeState
  <2> QED BY <1>1, <1>2, <2>1, RefusalReturns, ComposeReturns
<1>3. CASE ~(Refuse(r, s) /\ UNCHANGED composeVars)
  <2>1. /\ UNCHANGED <<project, log, snapshots, helpers, kompose>>
        /\ GoOn(r, s, h) /\ DisturbedBy(r, s) /\ snapshots[r].final[v] # "none"
        /\ kopia' = [kopia EXCEPT ![r][v] = "active"]
        /\ claims' = [claims EXCEPT ![r][v] = "partial"]
        /\ namespace' = [namespace EXCEPT ![r].admission = "privileged"]
    BY <1>3 DEF StartRestore, FinalSnapshots
  <2>2. "await_restore" \in ComposeCalls["RESTORE"]  BY ComposeCallsAre
  <2>3. "await_restore" \in AllCalls  BY <2>2, CallsAre DEF IsCalls, Working
  <2>4. h \in States /\ h.step = "RESTORE" /\ h.pc = "await_restore" /\ h.todo = g.todo
    BY <1>1, <2>3 DEF States, HandlerStates
  <2> HIDE DEF h
  <2>5. /\ handler'[r][s] = h /\ job' = job /\ setting' = setting
        /\ \A t \in Slots : t # s => handler'[r][t] = handler[r][t]
    BY <2>1, GoOnSets
  <2>6. /\ kopia' \in [Runs -> [Volumes -> {"absent", "active", "complete", "failed"}]]
        /\ kopia'[r][v] = "active" /\ \A w \in Volumes : w # v => kopia'[r][w] = kopia[r][w]
        /\ \A q \in Runs : q # r => kopia'[q] = kopia[q]
    BY <2>1 DEF ComposeState, ComposeTypeOK
  <2>7. /\ claims' \in [Runs -> [Volumes -> Copies \cup {"partial"}]]
        /\ \A w \in Volumes : w # v => claims'[r][w] = claims[r][w]
        /\ \A q \in Runs : q # r => claims'[q] = claims[q]
    BY <2>1 DEF ComposeState, ComposeTypeOK
  <2>8. /\ namespace' \in [Runs -> NamespaceStates] /\ namespace'[r].started = namespace[r].started
        /\ \A q \in Runs : q # r => namespace'[q] = namespace[q]
    <3>1. namespace[r] \in NamespaceStates  BY DEF ComposeState, ComposeTypeOK, NamespaceStates
    <3> DEFINE value == [namespace[r] EXCEPT !.admission = "privileged"]
    <3>2. value \in NamespaceStates /\ value.started = namespace[r].started  BY <3>1 DEF NamespaceStates
    <3>3. namespace' = [namespace EXCEPT ![r] = value]  BY <2>1
    <3> HIDE DEF value
    <3> QED BY <3>2, <3>3, OneNamespace DEF ComposeState
  <2>9. /\ disturbed \subseteq disturbed' /\ disturbed' \subseteq Runs /\ (s = "ghost" => r \in disturbed')
        /\ \A q \in Runs : q # r => (q \in disturbed' <=> q \in disturbed)
    BY <2>1 DEF DisturbedBy, ComposeState, ComposeTypeOK
  <2>10. ComposeTypeOK'
    BY <2>1, <2>6, <2>7, <2>8, <2>9 DEF ComposeState, ComposeTypeOK, NamespaceStates
  <2>11. OthersKeepObjects(r)  BY <2>1, <2>6, <2>7, <2>8, <2>9 DEF OthersKeepObjects
  <2>12. ComposeIsSound(r)  BY DEF ComposeInvariant
  <2>13. ProjectIsSound(r)'
    BY <2>1, <2>5, <2>6, <2>7, <2>12 DEF ComposeIsSound, ProjectIsSound, Recorded, Failed
  <2>14. ASSUME NEW t \in Slots PROVE CopierIsSound(r, handler[r][t])'
    BY <2>1, <2>4, <2>5, <2>12 DEF ComposeIsSound, CopierIsSound, Recorded, Failed, CopyCalls
  <2>15. Undisturbed(r)' => Undisturbed(r) /\ s = "current"
    BY <2>5, <2>9 DEF Undisturbed, HasComposeData, Slots
  <2>16. Undisturbed(r)' => ~namespace'[r].started
    BY <1>1, <2>8, <2>12, <2>15 DEF ComposeIsSound, RestorerIsSound
  <2>17. \A w \in Volumes : w # v /\ IsRestored(r, w) => IsRestored(r, w)'
    BY <2>6, <2>7 DEF IsRestored
  <2>18. RestorerIsSound(r, handler[r].current)'
    BY <1>1, <2>4, <2>5, <2>12, <2>15, <2>16, <2>17 DEF ComposeIsSound, RestorerIsSound
  <2>19. ComposeIsSound(r)'  BY <2>13, <2>14, <2>16, <2>18 DEF ComposeIsSound
  <2>20. GoOn(r, s, h)  BY <2>1
  <2>21. h.step = handler[r][s].step /\ h.pc \in ComposeCalls[h.step]  BY <1>1, <2>2, <2>4
  <2>22. ComposeControl' /\ ComposeInvariant'  BY <1>1, <2>4, <2>11, <2>19, <2>20, <2>21, ComposeGoesSoundly
  <2> QED BY <2>10, <2>22
<1> QED BY <1>2, <1>3

LEMMA AwaitRestoreStep ==
  ASSUME ComposeState, ComposeInvariant, NEW r \in Runs, NEW s \in Slots, NEW v \in Volumes, AwaitRestore(r, s, v)
  PROVE  ComposeTypeOK' /\ ComposeControl' /\ ComposeInvariant'
<1> DEFINE g == handler[r][s]
           h == [g EXCEPT !.pc = "restore", !.todo = @ \ {v}]
<1>1. /\ Works(r, s) /\ g \in States /\ g.step = "RESTORE" /\ g.pc = "await_restore"
      /\ s = "current" => job[r].step = "RESTORE"
  BY ComposeWorks, StepOfComposeCall DEF AwaitRestore
<1>2. UNCHANGED <<project, log, snapshots, helpers, kompose, namespace, claims, disturbed>>
  BY DEF AwaitRestore
<1>3. /\ kopia' \in [Runs -> [Volumes -> {"absent", "active", "complete", "failed"}]]
      /\ kopia'[r][v] = "absent" /\ \A w \in Volumes : w # v => kopia'[r][w] = kopia[r][w]
      /\ \A q \in Runs : q # r => kopia'[q] = kopia[q]
  BY DEF AwaitRestore, ComposeState, ComposeTypeOK
<1>4. Calm(r)
  <2>1. \A w \in Volumes : kopia'[r][w] \in {kopia[r][w], "absent", "failed"}  BY <1>3
  <2> QED BY <1>2, <2>1 DEF Calm, Recorded
<1>5. OthersKeepObjects(r) /\ ComposeTypeOK'
  BY <1>2, <1>3 DEF OthersKeepObjects, ComposeState, ComposeTypeOK
<1>6. CASE Refuse(r, s)  BY <1>1, <1>4, <1>5, <1>6, RefusalReturns, ComposeReturns
<1>7. CASE kopia[r][v] = "complete" /\ GoOn(r, s, h)
  <2>1. "restore" \in ComposeCalls["RESTORE"]  BY ComposeCallsAre
  <2>2. "restore" \in AllCalls  BY <2>1, CallsAre DEF IsCalls, Working
  <2>3. h \in States /\ h.step = "RESTORE" /\ h.pc = "restore" /\ h.todo = g.todo \ {v}
    BY <1>1, <2>2 DEF States, HandlerStates
  <2>4. GoOn(r, s, h)  BY <1>7
  <2> HIDE DEF h
  <2>5. handler'[r][s] = h /\ setting' = setting  BY <2>4, GoOnSets
  <2>6. CopierIsSound(r, handler[r][s])'  BY <2>3, <2>5 DEF CopierIsSound, CopyCalls
  <2>7. ASSUME s = "current", Undisturbed(r)' PROVE RestorerIsSound(r, handler[r][s])'
    <3>1. Undisturbed(r)  BY <1>2, <2>5, <2>7 DEF Undisturbed, HasComposeData
    <3>2. ComposeIsSound(r) /\ ~Failed(r)  BY <1>1, <2>7 DEF ComposeInvariant, Failed
    <3>3. ~namespace[r].started /\ \A w \in Volumes \ g.todo : IsRestored(r, w)
      BY <1>1, <2>7, <3>1, <3>2 DEF ComposeIsSound, RestorerIsSound
    <3>4. IsRestored(r, v)'
      BY <1>2, <1>3, <1>7, <3>2 DEF ComposeIsSound, ProjectIsSound, IsRestored
    <3>5. \A w \in Volumes : w # v /\ IsRestored(r, w) => IsRestored(r, w)'  BY <1>2, <1>3 DEF IsRestored
    <3>6. \A w \in Volumes \ h.todo : IsRestored(r, w)'  BY <2>3, <3>3, <3>4, <3>5
    <3> QED BY <1>2, <2>3, <2>5, <3>3, <3>6 DEF RestorerIsSound
  <2>8. Fits(r, s)'  BY <2>6, <2>7 DEF Fits, RestorerIsSound
  <2> QED BY <1>1, <1>4, <1>5, <2>1, <2>3, <2>4, <2>8, ComposeGoesOn
<1> QED BY <1>6, <1>7 DEF AwaitRestore, JobSucceeded

LEMMA StartWorkloadsStep ==
  ASSUME ComposeState, ComposeInvariant, NEW r \in Runs, NEW s \in Slots, StartWorkloads(r, s)
  PROVE  ComposeTypeOK' /\ ComposeControl' /\ ComposeInvariant'
<1> DEFINE h == At(handler[r][s].step, "record")
<1>1. Works(r, s) /\ handler[r][s].step = "RESTORE" /\ handler[r][s].pc = "start_workloads"
  BY ComposeWorks, StepOfComposeCall DEF StartWorkloads
<1>2. /\ UNCHANGED <<project, log, snapshots, helpers, kompose, claims, kopia>>
      /\ GoOn(r, s, h) /\ DisturbedBy(r, s)
  BY DEF StartWorkloads, ProceedTo
<1>3. "record" \in ComposeCalls["RESTORE"]  BY ComposeCallsAre
<1>4. "record" \in AllCalls  BY <1>3, CallsAre DEF IsCalls, Working
<1>5. h \in States /\ h.step = "RESTORE" /\ h.pc = "record"  BY <1>1, <1>4, AtIsTyped DEF Working
<1> HIDE DEF h
<1>6. /\ handler'[r][s] = h /\ job' = job /\ setting' = setting
      /\ \A t \in Slots : t # s => handler'[r][t] = handler[r][t]
  BY <1>2, GoOnSets
<1>7. namespace' \in [Runs -> NamespaceStates] /\ \A q \in Runs : q # r => namespace'[q] = namespace[q]
  <2>1. namespace[r] \in NamespaceStates  BY DEF ComposeState, ComposeTypeOK, NamespaceStates
  <2> DEFINE value == [namespace[r] EXCEPT !.started = TRUE]
  <2>2. value \in NamespaceStates  BY <2>1 DEF NamespaceStates
  <2>3. namespace' = [namespace EXCEPT ![r] = value]  BY DEF StartWorkloads
  <2> HIDE DEF value
  <2> QED BY <2>2, <2>3, OneNamespace DEF ComposeState
<1>8. /\ disturbed \subseteq disturbed' /\ disturbed' \subseteq Runs /\ (s = "ghost" => r \in disturbed')
      /\ \A q \in Runs : q # r => (q \in disturbed' <=> q \in disturbed)
  BY <1>2 DEF DisturbedBy, ComposeState, ComposeTypeOK
<1>9. ComposeTypeOK'  BY <1>2, <1>7, <1>8 DEF ComposeState, ComposeTypeOK, NamespaceStates
<1>10. OthersKeepObjects(r)  BY <1>2, <1>7, <1>8 DEF OthersKeepObjects
<1>11. ComposeIsSound(r)  BY DEF ComposeInvariant
<1>12. ProjectIsSound(r)'  BY <1>2, <1>6, <1>11 DEF ComposeIsSound, ProjectIsSound, Recorded, Failed
<1>13. ASSUME NEW t \in Slots PROVE CopierIsSound(r, handler[r][t])'
  BY <1>2, <1>5, <1>6, <1>11 DEF ComposeIsSound, CopierIsSound, Recorded, Failed, CopyCalls
<1>14. Undisturbed(r)' => Undisturbed(r) /\ s = "current"
  BY <1>6, <1>8 DEF Undisturbed, HasComposeData, Slots
<1>15. \A v \in Volumes : IsRestored(r, v)' <=> IsRestored(r, v)  BY <1>2 DEF IsRestored
<1>16. Undisturbed(r)' => \A v \in Volumes : IsRestored(r, v)'
  BY <1>1, <1>11, <1>14, <1>15 DEF ComposeIsSound, RestorerIsSound
<1>17. RestorerIsSound(r, handler[r].current)'  BY <1>5, <1>6, <1>14 DEF RestorerIsSound
<1>18. ComposeIsSound(r)'  BY <1>12, <1>13, <1>16, <1>17 DEF ComposeIsSound
<1>19. GoOn(r, s, h)  BY <1>2
<1>20. h.step = handler[r][s].step /\ h.pc \in ComposeCalls[h.step]  BY <1>1, <1>3, <1>5
<1>21. ComposeControl' /\ ComposeInvariant'  BY <1>1, <1>5, <1>10, <1>18, <1>19, <1>20, ComposeGoesSoundly
<1> QED BY <1>9, <1>21

LEMMA ValidateWorkloadsStep ==
  ASSUME ComposeState, ComposeInvariant, NEW r \in Runs, NEW s \in Slots, ValidateWorkloads(r, s)
  PROVE  ComposeTypeOK' /\ ComposeControl' /\ ComposeInvariant'
<1> DEFINE admission == IF setting.checks THEN "restricted" ELSE namespace[r].admission
           value == [namespace[r] EXCEPT !.admission = admission]
<1>1. Works(r, s)  BY ComposeWorks DEF ValidateWorkloads
<1>2. CASE SetNamespace(r, value) /\ Succeed(r, s) /\ log' = log
  <2>1. value \in NamespaceStates /\ value.started = namespace[r].started
    <3>1. namespace[r] \in NamespaceStates /\ admission \in {"none", "restricted", "privileged"}
      BY DEF ComposeState, ComposeTypeOK, NamespaceStates
    <3> QED BY <3>1 DEF NamespaceStates
  <2> HIDE DEF value
  <2>2. Calm(r) /\ OthersKeepObjects(r) /\ ComposeTypeOK'  BY <1>2, <2>1, NamespaceIsCalm DEF ComposeState
  <2> QED BY <1>1, <1>2, <2>2, ComposeReturns DEF Returns
<1>3. CASE Refuse(r, s) /\ UNCHANGED composeVars
  <2>1. Calm(r) /\ OthersKeepObjects(r) /\ ComposeTypeOK'  BY <1>3, UnchangedIsCalm DEF ComposeState
  <2> QED BY <1>1, <1>3, <2>1, RefusalReturns, ComposeReturns
<1> QED BY <1>2, <1>3 DEF ValidateWorkloads

LEMMA ComposeCallFailsStep ==
  ASSUME ComposeState, ComposeInvariant, NEW r \in Runs, NEW s \in Slots, ComposeCallFails(r, s)
  PROVE  ComposeTypeOK' /\ ComposeControl' /\ ComposeInvariant'
<1>1. Works(r, s) /\ FaultOf(s) /\ ReturnError(r, s)  BY DEF ComposeCallFails
<1>2. UNCHANGED <<project, log, snapshots, helpers, namespace, claims, disturbed>>  BY DEF ComposeCallFails
<1>3. /\ kopia' \in [Runs -> [Volumes -> {"absent", "active", "complete", "failed"}]]
      /\ \A v \in Volumes : kopia'[r][v] \in {kopia[r][v], "absent", "failed"}
      /\ \A q \in Runs : q # r => kopia'[q] = kopia[q]
  BY DEF ComposeCallFails, ComposeState, ComposeTypeOK
<1>4. kompose' \in [Runs -> BOOLEAN]  BY DEF ComposeCallFails, ComposeState, ComposeTypeOK
<1>5. Calm(r)  BY <1>2, <1>3 DEF Calm, Recorded
<1>6. OthersKeepObjects(r) /\ ComposeTypeOK'
  BY <1>2, <1>3, <1>4 DEF OthersKeepObjects, ComposeState, ComposeTypeOK
<1> QED BY <1>1, <1>5, <1>6, RefusalReturns, ComposeReturns

LEMMA ComposeHandlerStep ==
  ASSUME ComposeState, ComposeInvariant, NEW r \in Runs, NEW s \in Slots, ComposeHandler(r, s)
  PROVE  ComposeTypeOK' /\ ComposeControl' /\ ComposeInvariant'
<1>1. CASE Record(r, s) \/ PublishImages(r, s) \/ StartKompose(r, s) \/ AwaitKompose(r, s)
  BY <1>1, RecordStep, PublishImagesStep, StartKomposeStep, AwaitKomposeStep
<1>2. CASE StopProject(r, s) \/ RecordStopped(r, s) \/ CheckStopped(r, s)
  BY <1>2, StopProjectStep, RecordStoppedStep, CheckStoppedStep
<1>3. CASE ListSnapshots(r, s) \/ SnapshotsEnd(r, s) \/ CountSnapshots(r, s)
  BY <1>3, ListSnapshotsStep, SnapshotsEndStep, CountSnapshotsStep
<1>4. CASE PrepareNamespace(r, s) \/ ApplyClaims(r, s) \/ ApplyWorkloads(r, s) \/ RecordApplied(r, s)
  BY <1>4, PrepareNamespaceStep, ApplyClaimsStep, RecordAppliedStep
<1>5. CASE VolumesRestored(r, s) \/ StartWorkloads(r, s) \/ ValidateWorkloads(r, s)
  BY <1>5, VolumesRestoredStep, StartWorkloadsStep, ValidateWorkloadsStep
<1>6. ASSUME NEW v \in Volumes,
             RunHelper(r, s, v) \/ AwaitHelper(r, s, v) \/ StartRestore(r, s, v) \/ AwaitRestore(r, s, v)
      PROVE  ComposeTypeOK' /\ ComposeControl' /\ ComposeInvariant'
  BY <1>6, RunHelperStep, AwaitHelperStep, StartRestoreStep, AwaitRestoreStep
<1> QED BY <1>1, <1>2, <1>3, <1>4, <1>5, <1>6 DEF ComposeHandler

\* Where no handler and no job moves.
LEMMA HandlersStayInControl ==
  ASSUME ComposeState, UNCHANGED <<setting, job, handler>>, failures' \in 0..MaxFaults
  PROVE  ComposeControl'
BY DEF ComposeState, ComposeControl, Control, HandlersTypeOK, HandlersFollow, IsCompose

LEMMA KopiaJobEndsStep ==
  ASSUME ComposeState, ComposeInvariant, NEW r \in Runs, NEW v \in Volumes, KopiaJobEnds(r, v)
  PROVE  ComposeTypeOK' /\ ComposeControl' /\ ComposeInvariant'
<1>1. /\ UNCHANGED <<setting, job, handler, failures>>
      /\ UNCHANGED <<project, log, snapshots, helpers, kompose, namespace, disturbed>>
      /\ kopia[r][v] = "active"
  BY DEF KopiaJobEnds, handlerVars
<1>2. ComposeControl'  BY <1>1, HandlersStayInControl DEF ComposeState, ComposeControl, Control, HandlersTypeOK
<1>3. /\ kopia' \in [Runs -> [Volumes -> {"absent", "active", "complete", "failed"}]]
      /\ kopia'[r][v] = "complete" /\ \A w \in Volumes : w # v => kopia'[r][w] = kopia[r][w]
      /\ \A q \in Runs : q # r => kopia'[q] = kopia[q]
  BY DEF KopiaJobEnds, ComposeState, ComposeTypeOK
<1>4. /\ claims' \in [Runs -> [Volumes -> Copies \cup {"partial"}]]
      /\ claims'[r][v] = snapshots[r].final[v] /\ \A w \in Volumes : w # v => claims'[r][w] = claims[r][w]
      /\ \A q \in Runs : q # r => claims'[q] = claims[q]
  <2>1. PICK copy \in Copies \cup {"partial"} : copy = snapshots[r].final[v]
    BY DEF ComposeState, ComposeTypeOK, SnapshotPhases
  <2>2. claims' = [claims EXCEPT ![r][v] = copy]  BY <2>1 DEF KopiaJobEnds, FinalSnapshots
  <2> QED BY <2>1, <2>2 DEF ComposeState, ComposeTypeOK
<1>5. ComposeTypeOK'  BY <1>1, <1>3, <1>4 DEF ComposeState, ComposeTypeOK
<1>6. OthersKeepObjects(r) /\ OthersKeepHandlers(r)
  BY <1>1, <1>3, <1>4 DEF OthersKeepObjects, OthersKeepHandlers
<1>7. ComposeIsSound(r)  BY DEF ComposeInvariant
<1>8. claims'[r][v] = "stopped" \/ Failed(r)
  <2>1. snapshots[r].final[v] \in Copies  BY DEF ComposeState, ComposeTypeOK, SnapshotPhases
  <2> QED BY <1>1, <1>4, <1>7, <2>1 DEF ComposeIsSound, ProjectIsSound, Copies
<1>9. ProjectIsSound(r)'
  BY <1>1, <1>3, <1>4, <1>7, <1>8 DEF ComposeIsSound, ProjectIsSound, Recorded, Failed
<1>10. \A w \in Volumes : IsRestored(r, w) => IsRestored(r, w)'
  BY <1>1, <1>3, <1>4 DEF IsRestored
<1>11. Undisturbed(r)' <=> Undisturbed(r)  BY <1>1 DEF Undisturbed, HasComposeData
<1>12. \A s \in Slots : CopierIsSound(r, handler[r][s])'
  BY <1>1, <1>7 DEF ComposeIsSound, CopierIsSound, Recorded, Failed
<1>13. RestorerIsSound(r, handler[r].current)'
  BY <1>1, <1>7, <1>10, <1>11 DEF ComposeIsSound, RestorerIsSound
<1>14. ComposeIsSound(r)'  BY <1>1, <1>7, <1>9, <1>10, <1>11, <1>12, <1>13 DEF ComposeIsSound
<1>15. ComposeInvariant'  BY <1>1, <1>6, <1>14, OthersStaySound
<1> QED BY <1>2, <1>5, <1>15

\* The objects stay as they are, up to restore jobs that fail, and so do handlers.
LEMMA CalmKeepsInvariant ==
  ASSUME ComposeState, ComposeInvariant, NEW r \in Runs, Calm(r), OthersKeepObjects(r), UNCHANGED <<setting, job, handler>>
  PROVE  ComposeInvariant'
<1>1. \A t \in Slots : Inherits(r, t)  BY DEF Inherits
<1>2. OthersKeepHandlers(r)  BY DEF OthersKeepHandlers
<1>3. ComposeIsSound(r) /\ (Failed(r) => Failed(r)')  BY DEF ComposeInvariant, Failed
<1>4. ComposeIsSound(r)'  BY <1>1, <1>3, CalmIsSound
<1> QED BY <1>2, <1>4, OthersStaySound

LEMMA KopiaJobFailsStep ==
  ASSUME ComposeState, ComposeInvariant, NEW r \in Runs, NEW v \in Volumes, KopiaJobFails(r, v)
  PROVE  ComposeTypeOK' /\ ComposeControl' /\ ComposeInvariant'
<1>1. /\ UNCHANGED <<setting, job, handler>> /\ Fault
      /\ UNCHANGED <<project, log, snapshots, helpers, kompose, namespace, claims, disturbed>>
  BY DEF KopiaJobFails
<1>2. failures' \in 0..MaxFaults  BY <1>1, FaultIsBounded DEF ComposeState, ComposeControl, Control
<1>3. ComposeControl'  BY <1>1, <1>2, HandlersStayInControl
<1>4. /\ kopia' \in [Runs -> [Volumes -> {"absent", "active", "complete", "failed"}]]
      /\ \A w \in Volumes : kopia'[r][w] \in {kopia[r][w], "absent", "failed"}
      /\ \A q \in Runs : q # r => kopia'[q] = kopia[q]
  BY DEF KopiaJobFails, ComposeState, ComposeTypeOK
<1>5. Calm(r)  BY <1>1, <1>4 DEF Calm, Recorded
<1>6. OthersKeepObjects(r) /\ ComposeTypeOK'
  BY <1>1, <1>4 DEF OthersKeepObjects, ComposeState, ComposeTypeOK
<1> QED BY <1>1, <1>3, <1>5, <1>6, CalmKeepsInvariant

LEMMA ComposeRollbackStep ==
  ASSUME ComposeState, ComposeInvariant, NEW r \in Runs, ComposeRollback(r)
  PROVE  ComposeTypeOK' /\ ComposeControl' /\ ComposeInvariant'
<1>1. /\ UNCHANGED <<setting, handler, failures>>
      /\ UNCHANGED <<log, snapshots, helpers, kompose, namespace, claims, kopia, disturbed>>
  BY DEF ComposeRollback
<1>2. Control(ComposeCalls)' /\ OthersKeepJobs(r) /\ job'[r].step = "FAILED"
  <2>1. failures' \in 0..MaxFaults  BY <1>1, FaultIsBounded DEF ComposeState, ComposeControl, Control
  <2> QED BY <2>1, RollbackKeepsControl, CallsAre DEF ComposeRollback, ComposeState, ComposeControl
<1>3. project' \in [Runs -> BOOLEAN] /\ \A q \in Runs : q # r => project'[q] = project[q]
  <2>1. PICK runs \in BOOLEAN : runs = (project[r] \/ Recorded(r, "COMPOSE_SOURCE_STOPPED"))
    OBVIOUS
  <2>2. project' = [project EXCEPT ![r] = runs]  BY <2>1 DEF ComposeRollback
  <2> QED BY <2>2 DEF ComposeState, ComposeTypeOK
<1>4. ComposeTypeOK'  BY <1>1, <1>3 DEF ComposeState, ComposeTypeOK
<1>5. OthersKeepObjects(r) /\ OthersKeepHandlers(r)
  BY <1>1, <1>2, <1>3 DEF OthersKeepObjects, OthersKeepHandlers, OthersKeepJobs
<1>6. ComposeIsSound(r) /\ Failed(r)'  BY <1>2 DEF ComposeInvariant, Failed
<1>7. ProjectIsSound(r)'  BY <1>1, <1>6 DEF ComposeIsSound, ProjectIsSound
<1>8. \A s \in Slots : CopierIsSound(r, handler[r][s])'
  BY <1>1, <1>6 DEF ComposeIsSound, CopierIsSound, Recorded
<1>9. \A v \in Volumes : IsRestored(r, v)' <=> IsRestored(r, v)  BY <1>1 DEF IsRestored
<1>10. Undisturbed(r)' <=> Undisturbed(r)  BY <1>1 DEF Undisturbed, HasComposeData
<1>11. RestorerIsSound(r, handler[r].current)'
  BY <1>1, <1>6, <1>9, <1>10 DEF ComposeIsSound, RestorerIsSound
<1>12. ComposeIsSound(r)'  BY <1>1, <1>6, <1>7, <1>8, <1>9, <1>10, <1>11 DEF ComposeIsSound
<1>13. ComposeInvariant'  BY <1>1, <1>5, <1>12, OthersStaySound
<1> QED BY <1>1, <1>2, <1>4, <1>13 DEF ComposeState, ComposeControl, IsCompose

LEMMA FirstComposeCall ==
  ASSUME NEW step \in Working, HasComposeData \in BOOLEAN
  PROVE  ComposeFirstCall(step) \in ComposeCalls[step] /\ ComposeFirstCall(step) \notin SpecialCalls
BY ComposeCallsAre DEF Working, ComposeFirstCall, SpecialCalls, CopyCalls

LEMMA ComposeClaimStep ==
  ASSUME ComposeState, ComposeInvariant, NEW r \in Runs, ProcessOne(r)
  PROVE  ComposeTypeOK' /\ ComposeControl' /\ ComposeInvariant'
<1> DEFINE pc == ComposeFirstCall(job[r].step)
           h == At(job[r].step, pc)
<1>1. ClaimJob(r, pc) /\ UNCHANGED composeVars
  BY DEF ProcessOne, FirstCallOf, ComposeState, ComposeControl
<1>2. job[r].step \in Working
  BY <1>1, StepsAre DEF ClaimJob, Claims, ComposeState, ComposeControl, Control, HandlersTypeOK, Ends
<1>3. setting.data \in BOOLEAN  BY SettingsAre DEF ComposeState, ComposeControl, IsCompose
<1>4. pc \in ComposeCalls[job[r].step] /\ pc \notin SpecialCalls
  BY <1>2, <1>3, FirstComposeCall DEF HasComposeData
<1> HIDE DEF pc
<1>5. /\ Control(ComposeCalls)' /\ Sets(r, "current", h) /\ setting' = setting
      /\ \A q \in Runs : job'[q].step = job[q].step
  BY <1>1, <1>4, ClaimKeepsControl, CallsAre DEF ComposeState, ComposeControl
<1>6. handler'[r].current.pc = pc  BY <1>5 DEF Sets, At
<1>7. Fits(r, "current")'  BY <1>4, <1>6, PlainFits
<1>8. \A t \in Slots : t # "current" => Inherits(r, t)  BY <1>5 DEF Sets, Inherits
<1>9. Calm(r) /\ OthersKeepObjects(r) /\ ComposeTypeOK'  BY <1>1, UnchangedIsCalm DEF ComposeState
<1>10. ComposeIsSound(r) /\ (Failed(r) => Failed(r)')  BY <1>5 DEF ComposeInvariant, Failed
<1>11. ComposeIsSound(r)'  BY <1>5, <1>7, <1>8, <1>9, <1>10, CalmIsSound
<1>12. OthersKeepHandlers(r)  BY <1>5 DEF OthersKeepHandlers, Sets
<1>13. ComposeInvariant'  BY <1>5, <1>9, <1>11, <1>12, OthersStaySound
<1> QED BY <1>5, <1>9, <1>13 DEF ComposeState, ComposeControl, IsCompose

LEMMA ComposeInterruptionStep ==
  ASSUME ComposeState, ComposeInvariant, NEW r \in Runs, Interruption(r)
  PROVE  ComposeTypeOK' /\ ComposeControl' /\ ComposeInvariant'
<1>1. Calm(r) /\ OthersKeepObjects(r) /\ ComposeTypeOK'
  BY UnchangedIsCalm DEF Interruption, ComposeState
<1>2. ComposeIsSound(r)  BY DEF ComposeInvariant
<1>3. CASE WorkerDies(r)
  <2>1. Control(ComposeCalls)' /\ Sets(r, "current", Idle) /\ setting' = setting /\ job' = job
    BY <1>3, DropKeepsControl, CallsAre DEF ComposeState, ComposeControl
  <2>2. handler'[r].current.pc \notin SpecialCalls
    BY <2>1, IdleIsTyped DEF Sets, SpecialCalls, CopyCalls
  <2>3. Fits(r, "current")'  BY <2>2, PlainFits
  <2>4. \A t \in Slots : t # "current" => Inherits(r, t)  BY <2>1 DEF Sets, Inherits
  <2>5. ComposeIsSound(r)'  BY <1>1, <1>2, <2>1, <2>3, <2>4, CalmIsSound DEF Failed
  <2>6. OthersKeepHandlers(r)  BY <2>1 DEF OthersKeepHandlers, Sets
  <2>7. ComposeInvariant'  BY <1>1, <2>1, <2>5, <2>6, OthersStaySound
  <2> QED BY <1>1, <2>1, <2>7 DEF ComposeState, ComposeControl, IsCompose
<1>4. CASE Overtake(r) \/ CancelRun(r)
  <2>1. /\ Control(ComposeCalls)' /\ Leaves(r) /\ setting' = setting
        /\ \/ Overtake(r) /\ job' = job
           \/ RequiresRollback(job[r].step) /\ job'[r].step = "ROLLBACK"
    BY <1>4, LeaveKeepsControl, CallsAre DEF ComposeState, ComposeControl
  <2>2. handler'[r].current.pc \notin SpecialCalls
    BY <2>1, IdleIsTyped DEF Leaves, SpecialCalls, CopyCalls
  <2>3. Fits(r, "current")'  BY <2>2, PlainFits
  <2>4. Inherits(r, "ghost")  BY <2>1 DEF Leaves, Inherits, Slots
  <2>5. Failed(r) => Failed(r)'  BY <2>1 DEF Failed, RequiresRollback
  <2>6. \A t \in Slots : Inherits(r, t) \/ Fits(r, t)'  BY <2>3, <2>4 DEF Slots
  <2>7. ComposeIsSound(r)'  BY <1>1, <1>2, <2>1, <2>5, <2>6, CalmIsSound
  <2>8. OthersKeepHandlers(r)  BY <2>1 DEF OthersKeepHandlers, Leaves
  <2>9. ComposeInvariant'  BY <1>1, <2>1, <2>7, <2>8, OthersStaySound
  <2> QED BY <1>1, <2>1, <2>9 DEF ComposeState, ComposeControl, IsCompose
<1> QED BY <1>3, <1>4 DEF Interruption

LEMMA ComposeStutters ==
  ASSUME ComposeState, ComposeInvariant, UNCHANGED <<handlerVars, composeVars>>
  PROVE  ComposeTypeOK' /\ ComposeControl' /\ ComposeInvariant'
<1>1. UNCHANGED <<setting, job, handler, failures>>  BY DEF handlerVars
<1>2. ComposeControl'  BY <1>1, HandlersStayInControl DEF ComposeState, ComposeControl, Control, HandlersTypeOK
<1>3. CASE Runs = {}
  <2>1. ComposeInvariant'  BY <1>3 DEF ComposeInvariant
  <2>2. ComposeTypeOK'  BY DEF ComposeState, ComposeTypeOK, composeVars
  <2> QED BY <1>2, <2>1, <2>2
<1>4. ASSUME NEW r \in Runs PROVE ComposeTypeOK' /\ ComposeInvariant'
  <2>1. Calm(r) /\ OthersKeepObjects(r) /\ ComposeTypeOK'  BY UnchangedIsCalm DEF ComposeState
  <2> QED BY <1>1, <2>1, CalmKeepsInvariant
<1> QED BY <1>2, <1>3, <1>4

LEMMA ComposeStep ==
  ASSUME ComposeState, ComposeInvariant, [Next]_allVars
  PROVE  ComposeTypeOK' /\ ComposeControl' /\ ComposeInvariant'
<1>1. CASE \E r \in Runs : ProcessOne(r) \/ Interruption(r)
  BY <1>1, ComposeClaimStep, ComposeInterruptionStep
<1>2. CASE ComposeNext
  <2>1. CASE \E r \in Runs, s \in Slots : ComposeHandler(r, s) \/ ComposeCallFails(r, s)
    BY <2>1, ComposeHandlerStep, ComposeCallFailsStep
  <2>2. CASE \E r \in Runs : ComposeRollback(r)  BY <2>2, ComposeRollbackStep
  <2>3. CASE \E r \in Runs, v \in Volumes : KopiaJobEnds(r, v) \/ KopiaJobFails(r, v)
    BY <2>3, KopiaJobEndsStep, KopiaJobFailsStep
  <2> QED BY <1>2, <2>1, <2>2, <2>3 DEF ComposeNext
<1>3. CASE UNCHANGED allVars  BY <1>3, ComposeStutters DEF allVars
<1>4. IsCompose  BY DEF ComposeState, ComposeControl
<1> QED BY <1>1, <1>2, <1>3, <1>4 DEF Next

LEMMA ComposeBegins ==
  ASSUME TransferInit
  PROVE  ComposeInvariant
<1> SUFFICES ASSUME NEW r \in Runs PROVE ComposeIsSound(r)
  BY DEF ComposeInvariant
<1>1. /\ log[r] = {} /\ namespace[r].started = FALSE
      /\ \A v \in Volumes : snapshots[r].final[v] = "none" /\ helpers[r].final[v] = "none" /\ kopia[r][v] = "absent"
  BY DEF TransferInit, ComposeInit, SnapshotPhases
<1>2. \A s \in Slots : handler[r][s] = Idle  BY DEF TransferInit, HandlersInit
<1>3. ProjectIsSound(r)  BY <1>1 DEF ProjectIsSound, Recorded
<1>4. \A s \in Slots : CopierIsSound(r, handler[r][s]) /\ RestorerIsSound(r, handler[r][s])
  BY <1>2, IdleIsTyped DEF CopierIsSound, RestorerIsSound, CopyCalls
<1> QED BY <1>1, <1>3, <1>4 DEF ComposeIsSound, Slots

-----------------------------------------------------------------------------
(***************************************************************************)
(* Either executor, while the objects of the other one are left alone.     *)
(***************************************************************************)
VeleroIdle ==
  config = NoConfig /\ \A r \in Runs : target[r].of = NoBackup /\ ~target[r].scaled

ComposeIdle ==
  \A r \in Runs : ~namespace[r].started /\ \A v \in Volumes : snapshots[r].final[v] = "none"

TransferInvariant ==
  /\ VeleroTypeOK /\ ComposeTypeOK
  /\ \/ VeleroControl /\ VeleroInvariant /\ ComposeIdle
     \/ ComposeControl /\ ComposeInvariant /\ VeleroIdle

LEMMA TransferBegins ==
  ASSUME TransferInit
  PROVE  TransferInvariant
<1>1. /\ VeleroTypeOK /\ ComposeTypeOK /\ setting \in Settings
      /\ Control(IF IsCompose THEN ComposeCalls ELSE VeleroCalls)
  BY InitIsTyped DEF TransferTypeOK
<1>2. CASE IsCompose
  <2>1. VeleroIdle  BY <1>2 DEF TransferInit, VeleroInit, VeleroIdle, IsCompose
  <2>2. ComposeInvariant  BY ComposeBegins
  <2> QED BY <1>1, <1>2, <2>1, <2>2 DEF TransferInvariant, ComposeControl
<1>3. CASE ~IsCompose
  <2>1. ComposeIdle  BY DEF TransferInit, ComposeInit, ComposeIdle, SnapshotPhases
  <2>2. VeleroInvariant  BY <1>3, VeleroBegins
  <2> QED BY <1>1, <1>3, <2>1, <2>2 DEF TransferInvariant, VeleroControl
<1> QED BY <1>2, <1>3

LEMMA TransferGoesOn ==
  ASSUME TransferInvariant, [Next]_allVars
  PROVE  TransferInvariant'
<1>1. CASE VeleroControl /\ VeleroInvariant /\ ComposeIdle
  <2>1. VeleroTypeOK' /\ VeleroControl' /\ VeleroInvariant'
    BY <1>1, KubernetesStep DEF TransferInvariant, VeleroState
  <2>2. UNCHANGED composeVars
    BY <1>1 DEF Next, ProcessOne, Interruption, allVars, VeleroControl
  <2>3. ComposeTypeOK'  BY <2>2 DEF TransferInvariant, ComposeTypeOK, composeVars
  <2>4. ComposeIdle'  BY <1>1, <2>2 DEF ComposeIdle, composeVars
  <2> QED BY <2>1, <2>3, <2>4 DEF TransferInvariant
<1>2. CASE ComposeControl /\ ComposeInvariant /\ VeleroIdle
  <2>1. ComposeTypeOK' /\ ComposeControl' /\ ComposeInvariant'
    BY <1>2, ComposeStep DEF TransferInvariant, ComposeState
  <2>2. UNCHANGED veleroVars
    BY <1>2 DEF Next, ProcessOne, Interruption, allVars, ComposeControl
  <2>3. VeleroTypeOK'  BY <2>2 DEF TransferInvariant, VeleroTypeOK, veleroVars
  <2>4. VeleroIdle'  BY <1>2, <2>2 DEF VeleroIdle, veleroVars
  <2> QED BY <2>1, <2>3, <2>4 DEF TransferInvariant
<1> QED BY <1>1, <1>2 DEF TransferInvariant

LEMMA TransferIsInvariant == Spec => []TransferInvariant
<1>1. TransferInit => TransferInvariant  BY TransferBegins
<1>2. TransferInvariant /\ [Next]_allVars => TransferInvariant'  BY TransferGoesOn
<1> QED BY <1>1, <1>2, PTL DEF Spec

\* Whichever executor moves the sources, whatever fails or is interrupted, handlers,
\* jobs and the objects of both stay of their types.
THEOREM TransferTypesHold == Spec => []TransferTypeOK
<1>1. TransferInvariant => TransferTypeOK
  BY DEF TransferInvariant, TransferTypeOK, VeleroControl, ComposeControl, Control
<1> QED BY <1>1, TransferIsInvariant, PTL

\* The storage classes ConfigMap that runs share keeps the mappings of a run that
\* restores until its restore is complete, and maps no class twice, for every
\* number of runs and every profile; what a run that has not ended has restored was
\* mapped by all of its profile (EnsureVeleroStorageClassMappings, DeleteVeleroStorageClassMappings).
THEOREM MappingsHold == Spec => []MappingsAreKept
<1>1. ASSUME TransferInvariant PROVE MappingsAreKept
  <2>1. CASE VeleroControl /\ VeleroInvariant
    <3>1. config.data = Merged(config.owners) /\ IsProfile(config.data)
      BY <2>1 DEF VeleroInvariant, ConfigIsSound
    <3>2. ASSUME NEW r \in Runs, job[r].step = "RESTORE", RestoreOf(r).phase # "Completed"
          PROVE  Profile(r) \subseteq config.data
      <4>1. ~CanClean(r) /\ ~Restored(r)  BY <3>2 DEF CanClean, Gone, Ended, Ends, Restored
      <4>2. Annotated(r)  BY <2>1, <3>2, <4>1 DEF VeleroInvariant, ConfigIsSound, Restores
      <4>3. ASSUME NEW pair \in Profile(r) PROVE pair \in Merged(config.owners)
        <5>1. <<r, pair>> \in config.owners  BY <4>2 DEF Annotated
        <5>2. <<r, pair>>[2] = pair  OBVIOUS
        <5> QED BY <5>1, <5>2 DEF Merged
      <4> QED BY <3>1, <4>3
    <3>3. ASSUME NEW r \in Runs, target[r].of # NoBackup
          PROVE  Profile(r) \subseteq target[r].mapped \/ Ended(r)
      BY <2>1, <3>3 DEF VeleroInvariant, TargetIsSound
    <3> QED BY <3>1, <3>2, <3>3 DEF MappingsAreKept
  <2>2. CASE ComposeControl /\ VeleroIdle
    <3>1. \A r \in Runs : Profile(r) = {}
      BY <2>2, SettingsAre DEF ComposeControl, IsCompose, Profile
    <3>2. config.data = Merged(config.owners) /\ IsProfile(config.data)
      BY <2>2 DEF VeleroIdle, NoConfig, Merged, IsProfile
    <3> QED BY <3>1, <3>2 DEF MappingsAreKept
  <2> QED BY <1>1, <2>1, <2>2 DEF TransferInvariant
<1> QED BY <1>1, TransferIsInvariant, PTL

\* What a run starts in the target was restored from its own final backup, complete
\* and of a stopped source, although runs can meet at the names of backups and
\* restores, and any handler can be started again or go on without its lease
\* (VeleroExecutor.createBackup, createRestore, pollRestore).
THEOREM RestoredBackupsAreOwn == Spec => []RestoredFromOwnFinalBackup
<1>1. ASSUME TransferInvariant PROVE RestoredFromOwnFinalBackup
  <2>1. CASE VeleroControl /\ VeleroInvariant
    <3>1. ASSUME NEW r \in Runs, target[r].scaled PROVE Valid(target[r].of, r)
      BY <2>1, <3>1 DEF VeleroInvariant, TargetIsSound
    <3> QED BY <3>1 DEF RestoredFromOwnFinalBackup, Valid, HasAll
  <2>2. CASE VeleroIdle  BY <2>2 DEF VeleroIdle, RestoredFromOwnFinalBackup
  <2> QED BY <1>1, <2>1, <2>2 DEF TransferInvariant
<1> QED BY <1>1, TransferIsInvariant, PTL

\* No final snapshot of a run that has not come to its rollback holds the data of a
\* project that runs, with any number of volumes and of interruptions
\* (ComposeExecutor.snapshotVolumes).
THEOREM SnapshotsAreConsistent == Spec => []FinalSnapshotsAreConsistent
<1>1. ASSUME TransferInvariant PROVE FinalSnapshotsAreConsistent
  <2>1. CASE ComposeInvariant
    BY <2>1 DEF ComposeInvariant, ComposeIsSound, ProjectIsSound, Failed, FinalSnapshotsAreConsistent
  <2>2. CASE ComposeIdle  BY <2>2 DEF ComposeIdle, FinalSnapshotsAreConsistent
  <2> QED BY <1>1, <2>1, <2>2 DEF TransferInvariant
<1> QED BY <1>1, TransferIsInvariant, PTL

\* Where no overtaken handler has restored volumes as well, the workloads run only
\* when every claim holds its complete final snapshot, and no restore job is left
\* that could change one (ComposeExecutor.restore, RunKopiaRestoreJob).
THEOREM WorkloadsStartRestored == Spec => []StartedOnRestoredVolumes
<1>1. ASSUME TransferInvariant PROVE StartedOnRestoredVolumes
  <2>1. CASE ComposeInvariant
    BY <2>1 DEF ComposeInvariant, ComposeIsSound, Undisturbed, IsRestored, StartedOnRestoredVolumes
  <2>2. CASE ComposeIdle  BY <2>2 DEF ComposeIdle, StartedOnRestoredVolumes
  <2> QED BY <1>1, <2>1, <2>2 DEF TransferInvariant
<1> QED BY <1>1, TransferIsInvariant, PTL
=============================================================================
