------------------------------ MODULE PlanChecks ------------------------------
(***************************************************************************)
(* Whether a plan may be started.  A plan is made for an assessment of its *)
(* application, which is never made again.  Preflight reads the plan's     *)
(* source, target, application, assessment and profile one after the other,*)
(* checks them against each other, and stores READY or BLOCKED; it relies  *)
(* on the capabilities that were stored of the clusters, not on the        *)
(* clusters.  Meanwhile environments are tested and refreshed, the         *)
(* application is discovered again, its profile changed, and another       *)
(* Preflight runs.                                                         *)
(***************************************************************************)
EXTENDS Evidence

CONSTANTS
  Checkers,             \* requests for a preflight
  Modes,                \* volume modes of the plan
  SourceCapabilities,   \* what a discovery of the source can have stored
  TargetCapabilities

VARIABLES
  plan,          \* its row, with the rules that block its assessment; history: fresh, whether what
                 \* it was checked against still stands, and assessed, whether the application does
  environment,   \* the rows of the source and of the target
  checker        \* the preflights; fresh is history: nothing changed since the first read

planVars == <<plan, environment, checker>>

NoCapabilities == [known |-> FALSE]
Environments(capabilities) == [connected : BOOLEAN, capabilities : capabilities \cup {NoCapabilities}]

(***************************************************************************)
(* capabilities of the source: whether Velero's data mover is ready, the   *)
(* operating systems of the nodes, storage classes with their driver, and  *)
(* the drivers with a VolumeSnapshotClass; of the target: the data mover,  *)
(* its CSI drivers, and its storage classes with their drivers.            *)
(***************************************************************************)
DefaultClass(capabilities) == {c \in capabilities.classes : c.default}

SnapshotDriverForStorageClass(capabilities, name) ==
  LET named == {c \in capabilities.classes : IF name = "" THEN c.default ELSE c.name = name}
      provisioners == {c.driver : c \in named}
  IN  provisioners # {} /\ provisioners \subseteq capabilities.snapshots

SupportsRawBlockDataMover(capabilities) ==
  capabilities.systems # {} /\ capabilities.systems \subseteq {"linux"}

(***************************************************************************)
(* The assessment.  A resource that another one requires has to be listed; *)
(* a storage class that is missing is only a warning, and cluster roles are*)
(* not looked for.  What the other rules find is abstracted.               *)
(***************************************************************************)
Unlisted(inventory) ==
  {d \in inventory.dependencies : d.required /\ d.to \notin {r.id : r \in inventory.resources}}

WarnsOfClaims(inventory) ==
  {d \in Unlisted(inventory) : d.to.kind \notin {"StorageClass", "ClusterRole", "PersistentVolumeClaim"}}

MissingDependencies(inventory) ==
  {d \in Unlisted(inventory) : d.to.kind \notin {"StorageClass", "ClusterRole"}}

RequiredDependencyRule(inventory) ==
  IF MissingDependencies(inventory) = {} THEN {} ELSE {"DEPENDENCY_REQUIRED_MISSING"}

(***************************************************************************)
(* The checks, of what a checker has read.                                 *)
(***************************************************************************)
ConnectionCheck(env) == env.connected

\* The versions of Docker and Compose are probed by the connection's test.
SourceCapabilityChecks(source) == source.capabilities.known

IsSmartXCSI(driver) == driver = "smartx"
TargetCapabilityChecks(env) ==
  /\ env.capabilities.known
  /\ \E d \in env.capabilities.drivers \cup {c.driver : c \in env.capabilities.classes} : IsSmartXCSI(d)

AssessmentChecks == plan.blockers = {}

ClassOf(volume) == volume.attrs["storageClass"]
IsBlock(volume) == volume.attrs["volumeMode"] = "Block"

DataMoverStrategyChecks(source, destination, app) ==
  /\ source.capabilities.known /\ source.capabilities.mover
  /\ destination.capabilities.known /\ destination.capabilities.mover
  /\ \A v \in app.inventory.volumes : SnapshotDriverForStorageClass(source.capabilities, ClassOf(v))

StrategyChecks(source, destination, app) ==
  /\ app.type = "DOCKER_COMPOSE" <=> plan.mode = "COMPOSE_KOPIA"
  /\ (\E v \in app.inventory.volumes : IsBlock(v)) =>
       /\ plan.mode = "CSI_DATA_MOVER"
       /\ source.capabilities.known /\ SupportsRawBlockDataMover(source.capabilities)
  /\ plan.mode = "CSI_DATA_MOVER" => DataMoverStrategyChecks(source, destination, app)

TargetClass(mapping, class) ==
  IF "storageClass" \in DOMAIN mapping /\ class \in DOMAIN mapping["storageClass"]
  THEN mapping["storageClass"][class] ELSE class

StorageMappingChecks(app, destination, mapping) ==
  app.type = "KUBERNETES" =>
    \A v \in app.inventory.volumes :
      IF TargetClass(mapping, ClassOf(v)) = "" THEN DefaultClass(destination.capabilities) # {}
      ELSE \E c \in destination.capabilities.classes : c.name = TargetClass(mapping, ClassOf(v))

HasNoBlocker(read) ==
  /\ ConnectionCheck(read.source) /\ ConnectionCheck(read.target)
  /\ SourceCapabilityChecks(read.source)
  /\ TargetCapabilityChecks(read.target)
  /\ AssessmentChecks
  /\ StrategyChecks(read.source, read.target, read.application)
  /\ StorageMappingChecks(read.application, read.target, read.profile)

(***************************************************************************)
(* Preflight.                                                              *)
(***************************************************************************)
CheckStages == {"idle", "source", "target", "application", "profile", "update"}
NoRead == [at |-> "idle", fresh |-> FALSE, source |-> NoCapabilities, target |-> NoCapabilities,
           application |-> NoCapabilities, profile |-> NoCapabilities]

PlanTypeOK ==
  /\ plan \in [status : {"NONE", "DRAFT", "READY", "BLOCKED", "RUNNING"}, fresh : BOOLEAN, mode : Modes,
               blockers : SUBSET {"DEPENDENCY_REQUIRED_MISSING", "another"}, assessed : BOOLEAN]
  /\ environment.source \in Environments(SourceCapabilities)
  /\ environment.target \in Environments(TargetCapabilities)
  /\ \A c \in Checkers : checker[c].at \in CheckStages

PlanInit ==
  /\ EvidenceInit
  /\ plan \in [status : {"NONE"}, fresh : {FALSE}, mode : Modes, blockers : {{}}, assessed : {FALSE}]
  /\ environment \in [source : Environments(SourceCapabilities), target : Environments(TargetCapabilities)]
  /\ checker = [c \in Checkers |-> NoRead]

NextStage == [source |-> "target", target |-> "application", application |-> "profile", profile |-> "update"]

References ==
  [source |-> environment.source, target |-> environment.target, application |-> application,
   profile |-> profile]

\* The application is assessed against a target that is connected and known, and
\* the plan is made: both only refer to the application afterwards.
CreateAssessment ==
  /\ plan.status = "NONE"
  /\ environment.target.connected /\ environment.target.capabilities.known
  /\ \E others \in {{}, {"another"}} :
       plan' = [plan EXCEPT !.status = "DRAFT", !.assessed = TRUE,
                            !.blockers = others \cup RequiredDependencyRule(application.inventory)]
  /\ UNCHANGED <<evidenceVars, environment, checker>>

BeginPreflight(c) ==
  /\ checker[c].at = "idle" /\ plan.status # "NONE"
  /\ checker' = [checker EXCEPT ![c] = [NoRead EXCEPT !.at = "source", !.fresh = TRUE]]
  /\ UNCHANGED <<evidenceVars, plan, environment>>

ReadReference(c) ==
  LET at == checker[c].at
  IN  /\ at \in DOMAIN NextStage
      /\ checker' = [checker EXCEPT ![c] = [@ EXCEPT ![at] = References[at], !.at = NextStage[at]]]
      /\ UNCHANGED <<evidenceVars, plan, environment>>

\* A plan that is running, or has run, keeps its status.
UpdatePlanStatus(c) ==
  /\ checker[c].at = "update"
  /\ plan' = IF plan.status \notin {"DRAFT", "READY", "BLOCKED"} THEN plan
             ELSE [plan EXCEPT !.status = IF HasNoBlocker(checker[c]) THEN "READY" ELSE "BLOCKED",
                               !.fresh = checker[c].fresh]
  /\ checker' = [checker EXCEPT ![c] = NoRead]
  /\ UNCHANGED <<evidenceVars, environment>>

PreflightFails(c) ==
  /\ checker[c].at # "idle"
  /\ checker' = [checker EXCEPT ![c] = NoRead]
  /\ UNCHANGED <<evidenceVars, plan, environment>>

StartPlan ==
  /\ plan.status = "READY"
  /\ plan' = [plan EXCEPT !.status = "RUNNING"]
  /\ UNCHANGED <<evidenceVars, environment, checker>>

(***************************************************************************)
(* What is checked changes.                                                *)
(***************************************************************************)
Outdated ==
  /\ plan' = [plan EXCEPT !.fresh = FALSE, !.assessed = @ /\ application' = application]
  /\ checker' = [c \in Checkers |-> [checker[c] EXCEPT !.fresh = FALSE]]
  /\ UNCHANGED <<observedVars, topology, view>>

\* A test of the connection, or a refresh of the capabilities: only one that
\* fails can leave the capabilities as they are.
EnvironmentChanges(side, capabilities) ==
  /\ Changed
  /\ \E found \in capabilities \cup {environment[side].capabilities}, connected \in BOOLEAN :
       LET value == [connected |-> connected, capabilities |-> found]
       IN  /\ connected => found.known
           /\ value # environment[side]
           /\ environment' = [environment EXCEPT ![side] = value]
  /\ UNCHANGED <<application, profile>>
  /\ Outdated

PlanNext ==
  \/ \E c \in Checkers : BeginPreflight(c) \/ ReadReference(c) \/ UpdatePlanStatus(c) \/ PreflightFails(c)
  \/ CreateAssessment \/ StartPlan
  \/ EnvironmentChanges("source", SourceCapabilities) \/ EnvironmentChanges("target", TargetCapabilities)
  \/ InventoryNext /\ Outdated /\ UNCHANGED environment

(***************************************************************************)
(* Properties.                                                             *)
(***************************************************************************)
\* Every claim that the evidence plans for the target, and needs there, has a
\* class, and the target has that class.
ClaimsArePlaced ==
  application.type = "KUBERNETES" => \A n \in BuildKubernetesTarget(application.inventory) :
    n.id.kind = "PersistentVolumeClaim" /\ n.required =>
      /\ "storageClass" \in DOMAIN n.attrs
      /\ \E c \in environment.target.capabilities.classes :
           IF n.attrs["storageClass"] = "" THEN c.default ELSE c.name = n.attrs["storageClass"]

\* Every volume can be moved: a driver snapshots it, and no Block volume goes as files.
VolumesAreMovable ==
  \A v \in application.inventory.volumes :
    /\ IsBlock(v) => plan.mode = "CSI_DATA_MOVER"
    /\ plan.mode = "CSI_DATA_MOVER" =>
         \E c \in environment.source.capabilities.classes :
           /\ IF ClassOf(v) = "" THEN c.default ELSE c.name = ClassOf(v)
           /\ c.driver \in environment.source.capabilities.snapshots

\* Unless something it read has changed since its preflight began, a READY plan
\* has a way to move every volume; unless the application has been discovered
\* again since its assessment, it also has a place for every claim that it needs,
\* also for those that were not listed and are only known by what mounts them.
ReadyPlanPlacesItsVolumes ==
  plan.status = "READY" /\ plan.fresh => VolumesAreMovable /\ (plan.assessed => ClaimsArePlaced)

(***************************************************************************)
(* What they rest on: inductive with the shape of the variables.           *)
(***************************************************************************)
\* What a preflight has read when it is at a stage.
ReadBefore ==
  [idle |-> {}, source |-> {}, target |-> {"source"}, application |-> {"source", "target"},
   profile |-> {"source", "target", "application"},
   update |-> {"source", "target", "application", "profile"}]

ReadsAreCurrent(c) ==
  checker[c].fresh => \A part \in ReadBefore[checker[c].at] : checker[c][part] = References[part]

\* The class of a claim is a field of its volume, never of the resource; a claim
\* is listed with its volume.
ClassesAreOfVolumes(inventory) ==
  /\ \A r \in inventory.resources : "storageClass" \notin DOMAIN r.attrs
  /\ \A v \in inventory.volumes : "storageClass" \in DOMAIN v.attrs
  /\ \A r \in inventory.resources : r.id.kind = "PersistentVolumeClaim" => \E v \in inventory.volumes : v.id = r.id

PlanInvariant ==
  /\ \A c \in Checkers : ReadsAreCurrent(c)
  /\ plan.status = "READY" /\ plan.fresh => HasNoBlocker(References)
  /\ plan.assessed => RequiredDependencyRule(application.inventory) \subseteq plan.blockers
  /\ ClassesAreOfVolumes(application.inventory)
=============================================================================
