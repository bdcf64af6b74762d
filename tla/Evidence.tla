------------------------------ MODULE Evidence ------------------------------
(***************************************************************************)
(* The evidence of one run: what was planned for the target, what is seen  *)
(* of it, and what the console concludes.  RunService captures the plan    *)
(* when the run starts; every view of the topology observes the target     *)
(* again and stores the result, until a view finds the run ended and       *)
(* freezes it; a refresh only adds an observation.  A view may also find   *)
(* that a run failed by its validation alone and that the target is now    *)
(* healthy: it makes the run COMPLETED.                                    *)
(*                                                                         *)
(* A view reads the stored evidence, then the run, then what it plans from,*)
(* then observes the target and puts the results of the validations over   *)
(* it, then stores what it found, and may reconcile; workers, other views  *)
(* and the cluster go on in between.  The run is what MigrationJobs makes  *)
(* of it, from its restoration on; the edges of a topology are left out.   *)
(***************************************************************************)
EXTENDS MigrationDomain, Inventory

CONSTANTS
  Targets,         \* bound: for each type of application, the contents of the target
  Project,         \* the Compose project: its services and volumes
  ResourceName,    \* the Kubernetes names of what the project names
  Helpers,         \* resources that the migration itself puts into the target
  MaxViews         \* bound: views of the topology

ASSUME EvidenceAssumption == DOMAIN Targets = ApplicationTypes /\ MaxViews \in Nat

\* The API server keeps names unique and replicas a number.
ASSUME ObjectAssumption ==
  \A type \in ApplicationTypes : \A objects \in Targets[type] :
    /\ \A o, p \in objects : IdOf(o) = IdOf(p) => o = p
    /\ \A o \in objects : o.kind = "Deployment" => o.fields["replicas"] \in Nat

\* Of what is listed only an Ingress names Services, and the migration makes none.
ASSUME ReferenceAssumption ==
  /\ \A type \in ApplicationTypes : \A objects \in Targets[type] : \A o \in objects :
       \A d \in ObjectDependencies(o) : d.to.kind = "Service" => o.kind = "Ingress"
  /\ \A id \in Helpers : id.kind # "Ingress"

Viewers == 1..MaxViews   \* requests are numbered as they arrive

VARIABLES
  target,       \* the objects in the target namespace
  run,          \* the run's status, its failed steps, and why it rolls back
  results,      \* what its validations have recorded of resources: the last word on each
  topology,     \* its row in migration_run_topologies
  view          \* the requests that are being answered

observedVars == <<target, run, results>>
evidenceVars == <<inventoryVars, observedVars, topology, view>>

RunStages == {"NONE", "RESTORE", "AWAITING_CUTOVER", "ROLLING_BACK", "COMPLETED", "FAILED", "CANCELLED"}
FailingSteps == {"VALIDATION", "another"}

(***************************************************************************)
(* A node of a topology: a resource, its attributes, and what the mapping  *)
(* changes of it.                                                          *)
(***************************************************************************)
MergeAttributes(first, second) ==
  [a \in DOMAIN first \cup DOMAIN second |-> IF a \in DOMAIN second THEN second[a] ELSE first[a]]

Node(id, required, status, attrs) ==
  [id |-> id, required |-> required, status |-> status, attrs |-> attrs, changes |-> {}]
NodeStatuses == {"DISCOVERED", "PLANNED", "CREATED", "SUCCEEDED", "WARNING", "FAILED", "MISSING", "SKIPPED"}

WithVolume(resource, inventory) ==
  LET volume == {v \in inventory.volumes : v.id = resource.id}
  IN  IF volume = {} THEN resource.attrs ELSE MergeAttributes(resource.attrs, (CHOOSE v \in volume : TRUE).attrs)

\* What a resource depends on is a node as well, whether or not it was listed:
\* such a node has no attributes.
GraphFromInventory(inventory, status) ==
  LET listed == {Node(r.id, TRUE, status, WithVolume(r, inventory)) : r \in inventory.resources}
      others == {d.to : d \in inventory.dependencies} \ {n.id : n \in listed}
  IN  listed \cup {LET first == CHOOSE d \in inventory.dependencies : d.to = id
                   IN  Node(id, first.required, status, << >>) : id \in others}

(***************************************************************************)
(* The plan.                                                               *)
(***************************************************************************)
Mapped(attribute, value) ==
  IF attribute \in DOMAIN profile /\ value \in DOMAIN profile[attribute]
  THEN profile[attribute][value] ELSE value

IsMapped(attribute, value) ==
  /\ attribute \in DOMAIN profile /\ value \in DOMAIN profile[attribute]
  /\ attribute = "storageClass" \/ Mapped(attribute, value) # value

MappingChanges(node) ==
  IF node.id.kind = "StorageClass"
  THEN IF IsMapped("storageClass", node.id.name)
       THEN {[attribute |-> "name", to |-> Mapped("storageClass", node.id.name)]} ELSE {}
  ELSE {[attribute |-> a, to |-> Mapped(a, node.attrs[a])] :
          a \in {b \in DOMAIN node.attrs : IsMapped(b, node.attrs[b])}}

\* The planned resource keeps what the source showed of its own.
PlannedNode(node) ==
  LET changed == MappingChanges(node)
      NewValue(a) == (CHOOSE c \in changed : c.attribute = a).to
  IN  [node EXCEPT
         !.status = "PLANNED",
         !.changes = changed,
         !.id.name = IF \E c \in changed : c.attribute = "name" THEN NewValue("name") ELSE @,
         !.attrs = [a \in DOMAIN @ |-> IF \E c \in changed : c.attribute = a THEN NewValue(a) ELSE @[a]]]

BuildKubernetesTarget(inventory) ==
  {PlannedNode(n) : n \in GraphFromInventory(inventory, "DISCOVERED")}

KubernetesResourceName(name) == ResourceName[name]

\* The image is rewritten; a claim gets the class of the first storage mapping.
FirstStorageMapping ==
  IF "storageClass" \notin DOMAIN profile THEN {}
  ELSE LET source == CHOOSE c \in DOMAIN profile["storageClass"] : TRUE
       IN  {[attribute |-> "storageClass", to |-> class] :
              class \in {Mapped("storageClass", source)} \ {source}}

ComposeNode(kind, item, required, attrs, changed) ==
  [Node(Id(kind, KubernetesResourceName(item.name)), required, "PLANNED", attrs) EXCEPT !.changes = changed]

BuildComposeTarget ==
       {ComposeNode("Deployment", s, TRUE, [attribute \in {"image"} |-> Mapped("image", s.image)],
                    {[attribute |-> "image", to |-> Mapped("image", s.image)] :
                       changed \in {TRUE} \cap {IsMapped("image", s.image)}}) : s \in Project.services}
  \cup {ComposeNode("Service", s, TRUE, << >>, {}) : s \in Project.services}
  \cup {ComposeNode("PersistentVolumeClaim", v, ~v.external, << >>, FirstStorageMapping) : v \in Project.volumes}

Planned(inventory) == IF application.type = "DOCKER_COMPOSE" THEN BuildComposeTarget
                      ELSE BuildKubernetesTarget(inventory)

(***************************************************************************)
(* Observations.                                                           *)
(***************************************************************************)
Number(node, attribute) == IF attribute \in DOMAIN node.attrs THEN node.attrs[attribute] ELSE 0

AnyReplicas(node) ==
  CASE node.id.kind = "Deployment" -> Number(node, "replicas") > 0
    [] node.id.kind \in {"StatefulSet", "DaemonSet"} -> Number(node, "replicas") > 0
    [] node.id.kind = "PersistentVolumeClaim" ->
         "phase" \in DOMAIN node.attrs /\ node.attrs["phase"] = "Bound"
    [] OTHER -> TRUE

CurrentlyHealthy(node) ==
  LET desired == Number(node, "replicas")
  IN  CASE node.id.kind = "Deployment" -> Number(node, "availableReplicas") >= desired /\ desired > 0
        [] node.id.kind \in {"StatefulSet", "DaemonSet"} -> Number(node, "readyReplicas") >= desired /\ desired > 0
        [] node.id.kind = "PersistentVolumeClaim" ->
             "phase" \in DOMAIN node.attrs /\ node.attrs["phase"] = "Bound"
        [] OTHER -> TRUE

MappingAppearsApplied(change, actual) ==
  IF change.attribute = "name" THEN actual.id.name = change.to
  ELSE change.attribute \in DOMAIN actual.attrs /\ actual.attrs[change.attribute] = change.to

IsGeneratedClusterResource(node) ==
  \/ node.id.kind = "StorageClass"
  \/ node.id \in {Id("ServiceAccount", "default"), Id("ConfigMap", "kube-root-ca.crt")}

IsMigrationHelperResource(node) == node.id \in Helpers

IsConclusive(status) == IsTerminal(status) \/ status = "AWAITING_CUTOVER"

StatusOfExisting(node, status) ==
  CASE status \in {"COMPLETED", "AWAITING_CUTOVER"} -> "SUCCEEDED"
    [] status \in {"FAILED", "CANCELLED"} -> IF CurrentlyHealthy(node) THEN "SUCCEEDED" ELSE "WARNING"
    [] OTHER -> "CREATED"

MergedNode(node, observed, status) ==
  LET found == {a \in observed : a.id = node.id}
      actual == CHOOSE a \in found : TRUE
      merged == [node EXCEPT !.attrs = MergeAttributes(@, actual.attrs)]
  IN  IF found = {} THEN [node EXCEPT !.status = IF IsConclusive(status) THEN "MISSING" ELSE @]
      ELSE [merged EXCEPT !.status = IF \E c \in node.changes : ~MappingAppearsApplied(c, actual) THEN "FAILED"
                                     ELSE StatusOfExisting(merged, status)]

MergeObservedTopology(expected, observed, status) ==
  LET unplanned == {a \in observed : /\ \A n \in expected : n.id # a.id
                                     /\ ~IsMigrationHelperResource(a)}
  IN  {MergedNode(n, observed, status) : n \in expected}
        \cup {IF IsGeneratedClusterResource(a) THEN [a EXCEPT !.required = FALSE, !.status = "SKIPPED"]
              ELSE [a EXCEPT !.status = "WARNING"] : a \in unplanned}

ApplyEventEvidence(graph) ==
  {[n EXCEPT !.status = IF n.id \in DOMAIN results THEN results[n.id] ELSE @] : n \in graph}

\* Of the objects themselves: what the documentation asks of a reconciliation.
IsReady(object) ==
  CASE object.kind = "Deployment" -> object.fields["availableReplicas"] >= object.fields["replicas"]
    [] IsClaim(object) -> object.fields["phase"] = "Bound"
    [] OTHER -> TRUE

AllReady(expected) ==
  \A n \in expected : n.required /\ n.id.kind # "StorageClass" =>
    \E o \in target : IdOf(o) = n.id /\ IsReady(o)

(***************************************************************************)
(* The row and the views.  Of an observation that is stored, only what a   *)
(* reconciliation asks of its graph is kept here; an observation that could*)
(* not be made is stored with an error.  The column is filled by refreshes *)
(* and, when it is, read instead of the observation inside the evidence.   *)
(***************************************************************************)
AllRequiredSucceeded(graph) ==
  LET required == {n \in graph : n.required /\ n.status # "SKIPPED"}
  IN  required # {} /\ \A n \in required : n.status = "SUCCEEDED"

NoObservation == [made |-> FALSE, healthy |-> FALSE, proved |-> FALSE]
Observation(graph, proved) == [made |-> TRUE, healthy |-> AllRequiredSucceeded(graph), proved |-> proved]

NoTopology == [found |-> FALSE, terminal |-> FALSE, graph |-> {}, limited |-> FALSE,
               inside |-> NoObservation, column |-> NoObservation, filled |-> FALSE]

StoredObservation(row) == IF row.filled THEN row.column ELSE row.inside

\* stages: the next thing that a request does
ViewStages == {"idle", "resolve", "application", "profile", "observe", "events", "save",
               "refresh", "current", "store", "stored", "steps", "reconcile", "done"}
NoView == [at |-> "idle", op |-> "none", by |-> "none", status |-> "NONE", row |-> NoTopology,
           inventory |-> NoInventory, observed |-> NoObservation]

EvidenceTypeOK ==
  /\ InventoryTypeOK
  /\ target \in Targets[application.type] \cup {{}}
  /\ run \in [status : RunStages, failed : SUBSET FailingSteps,
              undo : {"nothing", "failure", "cancel", "request"}]
  /\ \A id \in DOMAIN results : results[id] \in {"SUCCEEDED", "WARNING", "FAILED"}
  /\ \A n \in topology.graph : n.status \in NodeStatuses
  /\ \A v \in DOMAIN view : view[v].at \in ViewStages /\ view[v].status \in RunStages

EvidenceInit ==
  /\ InventoryInit
  /\ target = {}
  /\ run = [status |-> "NONE", failed |-> {}, undo |-> "nothing"]
  /\ results = << >>
  /\ topology = NoTopology
  /\ view = [v \in Viewers |-> NoView]

Sees(v, value) == view' = [view EXCEPT ![v] = value]
Done == [NoView EXCEPT !.at = "done"]
Quiet == UNCHANGED <<inventoryVars, observedVars, topology>>

(***************************************************************************)
(* Views.                                                                  *)
(***************************************************************************)
\* Topology returns frozen evidence as it is, and looks at it again only to
\* reconcile the run.
\* Bound: only the first view is opened before the run has ended, and every
\* other counts as a change.
Arrives(v) ==
  /\ view[v].at = "idle" /\ run.status # "NONE"
  /\ \/ v = 1 /\ UNCHANGED inventoryVars
     \/ /\ v > 1 /\ view[v-1].at # "idle" /\ IsTerminal(run.status)
        /\ Changed /\ UNCHANGED <<application, profile>>

\* Whether anything is left to do after what Topology has returned.
Goes(op) == IF op = "refresh" THEN [NoView EXCEPT !.at = "refresh", !.by = "refresh"] ELSE Done

\* The row.  Frozen evidence is returned as it is, and only looked at again to
\* reconcile the run; other evidence is observed again.
OpenTopology(v, op) ==
  /\ Arrives(v)
  /\ LET request == [NoView EXCEPT !.op = op, !.by = "topology"]
         stored == StoredObservation(topology)
     IN  Sees(v, IF ~topology.terminal
                 THEN [request EXCEPT !.at = "resolve",
                         !.row = IF topology.found THEN [topology EXCEPT !.inside = stored] ELSE NoTopology]
                 ELSE IF stored.made THEN [request EXCEPT !.at = "stored", !.observed = stored]
                 ELSE Goes(op))
  /\ UNCHANGED <<observedVars, topology>>

\* The run.  Evidence that was not captured at the start is reconstructed, and a
\* refresh plans again, from the application and the profile.
GetRun(v) ==
  /\ view[v].at \in {"resolve", "refresh", "stored"}
  /\ Sees(v, [view[v] EXCEPT !.status = run.status,
                !.at = IF view[v].at = "stored" THEN "steps"
                       ELSE IF view[v].at = "resolve" /\ view[v].row.found THEN "observe"
                       ELSE "application"])
  /\ Quiet

GetApplication(v) ==
  /\ view[v].at = "application"
  /\ Sees(v, [view[v] EXCEPT !.at = "profile", !.inventory = application.inventory])
  /\ Quiet

ResolveMappingProfile(v) ==
  /\ view[v].at = "profile"
  /\ Sees(v, [view[v] EXCEPT !.at = IF view[v].by = "refresh" THEN "current" ELSE "observe",
                !.row.graph = Planned(view[v].inventory), !.inventory = NoInventory])
  /\ Quiet

ObserveTarget(expected, status, failing) ==
  MergeObservedTopology(expected, GraphFromInventory(DiscoverNamespace(target, failing), "CREATED"), status)

Observe(v) ==
  /\ view[v].at = "observe"
  /\ \/ \E failing \in FailingLists :
          /\ Lists(failing)
          /\ LET graph == ObserveTarget(view[v].row.graph, view[v].status, failing)
             IN  Sees(v, [view[v] EXCEPT !.at = "events", !.row.graph = graph,
                                         !.row.inside = Observation(graph, AllReady(view[v].row.graph))])
     \/ Lists({}) /\ Sees(v, [view[v] EXCEPT !.at = "save", !.row.limited = TRUE])
  /\ UNCHANGED <<application, profile, observedVars, topology>>

\* What validations have recorded is put over what was observed, unless the
\* events cannot be read.
ApplyEvents(v) ==
  /\ view[v].at = "events"
  /\ \E graph \in {ApplyEventEvidence(view[v].row.graph), view[v].row.graph} :
       Sees(v, [view[v] EXCEPT !.at = "save", !.row.graph = graph,
                               !.row.inside = Observation(graph, view[v].row.inside.proved)])
  /\ Quiet

EndedNow(v) == IsTerminal(run.status)
EndedWhenRead(v) == IsTerminal(view[v].status)

SaveTopologyEvidence(v) ==
  /\ view[v].at = "save"
  /\ topology' =
       IF topology.terminal THEN topology
       ELSE [topology EXCEPT !.found = TRUE, !.terminal = EndedWhenRead(v),
                             !.graph = view[v].row.graph, !.limited = view[v].row.limited,
                             !.inside = view[v].row.inside]
  /\ Sees(v, Goes(view[v].op))
  /\ UNCHANGED <<inventoryVars, observedVars>>

\* A refresh does not use what Topology returned.
RefreshTopology(v) ==
  /\ view[v].at = "current"
  /\ \E failing \in FailingLists :
       /\ Lists(failing)
       /\ LET expected == view[v].row.graph
          IN  \E observed \in {NoObservation,
                 Observation(ObserveTarget(expected, view[v].status, failing), AllReady(expected))} :
                Sees(v, [view[v] EXCEPT !.at = "store", !.row = NoTopology, !.observed = observed])
  /\ UNCHANGED <<application, profile, observedVars, topology>>

\* The observation replaces the column, whatever another refresh has stored.
SaveCurrentTopologyObservation(v) ==
  /\ view[v].at = "store"
  /\ topology' = [topology EXCEPT !.column = view[v].observed, !.filled = TRUE]
  /\ Sees(v, IF view[v].observed.made THEN [view[v] EXCEPT !.at = "steps"] ELSE Done)
  /\ UNCHANGED <<inventoryVars, observedVars>>

(***************************************************************************)
(* Reconciliation.                                                         *)
(***************************************************************************)
HealthIsEnough(status, failed, observed) == status = "FAILED" /\ observed.healthy
ValidationFailureCanBeReconciled(status, failed, observed) ==
  status = "FAILED" /\ failed = {"VALIDATION"} /\ observed.healthy

AfterReconciliation(v) == IF view[v].by = "topology" THEN Goes(view[v].op) ELSE Done

\* The steps are read after the status that decides with them.
ReconcileValidationResult(v) ==
  /\ view[v].at = "steps"
  /\ Sees(v, IF ValidationFailureCanBeReconciled(view[v].status, run.failed, view[v].observed)
             THEN [view[v] EXCEPT !.at = "reconcile", !.status = "NONE"] ELSE AfterReconciliation(v))
  /\ Quiet

HasFailedValidation(failed) == "VALIDATION" \in failed

\* The transaction looks at the run and at the step again, under the lock of
\* the run; a conflict is an error of the request.
ReconcileValidationSuccess(v) ==
  /\ view[v].at = "reconcile"
  /\ \/ /\ run.status = "FAILED" /\ HasFailedValidation(run.failed)
        /\ run' = [run EXCEPT !.status = "COMPLETED", !.failed = @ \ {"VALIDATION"}]
        /\ Sees(v, AfterReconciliation(v))
     \/ /\ run.status = "COMPLETED"
        /\ Sees(v, AfterReconciliation(v))
        /\ UNCHANGED run
     \/ /\ run.status # "COMPLETED" /\ ~(run.status = "FAILED" /\ HasFailedValidation(run.failed))
        /\ Sees(v, Done)
        /\ UNCHANGED run
  /\ UNCHANGED <<inventoryVars, target, results, topology>>

\* A read or a write fails, the client goes away, the server stops.
RequestFails(v) ==
  /\ view[v].at \notin {"idle", "done"}
  /\ Sees(v, Done)
  /\ Quiet

View(v) ==
  \/ \E op \in {"topology", "refresh"} : OpenTopology(v, op)
  \/ GetRun(v) \/ GetApplication(v) \/ ResolveMappingProfile(v)
  \/ Observe(v) \/ ApplyEvents(v) \/ RefreshTopology(v) \/ SaveCurrentTopologyObservation(v)
  \/ ReconcileValidationResult(v) \/ ReconcileValidationSuccess(v)

(***************************************************************************)
(* The run and the target.  RESTORE stands for the statuses up to          *)
(* VALIDATION.                                                             *)
(***************************************************************************)
RunBecomes(value) ==
  /\ run' = value
  /\ UNCHANGED <<inventoryVars, target, results, topology, view>>

\* The run is committed before its evidence is captured, which may fail.
StartRun ==
  /\ run.status = "NONE"
  /\ run' = [run EXCEPT !.status = "RESTORE"]
  /\ topology' \in {topology, [topology EXCEPT !.found = TRUE, !.graph = Planned(application.inventory)]}
  /\ UNCHANGED <<inventoryVars, target, results, view>>

RestoreTarget ==
  /\ run.status = "RESTORE" /\ target = {}
  /\ target' \in Targets[application.type]
  /\ UNCHANGED <<inventoryVars, run, results, topology, view>>

\* Somebody, or something, changes the namespace.
TargetChanges ==
  /\ target # {} /\ Changed
  /\ target' \in Targets[application.type] \ {target}
  /\ UNCHANGED <<application, profile, run, results, topology, view>>

Validated == {"Deployment", "StatefulSet", "PersistentVolumeClaim", "Service", "Ingress"}
LacksSelector(object) ==
  object.kind = "Service" /\ object.selector = {} /\ object.fields["type"] # "ExternalName"

ValidateNamespace(objects) ==
  LET checked == {o \in objects : o.kind \in Validated}
  IN  [id \in {IdOf(o) : o \in checked} |->
         IF \E o \in checked : IdOf(o) = id /\ ~IsReady(o) THEN "FAILED"
         ELSE IF \E o \in checked : IdOf(o) = id /\ LacksSelector(o) THEN "WARNING" ELSE "SUCCEEDED"]

\* The results are recorded, and the endpoints are checked after that; a failed
\* attempt is repeated, or the last one.
ValidateTarget ==
  LET found == ValidateNamespace(target)
  IN  /\ run.status = "RESTORE" /\ target # {}
      /\ results' = MergeAttributes(results, found)
      /\ \/ /\ \A id \in DOMAIN found : found[id] # "FAILED"
            /\ run' = [run EXCEPT !.status = "AWAITING_CUTOVER"]
         \/ run' = [run EXCEPT !.status = "ROLLING_BACK", !.failed = {"VALIDATION"}, !.undo = "failure"]
         \/ UNCHANGED run
      /\ UNCHANGED <<inventoryVars, target, topology, view>>

RestoreFails ==
  /\ run.status = "RESTORE"
  /\ RunBecomes([run EXCEPT !.status = "ROLLING_BACK", !.failed = {"another"}, !.undo = "failure"])

CancelRun ==
  /\ run.status \in {"RESTORE", "AWAITING_CUTOVER"}
  /\ RunBecomes([run EXCEPT !.status = "ROLLING_BACK", !.undo = "cancel"])

ConfirmCutover ==
  /\ run.status = "AWAITING_CUTOVER"
  /\ RunBecomes([run EXCEPT !.status = "COMPLETED"])

RestoreSource ==
  /\ run.status = "COMPLETED"
  /\ RunBecomes([run EXCEPT !.status = "ROLLING_BACK", !.undo = "request"])

Ending == [failure |-> "FAILED", cancel |-> "CANCELLED", request |-> "COMPLETED"]

RollbackEnds ==
  /\ run.status = "ROLLING_BACK"
  /\ \/ RunBecomes([run EXCEPT !.status = Ending[run.undo], !.undo = "nothing"])
     \/ RunBecomes([run EXCEPT !.status = "FAILED", !.failed = @ \cup {"another"}, !.undo = "nothing"])

EvidenceNext ==
  \/ \E v \in Viewers : View(v)
  \/ \E v \in DOMAIN view : SaveTopologyEvidence(v) \/ RequestFails(v)
  \/ StartRun \/ RestoreTarget \/ TargetChanges
  \/ ValidateTarget \/ RestoreFails \/ CancelRun \/ ConfirmCutover \/ RestoreSource \/ RollbackEnds
  \/ InventoryNext /\ UNCHANGED <<observedVars, topology, view>>

(***************************************************************************)
(* Properties.                                                             *)
(***************************************************************************)
\* What an ended run leaves of a plan: nothing is still planned or only created.
IsConcluded(graph) == \A n \in graph : n.status \notin {"PLANNED", "CREATED"}

\* Evidence is frozen only by a view that observed the target after the run had
\* ended, or says that it could not: nothing in it is still waiting.  It never
\* changes afterwards, whatever slower views still store.
FrozenEvidenceIsFinal ==
  /\ [](topology.terminal /\ ~topology.limited => IsConcluded(topology.graph))
  /\ [][topology.terminal => topology' = [topology EXCEPT !.column = topology'.column,
                                                          !.filled = topology'.filled]]_evidenceVars

\* A run with a failed step is never made COMPLETED: not by a view that had
\* decided before another one reconciled the run and its source's restoration
\* failed, and not after a failed rollback.
CompletedRunHasNoFailure == run.status = "COMPLETED" => run.failed = {}

(***************************************************************************)
(* What the two above rest on: inductive with the shape of the variables.  *)
(***************************************************************************)
\* A run has failed steps only if it failed, or rolls back because it does.
RunKnowsItsFailure ==
  /\ run.undo # "nothing" <=> run.status = "ROLLING_BACK"
  /\ run.failed # {} => run.status = "FAILED" \/ run.undo = "failure"

\* Once a run has ended as FAILED it never again rolls back for a failure.
HasEndedFailed ==
  run.status \in {"FAILED", "COMPLETED"} \/ (run.status = "ROLLING_BACK" /\ run.undo = "request")

\* A request that has found the run failed by its validation alone knows that,
\* as long as the validation counts as failed, nothing else does.
ReconciliationIsSound(v) ==
  /\ view[v].status = "FAILED" \/ view[v].at = "reconcile" => HasEndedFailed
  /\ view[v].at = "reconcile" /\ HasFailedValidation(run.failed) =>
       run.failed = {"VALIDATION"} /\ run.status = "FAILED"

\* Nothing is looked at or frozen before the run starts.
EvidenceFollowsRun ==
  /\ run.status = "NONE" => ~topology.terminal /\ \A v \in Viewers : view[v].at = "idle"
  /\ \A v \in Viewers : view[v].at \in {"events", "save"} /\ EndedWhenRead(v) /\ ~view[v].row.limited =>
       IsConcluded(view[v].row.graph)
  /\ topology.terminal /\ ~topology.limited => IsConcluded(topology.graph)

EvidenceInvariant ==
  RunKnowsItsFailure /\ (\A v \in Viewers : ReconciliationIsSound(v)) /\ EvidenceFollowsRun

\* The refresh of a Compose project reconciles its run only if, when it looked,
\* every planned resource existed and was ready: its plan has no attributes of
\* the source that could stand for missing ones.
ProvedBy(v) == view[v].observed.proved
Reconciles(v) == run.status = "FAILED" /\ run'.status = "COMPLETED" /\ view'[v] # view[v]

RefreshProvesComposeTarget ==
  [][\A v \in Viewers :
       Reconciles(v) /\ application.type = "DOCKER_COMPOSE" /\ view[v].by = "refresh" => ProvedBy(v)]_evidenceVars

\* A run is reconciled only after a fresh observation has proved that every
\* required resource is healthy (what ReconcileValidationSuccess promises).
ReconciledTargetIsHealthy == [][\A v \in Viewers : Reconciles(v) => ProvedBy(v)]_evidenceVars
=============================================================================
