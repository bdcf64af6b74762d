------------------------------ MODULE Inventory ------------------------------
(***************************************************************************)
(* What is known of a namespace: the inventory that the Kubernetes adapter *)
(* takes of it, the row in source_applications that keeps it, and the      *)
(* profile that maps its values to the target's.  An inventory lists one   *)
(* kind of resources after the other; a list that fails only leaves a      *)
(* warning, and its resources are missing without a trace.  A later        *)
(* discovery of the same application replaces the stored inventory.        *)
(*                                                                         *)
(* A resource is identified by its kind and name: the namespaces of the    *)
(* source and of the target correspond to each other.                      *)
(***************************************************************************)
EXTENDS Naturals, FiniteSets, TLC

CONSTANTS
  SourceObjects,   \* the objects of the source namespace
  CustomKinds,     \* kinds that are defined by a CustomResourceDefinition
  FailingLists,    \* bound: the sets of kinds whose lists can fail together
  Selections,      \* bound: what an administrator can select of a namespace
  Profiles,        \* the mapping profiles that pass validation
  MaxChanges       \* bound: changes of what others read, failed lists, further readers

ASSUME InventoryAssumption ==
  /\ {} \in FailingLists /\ \A s \in Selections : s # {}
  /\ MaxChanges \in Nat

VARIABLES
  application,   \* the row of the application
  profile,       \* the row of the mapping profile
  changes        \* bound: changes so far

inventoryVars == <<application, profile, changes>>

ApplicationTypes == {"KUBERNETES", "DOCKER_COMPOSE"}

Id(kind, name) == [kind |-> kind, name |-> name]
IdOf(object) == Id(object.kind, object.name)

(***************************************************************************)
(* fields   - what the API server reports of the object                    *)
(* requires - its owners, service account, volumes, roles, scaled workload *)
(* reads    - ConfigMaps and Secrets of their environment, with "optional" *)
(* routes   - Services behind an Ingress                                   *)
(* selector - of a Service; labels - of the pods of a workload             *)
(***************************************************************************)
Object(kind, name, fields) ==
  [kind |-> kind, name |-> name, fields |-> fields, requires |-> {}, reads |-> {}, routes |-> {},
   selector |-> {}, labels |-> {}]

WorkloadKinds == {"Deployment", "StatefulSet", "DaemonSet", "Job", "CronJob"}
IsClaim(object) == object.kind = "PersistentVolumeClaim"

\* Numbers of a status are left out of the API server's answer when they are 0.
OmittedAtZero == {"readyReplicas", "availableReplicas"}
VolumeFields == {"storageClass", "phase", "volumeMode"}

ResourceSummary(object) ==
  LET reported == {f \in DOMAIN object.fields \ VolumeFields :
                     f \in OmittedAtZero => object.fields[f] # 0}
  IN  [id |-> IdOf(object), attrs |-> [f \in reported |-> object.fields[f]]]

VolumeSummary(object) ==
  [id |-> IdOf(object), attrs |-> [f \in VolumeFields |-> object.fields[f]]]

Dependency(object, to, required) == [from |-> IdOf(object), to |-> to, required |-> required]

EnvironmentDependencies(object) ==
  {Dependency(object, use.to, ~use.optional) : use \in object.reads}

IngressDependencies(object) == {Dependency(object, to, TRUE) : to \in object.routes}

\* A claim depends on its storage class, which no inventory lists.
ObjectDependencies(object) ==
  {Dependency(object, to, TRUE) : to \in object.requires}
    \cup EnvironmentDependencies(object)
    \cup IngressDependencies(object)
    \cup {Dependency(object, Id("StorageClass", class), TRUE) :
            class \in {object.fields[f] : f \in DOMAIN object.fields \cap {"storageClass"}} \ {""}}

\* Whatever refers to an object names its kind and its name.
ASSUME DependencyAssumption ==
  \A o \in SourceObjects : \A d \in ObjectDependencies(o) : DOMAIN d.to = {"kind", "name"}

LabelsMatch(selector, labels) == selector # {} /\ selector \subseteq labels

SelectorDependencies(objects) ==
  {Dependency(pair[1], IdOf(pair[2]), TRUE) :
     pair \in {p \in objects \X objects :
                 /\ p[1].kind = "Service" /\ p[2].kind \in WorkloadKinds
                 /\ LabelsMatch(p[1].selector, p[2].labels)}}

BuildInventory(objects) ==
  [resources    |-> {ResourceSummary(o) : o \in objects},
   volumes      |-> {VolumeSummary(o) : o \in {c \in objects : IsClaim(c)}},
   dependencies |-> (UNION {ObjectDependencies(o) : o \in objects}) \cup SelectorDependencies(objects)]

NoInventory == [resources |-> {}, volumes |-> {}, dependencies |-> {}]

\* Nothing is discovered of custom resources without their definitions.
CustomObjects(objects, failing) ==
  IF "CustomResourceDefinition" \in failing THEN {}
  ELSE {o \in objects : o.kind \in CustomKinds \ failing}

CoreObjects(objects, failing) == {o \in objects : o.kind \notin CustomKinds \cup failing}

DiscoverNamespace(objects, failing) ==
  BuildInventory(CoreObjects(objects, failing) \cup CustomObjects(objects, failing))

DiscoverNamespaceCore(objects, failing) == BuildInventory(CoreObjects(objects, failing))

\* What an administrator has not selected is neither migrated nor depended on.
FilterInventory(inventory, selected) ==
  LET kept == {r.id : r \in inventory.resources} \cap selected
  IN  [resources    |-> {r \in inventory.resources : r.id \in kept},
       volumes      |-> {v \in inventory.volumes : v.id \in kept},
       dependencies |-> {d \in inventory.dependencies : d.from \in kept /\ d.to \in kept}]

(***************************************************************************)
(* The application.  Its key is the environment, the namespace and a name: *)
(* the namespace's own, or that of a selection.                            *)
(***************************************************************************)
Preview(failing) == DiscoverNamespace(SourceObjects, failing)

\* filterInventory refuses a selection of which nothing was listed.
IsDiscovery(selection, inventory) == selection # {} => inventory.resources # {}

Discoveries(selection) ==
  {i \in {IF selection = {} THEN Preview(failing) ELSE FilterInventory(Preview(failing), selection) :
             failing \in FailingLists} : IsDiscovery(selection, i)}

\* The bulk discovery leaves out custom resources, and namespaces without
\* workloads, entrances and data.
Migratable == WorkloadKinds \cup {"Service", "Ingress", "PersistentVolumeClaim"}
BulkDiscoveries ==
  {i \in {DiscoverNamespaceCore(SourceObjects, failing) : failing \in FailingLists} :
     \E r \in i.resources : r.id.kind \in Migratable}

Changed == changes < MaxChanges /\ changes' = changes + 1

Lists(failing) == IF failing = {} THEN UNCHANGED changes ELSE Changed

Upsert(inventory) == application' = [application EXCEPT !.inventory = inventory]

DiscoverSelected ==
  /\ Changed
  /\ application.type = "KUBERNETES"
  /\ \E inventory \in Discoveries(application.selection) :
       inventory # application.inventory /\ Upsert(inventory)
  /\ UNCHANGED profile

DiscoverAll ==
  /\ Changed
  /\ application.type = "KUBERNETES" /\ application.selection = {}
  /\ \E inventory \in BulkDiscoveries : inventory # application.inventory /\ Upsert(inventory)
  /\ UNCHANGED profile

\* A profile maps, for some attributes, values of the source to the target's.
UpdateProfile ==
  /\ Changed
  /\ \E other \in Profiles \ {profile} : profile' = other
  /\ UNCHANGED application

InventoryInit ==
  /\ \E type \in ApplicationTypes, selection \in Selections \cup {{}} :
       /\ type = "DOCKER_COMPOSE" => selection = {}
       /\ application = [type |-> type, selection |-> selection,
                         inventory |-> IF selection = {} THEN Preview({})
                                       ELSE FilterInventory(Preview({}), selection)]
       /\ IsDiscovery(selection, application.inventory)
  /\ profile \in Profiles
  /\ changes = 0

InventoryNext == DiscoverSelected \/ DiscoverAll \/ UpdateProfile

InventoryTypeOK ==
  /\ application.type \in ApplicationTypes
  /\ application.selection \in Selections \cup {{}}
  /\ IsDiscovery(application.selection, application.inventory)
  /\ {r.id : r \in application.inventory.resources} \subseteq {IdOf(o) : o \in SourceObjects}
  /\ profile \in Profiles
  /\ changes \in 0..MaxChanges
=============================================================================
