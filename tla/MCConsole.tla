------------------------------ MODULE MCConsole ------------------------------
(***************************************************************************)
(* A namespace with a Deployment, the claim it mounts, a Service, an       *)
(* Ingress and a custom resource; a Compose project with one service and   *)
(* one volume, whose names are not names of Kubernetes.                    *)
(***************************************************************************)
EXTENDS Console

Web(name, image, available) ==
  Object("Deployment", name, ("replicas" :> 1) @@ ("availableReplicas" :> available) @@ ("image" :> image))

Claim(name, class, phase, mode) ==
  Object("PersistentVolumeClaim", name, ("storageClass" :> class) @@ ("phase" :> phase) @@ ("volumeMode" :> mode))

Mounting(workload, claim) == [workload EXCEPT !.requires = {IdOf(claim)}]
Rule == Object("Rule", "rule", << >>)
Front(name, selector) == [Object("Service", name, "type" :> "ClusterIP") EXCEPT !.selector = selector]
Entrance == [Object("Ingress", "front", << >>) EXCEPT !.routes = {Id("Service", "web")}]
Helper == Object("Job", "smc-validation", << >>)

SourceData == Claim("data", "fast", "Bound", "Block")
SourceFront == Front("web", {"web"})
MCSource == {Mounting(Web("web", "old/web", 1), SourceData), SourceData, Rule, SourceFront, Entrance}

TargetWeb(available) == Mounting(Web("web", "new/web", available), SourceData)
TargetData(class) == Claim("data", class, "Bound", "Block")
ProjectData == Claim("db-data", "elf", "Bound", "Filesystem")
ProjectWeb(available) == Mounting(Web("web-1", "new/web", available), ProjectData)
ProjectFront == Front("web-1", {})

\* What was planned, or with a workload that is not ready; then the Ingress of the
\* namespace leads to a Service that is missing.  The project's Service selects
\* nothing, and a helper is left beside it.
MCTargets ==
  [KUBERNETES |-> {{TargetWeb(1), TargetData("elf"), Rule, SourceFront, Entrance},
                   {TargetWeb(0), TargetData("elf"), Rule, Entrance}},
   DOCKER_COMPOSE |-> {{ProjectWeb(1), ProjectData, ProjectFront, Helper},
                       {ProjectWeb(0), ProjectData, ProjectFront}}]

MCProject == [services |-> {[name |-> "web_1", image |-> "old/web"]},
              volumes |-> {[name |-> "db_data", external |-> FALSE]}]
MCHelpers == {IdOf(Helper)}
MCResourceName == ("web_1" :> "web-1") @@ ("db_data" :> "db-data")

Images == "old/web" :> "new/web"
MCProfiles == {("storageClass" :> ("fast" :> "elf")) @@ ("image" :> Images), "image" :> Images}

MCFailing == {{}, {"PersistentVolumeClaim"}}
MCSelections == {{Id("Deployment", "web"), Id("Rule", "rule")}}

Class(name, driver, default) == [name |-> name, driver |-> driver, default |-> default]
MCSourceCapabilities ==
  {[known |-> TRUE, mover |-> TRUE, systems |-> {"linux"}, classes |-> {Class("fast", "ceph", TRUE)},
    snapshots |-> snapshots] : snapshots \in {{"ceph"}, {}}}
MCTargetCapabilities ==
  {[known |-> TRUE, mover |-> TRUE, drivers |-> {"smartx"}, classes |-> classes] :
     classes \in {{Class("elf", "smartx", TRUE)}, {Class("fast", "ceph", FALSE)}}}
=============================================================================
