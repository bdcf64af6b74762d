----------------------------- MODULE MCPlatform -----------------------------
(***************************************************************************)
(* A bundle of two images with a manifest and its blobs in common, one of  *)
(* them through an index that names it twice, and what is looked at.       *)
(***************************************************************************)
EXTENDS Platform, TLC

CONSTANTS api, worker, other, index, arm, layer, config

\* A project of the registry where both images have the same name.
MCProjects == {"locked", "other"}
TargetsIn(repository) == [project \in MCProjects |-> IF project = "locked" THEN repository ELSE other]
MCNames == {"managed", "spare"} \cup Stored
MCLock == <<[targets |-> TargetsIn(api), root |-> arm], [targets |-> TargetsIn(worker), root |-> index]>>
MCChildren == (index :> <<arm, arm>>) @@ (arm :> <<config, layer>>)
MCImporters == {"deploy", "manual"}

Importing == Scenario({"import", "deploy"}, 0, {"locked"}, {}, 2, FALSE, FALSE)
Retargeting == Scenario({"import", "deploy"}, 0, MCProjects, {}, 1, FALSE, FALSE)
Installing == Scenario({"deploy", "register", "password", "delete"}, 0, {"locked"}, {}, 1, TRUE, FALSE)
Sharing == Scenario({"deploy", "register", "bootstrap", "delete"}, 1, {"locked"}, {"managed"}, 0, TRUE, FALSE)
Storing == Scenario({"bootstrap", "adopt", "reschedule"}, 3, {}, {"managed", "spare"}, 2, TRUE, TRUE)
Moving == Scenario({"bootstrap", "adopt", "environment", "delete"}, 2, {}, {"managed", "spare"}, 1, TRUE, TRUE)
BackingUp == Scenario({"install", "reuse", "uninstall", "external"}, 3, {}, {"spare"}, 2, TRUE, TRUE)

MCScenarios == {Importing, Retargeting, Installing, Sharing, Storing, Moving, BackingUp}

Symmetries == Permutations(Callers \ Attempts) \cup Permutations(Attempts) \cup Permutations(Stored)
=============================================================================
