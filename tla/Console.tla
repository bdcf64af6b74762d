------------------------------- MODULE Console -------------------------------
(***************************************************************************)
(* What an administrator sees and does at the console: the checks of a     *)
(* plan before its run, the progress of the run as it happens, and the     *)
(* evidence of what it has done.  The three read what workers and other    *)
(* requests write; they only have the database in common, so one of them   *)
(* at a time is watched, and the others are among what happens around it.  *)
(***************************************************************************)
EXTENDS EventStream, PlanChecks

CONSTANT Watched   \* bound: which of them are looked at

ASSUME ConsoleAssumption == Watched \subseteq {"progress", "evidence", "plan"} /\ Watched # {}

VARIABLE watched   \* it never changes

consoleVars == <<vars, evidenceVars, planVars, watched>>

ConsoleTypeOK ==
  /\ watched \in Watched
  /\ StreamTypeOK /\ EvidenceTypeOK /\ PlanTypeOK

\* What is not watched starts in one of its states.
Unwatched(part, state) == watched # part => state

ConsoleInit ==
  /\ watched \in Watched
  /\ Init /\ PlanInit
  /\ Unwatched("progress", reader = "report")
  /\ watched = "plan" => environment.source.connected /\ environment.target.connected
  /\ watched = "progress" => application.type = "KUBERNETES"
  /\ Unwatched("plan", /\ plan.mode = CHOOSE m \in Modes : TRUE
                       /\ environment.source = [connected |-> FALSE, capabilities |-> NoCapabilities]
                       /\ environment.target = environment.source
                       /\ application.selection = {} /\ "storageClass" \in DOMAIN profile)

ConsoleNext ==
  \/ watched = "progress" /\ Next /\ UNCHANGED <<evidenceVars, planVars, watched>>
  \/ watched = "evidence" /\ EvidenceNext /\ UNCHANGED <<vars, planVars, watched>>
  \/ watched = "plan" /\ PlanNext /\ UNCHANGED <<vars, watched>>

ConsoleSpec ==
  /\ ConsoleInit /\ [][ConsoleNext]_consoleVars
  /\ WF_vars(Serve) /\ WF_vars(Receive)
=============================================================================
