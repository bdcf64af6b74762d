----------------------------- MODULE MCTransfer -----------------------------
(***************************************************************************)
(* The deployments and plans that TLC considers.                           *)
(***************************************************************************)
EXTENDS Transfer

CONSTANTS fast, slow, ssd, hdd

MCClasses == {fast, slow} \X {ssd, hdd}

\* One run meets a second one that maps the same class alike or otherwise, or that
\* maps another class.
MeetingProfiles ==
  {[r \in Runs |-> IF r = First THEN {<<fast, ssd>>} ELSE other] :
     other \in {{<<fast, ssd>>}, {<<fast, hdd>>}, {<<slow, hdd>>}}}

MCSettings ==
  {Whole(TRUE, TRUE, FALSE, TRUE, {<<fast, ssd>>}),
   Whole(TRUE, FALSE, FALSE, FALSE, {}),
   Whole(FALSE, TRUE, TRUE, FALSE, {}),
   Whole(FALSE, TRUE, FALSE, FALSE, {})}
  \cup {Meeting("mappings", profiles) : profiles \in MeetingProfiles}
  \cup {Meeting("names", [r \in Runs |-> {}])}
  \cup {Project(TRUE, FALSE, TRUE, TRUE), Project(TRUE, TRUE, FALSE, FALSE), Project(FALSE, FALSE, FALSE, FALSE)}
=============================================================================
