---------------------- MODULE MigrationJobsRefinement ----------------------
(***************************************************************************)
(* The job queue implements RunProgram: whatever workers, leases, faults   *)
(* and administrators do, each run is executed like a sequential program.  *)
(***************************************************************************)
EXTENDS MigrationJobs

\* The step a run is at is the step of its job; at the gate it has none.
JobStep(r) == (CHOOSE j \in jobs : j.run = r).step

Position(r) ==
  CASE run[r].status = "AWAITING_CUTOVER" -> "AWAIT_CUTOVER"
    [] AwaitsWorker(r)                   -> JobStep(r)
    [] OTHER                              -> run[r].status

Reason(code) ==
  CASE code = "STEP_FAILED"              -> "failure"
    [] code = "CANCEL_REQUESTED"         -> "cancel"
    [] code = "SOURCE_RESTORE_REQUESTED" -> "request"
    [] OTHER                             -> "nothing"

Program == INSTANCE RunProgram WITH
  plan    <- [r \in Runs |-> run[r].plan],
  at      <- [r \in Runs |-> Position(r)],
  touched <- quiesced,
  undo    <- [r \in Runs |-> Reason(run[r].code)]

\* Every behaviour of the queue and its workers is one of the sequential
\* program, in which no job, lease, takeover or stale worker exists.
ExecutesProgram == Program!ProgramSpec
=============================================================================
