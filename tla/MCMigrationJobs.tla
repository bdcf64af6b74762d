-------------------------- MODULE MCMigrationJobs --------------------------
(***************************************************************************)
(* Instances of MigrationJobs for TLC.                                     *)
(***************************************************************************)
EXTENDS MigrationJobsRefinement, TLC

\* Runs and workers are interchangeable; plans are not, their strategies differ.
RunSymmetry == Permutations(Runs) \cup Permutations(Workers)
WorkerSymmetry == Permutations(Workers)
=============================================================================
