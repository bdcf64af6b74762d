------------------------- MODULE MCSourceWorkloads -------------------------
(***************************************************************************)
(* Instances of SourceWorkloads for TLC.                                   *)
(***************************************************************************)
EXTENDS SourceWorkloads, TLC

\* Workers are interchangeable, and so are the workloads of a source.
SourceSymmetry == Permutations(Workers) \cup Permutations(Workloads)
=============================================================================
