\* One run of a plan with every optional step, or of one with none.
CONSTANTS
  Plans = {full, bare}
  Runs = {r1}
  Workers = {w1, w2}
  PreSyncPlans = {full}
  VolumePlans = {full}
  MaxAttempts = 2
  MaxFaults = 2
  None = None
SPECIFICATION Spec
SYMMETRY WorkerSymmetry
CHECK_DEADLOCK FALSE
INVARIANTS
  JobsDriveActiveRuns
  StepsInOrder
  QuiescedRunsRollBack
  CutoverIsFinal
  CompletionIsJustified
  PlanShowsItsOnlyRun
PROPERTIES
  ExecutesProgram
