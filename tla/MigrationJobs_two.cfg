\* Two runs, one perhaps retried from the other, share a plan and the workers.
CONSTANTS
  Plans = {bare}
  Runs = {r1, r2}
  Workers = {w1, w2}
  PreSyncPlans = {}
  VolumePlans = {}
  MaxAttempts = 1
  MaxFaults = 1
  None = None
SPECIFICATION Spec
SYMMETRY RunSymmetry
CHECK_DEADLOCK FALSE
INVARIANTS
  TypeOK
  OneJobPerRun
  EveryJobCanBeClaimed
  RunningPlanHasActiveRun
  JobInvariant
PROPERTIES
  StaleWorkersChangeNothing
