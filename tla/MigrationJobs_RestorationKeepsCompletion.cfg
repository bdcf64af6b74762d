\* The smallest run whose source is restored after the cutover.
CONSTANTS
  Plans = {bare}
  Runs = {r1}
  Workers = {w1}
  PreSyncPlans = {}
  VolumePlans = {}
  MaxAttempts = 1
  MaxFaults = 0
  None = None
SPECIFICATION Spec
SYMMETRY WorkerSymmetry
CHECK_DEADLOCK FALSE
INVARIANT RestorationKeepsCompletion
