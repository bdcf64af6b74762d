\* The smallest run whose failed validation is reconciled.
CONSTANTS
  Plans = {bare}
  Runs = {r1}
  Workers = {w1}
  PreSyncPlans = {}
  VolumePlans = {}
  MaxAttempts = 1
  MaxFaults = 0
  None = None
SPECIFICATION Spec
SYMMETRY WorkerSymmetry
CHECK_DEADLOCK FALSE
INVARIANT CompletedAfterConfirmation
