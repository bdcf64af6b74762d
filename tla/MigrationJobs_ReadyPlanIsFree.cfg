\* Three runs of one plan: one cancelled, one started, one retried.
CONSTANTS
  Plans = {bare}
  Runs = {r1, r2, r3}
  Workers = {w1}
  PreSyncPlans = {}
  VolumePlans = {}
  MaxAttempts = 1
  MaxFaults = 0
  None = None
SPECIFICATION Spec
SYMMETRY RunSymmetry
CHECK_DEADLOCK FALSE
INVARIANT ReadyPlanIsFree
