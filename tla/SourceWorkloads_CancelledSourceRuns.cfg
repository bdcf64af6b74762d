\* The smallest Compose run that is cancelled while its source is being stopped.
CONSTANTS
  Plans = {plan}
  Runs = {r1}
  Workers = {w1}
  PreSyncPlans = {}
  VolumePlans = {}
  MaxAttempts = 1
  MaxFaults = 0
  None = None
  Workloads = {web}
SPECIFICATION SourceSpec
CHECK_DEADLOCK FALSE
INVARIANT CancelledSourceRuns
