\* Progress of two runs that share one worker.
CONSTANTS
  Plans = {bare}
  Runs = {r1, r2}
  Workers = {w1}
  PreSyncPlans = {}
  VolumePlans = {}
  MaxAttempts = 2
  MaxFaults = 1
  None = None
SPECIFICATION FairSpec
CHECK_DEADLOCK FALSE
PROPERTIES
  RunsSettle
