\* One run of any kind of source, whichever of its workloads ran.
CONSTANTS
  Plans = {plan}
  Runs = {r1}
  Workers = {w1, w2}
  PreSyncPlans = {}
  VolumePlans = {}
  MaxAttempts = 2
  MaxFaults = 1
  None = None
  Workloads = {web, db}
SPECIFICATION SourceSpec
SYMMETRY SourceSymmetry
CHECK_DEADLOCK FALSE
INVARIANTS
  SourceTypeOK
  SnapshotIsOriginal
  FinalBackupOfStoppedSource
  RollbackRestoresSource
