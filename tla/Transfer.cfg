\* Every kind of transfer, with one fault.
SPECIFICATION FairSpec
CONSTANTS
  Runs = {r1, r2}
  Volumes = {v1, v2}
  fast = fast
  slow = slow
  ssd = ssd
  hdd = hdd
  Classes <- MCClasses
  Settings <- MCSettings
  MaxAttempts = 2
  MaxFaults = 1
INVARIANTS
  TransferTypeOK
  MappingsAreKept
  RestoredFromOwnFinalBackup
  FinalSnapshotsAreConsistent
  StartedOnRestoredVolumes
PROPERTIES
  TransfersSettle
CHECK_DEADLOCK FALSE
