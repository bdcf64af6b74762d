\* The import of a bundle, the default object storage, and Velero, each with faults.
SPECIFICATION Spec
CONSTANTS
  Callers = {a1, a2, c1, c2, c3}
  Attempts = {a1, a2}
  Stored = {s1, s2}
  MaxEnvironments = 2
  api = api
  worker = worker
  other = other
  index = index
  arm = arm
  layer = layer
  config = config
  Names <- MCNames
  Projects <- MCProjects
  Lock <- MCLock
  Children <- MCChildren
  Importers <- MCImporters
  Scenarios <- MCScenarios
SYMMETRY Symmetries
INVARIANTS
  PlatformTypeOK
  TagsAreComplete
  FreshInstallHasStorage
  ReadyStorageWorks
  ReadyVeleroUsesItsProfile
CHECK_DEADLOCK FALSE
