\* The progress of one run, its evidence, or the checks of a plan.
SPECIFICATION ConsoleSpec
CONSTANTS
  Watched = {"progress", "evidence", "plan"}
  MaxEvents = 3
  MaxFaults = 2
  StreamPage = 2
  ReportPage = 3
  MaxPage = 3
  SourceObjects <- MCSource
  CustomKinds = {"Rule"}
  FailingLists <- MCFailing
  Selections <- MCSelections
  Profiles <- MCProfiles
  MaxChanges = 1
  Targets <- MCTargets
  Project <- MCProject
  ResourceName <- MCResourceName
  Helpers <- MCHelpers
  MaxViews = 2
  Checkers = {c1}
  Modes = {"CSI_DATA_MOVER", "FSB"}
  SourceCapabilities <- MCSourceCapabilities
  TargetCapabilities <- MCTargetCapabilities
INVARIANTS
  ConsoleTypeOK
  EventsInOrder
  OnlyLateEventsAreMissing
  EndedStreamIsComplete
  ReportIsComplete
  AuditedSuccessWasCommitted
  CompletedRunHasNoFailure
  ReadyPlanPlacesItsVolumes
PROPERTIES
  EventsArrive
  FrozenEvidenceIsFinal
  RefreshProvesComposeTarget
CHECK_DEADLOCK FALSE
