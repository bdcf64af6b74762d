\* The smallest run whose failed validation is reconciled by a view.
SPECIFICATION ConsoleSpec
CONSTANTS
  Watched = {"evidence"}
  MaxEvents = 3
  MaxFaults = 2
  StreamPage = 2
  ReportPage = 3
  MaxPage = 3
  SourceObjects <- MCSource
  CustomKinds = {"Rule"}
  FailingLists <- MCFailing
  Selections <- MCSelections
  Profiles <- MCProfiles
  MaxChanges = 0
  Targets <- MCTargets
  Project <- MCProject
  ResourceName <- MCResourceName
  Helpers <- MCHelpers
  MaxViews = 1
  Checkers = {c1}
  Modes = {"CSI_DATA_MOVER", "FSB"}
  SourceCapabilities <- MCSourceCapabilities
  TargetCapabilities <- MCTargetCapabilities
CHECK_DEADLOCK FALSE
PROPERTY ReconciledTargetIsHealthy
