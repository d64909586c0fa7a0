\* Two clicks and two failures; every command.
SPECIFICATION FairSpec
CONSTANTS
  None = None
  Commands = {"ScanOutlook", "ExportPst", "ReconfigureProfile", "ImportPst", "RetryFailed", "Rollback", "ImportToM365", "Uninstall"}
  MaxAsks = 2
  MaxFaults = 2
CHECK_DEADLOCK FALSE
INVARIANTS
  TypeOK
  RunsAtMostOnce
  NotForgotten
PROPERTIES
  CommandIsFetched
