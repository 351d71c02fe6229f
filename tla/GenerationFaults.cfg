CONSTANTS
  Namespaces <- OneNamespace
  Builds = {FALSE, TRUE}
  None = None
  StreamFaults = TRUE
  MaxRuns = 1
  InitialDisks <- AnyDisk
SPECIFICATION FairSpec
INVARIANT CleanRunIsComplete
INVARIANT DebugReportsTasks
PROPERTY Termination
CHECK_DEADLOCK FALSE
