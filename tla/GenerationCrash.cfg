CONSTANTS
  Namespaces <- OneNamespace
  Builds = {FALSE, TRUE}
  None = None
  StreamFaults = FALSE
  MaxRuns = 2
  InitialDisks <- EmptyDisk
SPECIFICATION Spec
INVARIANT TypeOK
INVARIANT CacheOutlivesTasks
INVARIANT CleanRunIsComplete
INVARIANT ChainComplete
CHECK_DEADLOCK FALSE
