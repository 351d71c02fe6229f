CONSTANTS
  N <- MCN
  Inputs <- AcyclicDelegates
SPECIFICATION FairSpec
INVARIANT RequiredDefinitionsFirst
CHECK_DEADLOCK FALSE
