CONSTANTS
  N <- MCN
  Inputs <- SmallInputs
SPECIFICATION FairSpec
INVARIANT TypeOK
INVARIANT EdgesClosed
INVARIANT CycleReportedExactly
INVARIANT StructsAndBasesFirst
PROPERTY ImplementsDefinitionOrder
PROPERTY Termination
CHECK_DEADLOCK FALSE
