CONSTANTS
  K = 2
  N = 4
  Inputs <- SmallInputs
SPECIFICATION FairSpec
INVARIANT TypeOK
INVARIANT OnlyKnownGaps
INVARIANT DefinedOnce
INVARIANT NamespaceComplete
INVARIANT IncludesAreComplete
PROPERTY Termination
CHECK_DEADLOCK FALSE
