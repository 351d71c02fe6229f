CONSTANTS
  K = 2
  N = 4
  Inputs <- SecurityInputs
SPECIFICATION Spec
INVARIANT HeadersSelfContained
CHECK_DEADLOCK FALSE
