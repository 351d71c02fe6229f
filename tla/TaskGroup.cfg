CONSTANTS
  Task = {t1, t2, t3}
  None = None
  Builds = {FALSE, TRUE}
SPECIFICATION FairSpec
INVARIANT TypeOK
INVARIANT JoinedWhenGone
INVARIANT GetRethrowsFirst
INVARIANT DebugIsSequential
PROPERTY GetMissesNothing
PROPERTY JoinEnds
CHECK_DEADLOCK FALSE
