CONSTANT
  Type = {t1, t2, t3}
SPECIFICATION Spec
INVARIANT WrittenForAReason
INVARIANT CircleReportedExactly
CHECK_DEADLOCK FALSE
