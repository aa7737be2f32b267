CONSTANTS
  Thread = {t1, t2}
  Segment = {s1, s2, s3}
  Null = null
  NbTx = 3
  Libraries = {"optimistic", "eager"}
  MaxRefusals = 2
SPECIFICATION Spec
INVARIANT SegmentsMatchPointers NeverTerminates
PROPERTY CallsEnd
CHECK_DEADLOCK FALSE
