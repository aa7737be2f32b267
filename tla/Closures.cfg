CONSTANTS
  Thread = {t1, t2}
  Segment = {s1, s2, s3}
  Null = null
  NbTx = 3
  Libraries = {"locking", "optimistic"}
  MaxRefusals = 2
SPECIFICATION Spec
INVARIANT TypeOK HandlesMatch SegmentsMatchPointers EachCallOnce
PROPERTY CallsEnd
CHECK_DEADLOCK FALSE
