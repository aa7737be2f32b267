CONSTANTS
  Thread = {t1, t2}
  NWords = 2
  Value = {0, 1}
  Zero = 0
  Segment = {s1, s2, s3}
  Null = null
  MaxTx = 2
  MaxOps = 3
SPECIFICATION Spec
SYMMETRY Symmetric
INVARIANT ReadsStayCurrent ListIsLive
PROPERTY ImplementsVersionedTM
CHECK_DEADLOCK FALSE
