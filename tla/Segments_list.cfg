CONSTANTS
  Thread = {t1}
  Node = {s0, s1, s2, s3}
  First = s0
  Null = null
  Memalign = {"buffer"}
  MaxCalls = 5
SPECIFICATION FairSpec
INVARIANT TypeOK ListSound
PROPERTY FindReturns
CHECK_DEADLOCK FALSE
