CONSTANTS
  Thread = {t1, t2}
  Node = {s0, s1, s2, s3}
  First = s0
  Null = null
  Memalign = {"segv", "buffer"}
  MaxCalls = 2
SPECIFICATION Spec
INVARIANT NoStrayAccess TailIsLast AllocGetsMemory
CHECK_DEADLOCK FALSE
