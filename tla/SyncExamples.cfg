CONSTANTS
  Thread = {t1, t2, t3}
  RUNS = 3
  Nobody = nobody
  Producer = t1
  Consumer = t2
  BUFFER_SIZE = 2
  MaxSpurious = 1
SPECIFICATION Spec
INVARIANT CountIsExact SomeIncrementsSurvive OneLeader SomeLeader SlotsNotShared
PROPERTY ImplementsQueue ProgramsEnd
CHECK_DEADLOCK FALSE
