CONSTANTS
  Thread = {t1, t2}
  NWords = 2
  WordsPerLock = 1
  Value = {0}
  Zero = 0
  Garbage = {0}
  MaxTx = 2
  MaxOps = 2
SPECIFICATION FairSpec
PROPERTIES CallsReturn
CHECK_DEADLOCK FALSE
