CONSTANTS
  Thread = {t1, t2}
  NWords = 2
  WordsPerLock = 1
  Value = {0, 1}
  Zero = 0
  Garbage = {0}
  MaxTx = 2
  MaxOps = 2
SPECIFICATION Spec
SYMMETRY Threads
INVARIANTS TypeOK LocksExclusive SnapshotReads NoLostUpdate OneWritePerVersion IInv
PROPERTIES VersionsGrow ImplementsVersionedTM
CHECK_DEADLOCK FALSE
