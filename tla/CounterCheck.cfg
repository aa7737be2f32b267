CONSTANTS
  Thread = {w1, w2, w3}
  MaxRounds = 3
  First = w1
  NbTx = 2
  MaxRefusals = 1
  Libraries = {"correct", "broken"}
SPECIFICATION FairSpec
INVARIANT NoFalseAlarm
PROPERTY ImplementsBarrier ChecksEnd
CHECK_DEADLOCK FALSE
