CONSTANTS
  Worker = {w1, w2}
  Segment = {1, 2, 3}
  NbAccounts = 2
  InitBalance = 1
  Setups <- Sound
  MaxTx = 2
SPECIFICATION Spec
INVARIANT MoneyConserved NoFalseAlarm SegmentsPacked
CHECK_DEADLOCK FALSE
