CONSTANTS
  Worker = {w1, w2, w3}
  NbRepeats = 1
  Outcome = {"ok", "error"}
  Faults = {"timeout", "nothread"}
SPECIFICATION FairSpec
INVARIANT PhasesAligned VerdictIsRight
PROPERTY MeasureEnds
CHECK_DEADLOCK FALSE
