CONSTANTS
  Worker = {w1, w2}
  NbRepeats = 1
  Outcome = {"ok", "throw"}
  Faults = {}
SPECIFICATION FairSpec
INVARIANT ClockStartedFirst RuntimeOfPhase
PROPERTY MeasureEnds
CHECK_DEADLOCK FALSE
