CONSTANTS
  NbLibraries = 4
  MaxSpurious = 1
SPECIFICATION MainSpec
INVARIANT FrameOutlives NoRunnerCrashes
PROPERTY BoundedRunEnds
CHECK_DEADLOCK FALSE
