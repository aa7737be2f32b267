CONSTANTS
  NbLibraries = 4
  MaxSpurious = 1
SPECIFICATION MainSpec
INVARIANT LibraryInUse NoWakeUpLost CleanExit
PROPERTY MainEnds
CHECK_DEADLOCK FALSE
