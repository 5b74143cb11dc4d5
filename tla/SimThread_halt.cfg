SPECIFICATION FairSpec
CONSTANTS
  TickCount = 3
  SlowSteps = 1
  FastSteps = 2
  ManualSteps = {1, 2}
  MaxStates = 3
PROPERTIES HaltEnds
CHECK_DEADLOCK FALSE
