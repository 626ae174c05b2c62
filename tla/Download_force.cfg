SPECIFICATION Spec
CONSTANTS
  Days = {0, 1}
  TicksPerDay = 2
  Jobs = 1
  MaxRuns = 2
  MaxFaults = 2
CHECK_DEADLOCK FALSE
INVARIANT CompleteIsWhole
