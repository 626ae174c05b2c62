SPECIFICATION Spec
CONSTANTS
  Ticks = {1}
  Candles = {3}
  Lookbacks = {60, 90}
  MaxStamps = 3
  MaxRuns = 3
  MaxEvents = 1
CHECK_DEADLOCK FALSE
INVARIANT LookbackRebuilds
