SPECIFICATION Spec
CONSTANTS
  Ticks = {1, 2}
  Candles = {3}
  Lookbacks = {60, 90}
  MaxStamps = 4
  MaxRuns = 3
  MaxEvents = 1
CHECK_DEADLOCK FALSE
INVARIANTS
  TypeOK
  BarsCurrent
  FrameCurrent
