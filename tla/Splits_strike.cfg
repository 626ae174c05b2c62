SPECIFICATION MCSpec
CONSTANTS
  Window = 3
  DayMinutes = 6
  Rows = 10
  Context = 3
  GapBudget = 1
  FracDen = 4
  Horizon = 7
  Chunk = 2
  Lookback = 6
  MinFanN = 2
  MinFanCells = 2
  FileFan <- WholeFrameFan
  Firsts = {0}
CHECK_DEADLOCK FALSE
INVARIANT StrikeReadFromPast
