SPECIFICATION FairSpec
CONSTANTS
  Days = {0, 1, 2}
  TicksPerDay = 2
  Jobs = 2
  MaxRuns = 3
  MaxFaults = 3
CONSTRAINT Small
CHECK_DEADLOCK FALSE
INVARIANTS
  TypeOK
  CompleteIsWholeUnlessRefetched
  CleanRunRepairs
PROPERTIES
  ImplementsStore
  RunEnds
