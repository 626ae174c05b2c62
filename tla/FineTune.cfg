SPECIFICATION FairSpec
CONSTANTS
  Train = {o1, o2}
  Configs <- MCConfigs
  Scores <- MCScores
  SkipLimit = 2
  MaxRuns = 2
  NaN = NaN
  None = None
  Torn = Torn
INVARIANTS
  TypeOK
  EpochsAreFair
  GradientIsBatch
  PromotedIsBest
  PatienceHonest
PROPERTIES
  TrainingEnds
CHECK_DEADLOCK FALSE
