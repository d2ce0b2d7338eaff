SPECIFICATION FairSpec
CONSTANTS
  MaxCalls = 3
  MaxErrors = 1
  MaxBuildErrors = 1
INVARIANTS TypeOK FactsComplete
PROPERTY AnsweredWithoutErrors
CHECK_DEADLOCK FALSE
