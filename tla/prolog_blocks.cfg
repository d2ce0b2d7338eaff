SPECIFICATION FairSpec
CONSTANTS
  MaxCalls = 2
  MaxErrors = 1
  MaxBuildErrors = 0
PROPERTY EventuallyAnswered
CHECK_DEADLOCK FALSE
