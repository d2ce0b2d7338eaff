SPECIFICATION FairSpec
CONSTANTS
  MaxDiffs = 2
  ImmediateCommits = 2
  MaxPending = 2
  MaxFaults = 0
  MaxCrashes = 0
PROPERTY AllLinksShared
