SPECIFICATION FairSpec
CONSTANTS
  Agents = {1, 2}
  MaxRev = 3
  MaxCommits = 2
  MaxFaults = 1
  AbortLeaksSignals = FALSE
INVARIANTS TypeOK CommittedKept EmittedExact CurrentFetchable
PROPERTIES ImplementsReplicas EventuallyConverged
