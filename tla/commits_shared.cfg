\* Three diffs, a failure and a crash; or two changes of links, notifications or
\* clients, with a query that fails and a restart.
SPECIFICATION PerspectiveSpec
CONSTANTS
  MaxDiffs = 3
  ImmediateCommits = 1
  MaxPending = 2
  MaxFaults = 1
  MaxCrashes = 1
  Notes = {n1, n2}
  Wanted = n1
  Subscribers = {s1, s2}
  MaxLinks = 2
  MaxActions = 2
  MaxErrors = 1
  MaxStops = 1
INVARIANTS TypesOK NoneDropped CommittedOnce CalledAlone ToldOnce
PROPERTIES EventuallyShared EventuallyTold
