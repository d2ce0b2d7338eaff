\* Three agents with a revision each, and one refused call that leaks.
SPECIFICATION ForkedSpec
CONSTANTS
  Agents = {1, 2, 3}
  MaxRev = 5
  MaxCommits = 4
  MaxFaults = 1
  AbortLeaksSignals = TRUE
CONSTRAINT Narrow
INVARIANT EmittedComplete
