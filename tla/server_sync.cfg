\* Three diffs of anybody after the first, two troubles.
SPECIFICATION FairSpec
CONSTANTS
    MaxLog = 4
    MaxCalls = 1
    MaxUnderWay = 2
    MaxTroubles = 2
INVARIANTS TypeOK NothingSkipped
PROPERTY EverythingComes
CHECK_DEADLOCK FALSE
