\* One perspective and one query, a crash, a failure, a removal.
SPECIFICATION FairSpec
CONSTANTS
    Tasks = {p}
    Queries = {q}
    MaxCalls = 5
    MaxMade = 5
    MaxTroubles = 2
    MaxUnlocks = 2
    Templated = TRUE
INVARIANTS TypeOK SomebodyHears HeardOnce OneByOne
PROPERTY EventuallyServed
