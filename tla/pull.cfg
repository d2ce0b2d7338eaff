\* Every graph of five revisions to search in, every graph of up to six with
\* a snapshot at every second revision.
SPECIFICATION PullSpec
CONSTANTS
    MaxNodes = 5
    MaxRevs = 6
    SNAPSHOT_INTERVAL = 2
    CHUNK_SIZE = 2
INVARIANTS TypesOK SnapshotCovers HistoryCollected DecidesRight NeverFails
PROPERTY Terminates
CHECK_DEADLOCK FALSE
