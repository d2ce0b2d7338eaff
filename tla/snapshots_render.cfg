SPECIFICATION Spec
CONSTANTS
  MaxRevs = 3
  SNAPSHOT_INTERVAL = 2
  CHUNK_SIZE = 2
INVARIANT RenderedOnce
CHECK_DEADLOCK FALSE
