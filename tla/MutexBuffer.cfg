CONSTANTS
  READER_THREADS = 3
  BUFFER_SIZE = 3
SPECIFICATION FairSpec
INVARIANTS TypeOK LeaversSawAll
PROPERTIES SnapshotSpec AllJoined
