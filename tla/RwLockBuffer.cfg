CONSTANTS
  NUM_READERS = 3
  ARRAY_SIZE = 3
SPECIFICATION FairSpec
INVARIANTS TypeOK OverlappingReadersAgree
PROPERTIES NothingAfterFinish SnapshotSpec AllJoined
