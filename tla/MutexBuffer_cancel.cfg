CONSTANTS
  READER_THREADS = 2
  BUFFER_SIZE = 2
SPECIFICATION FairSpec
INVARIANT CancelledBeforeCleanup
