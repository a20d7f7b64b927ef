CONSTANTS
  NumReaders = 3
  ArraySize = 3
  MaxSpurious = 1
SPECIFICATION FairSpec
INVARIANTS NoLostWakeup IInv
PROPERTIES FreshLines SnapshotSpec AllJoined
