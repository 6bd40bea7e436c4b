SPECIFICATION FairSpec
CONSTANTS
  None = None
  Stdout = Stdout
  Buffer = {b1, b2, b3, b4, b5, b6, b7, b8, b9, b10, b11, b12}
  BufferSize = 2
  Limit = 2
  RollSize = 2
  MaxLine = 6
  MaxDay = 1
  CanFail = TRUE
  CanStop = TRUE
INVARIANTS OwnedOnce ListsSound InOrder DropsAreNoted
PROPERTIES FilesInOrder KeepsLog Settles StopEnds
CHECK_DEADLOCK FALSE
