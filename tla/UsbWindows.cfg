\* One board in the Windows build; main may end.
SPECIFICATION FairSpec
CONSTANTS
  NumBoards = 1
  MaxFaults = 1
CHECK_DEADLOCK FALSE
INVARIANTS
  TypeOK
  OneIoAtATime
  NoIoAfterFree
PROPERTIES
  ThreadsQuit
  GoneIsDeleted
