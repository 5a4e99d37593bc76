\* Five commands, three of them long; reports are lost on the way or because
\* the buffer is full.
SPECIFICATION Spec
CONSTANTS
  notail = notail
  NoTail = notail
  NumCommands = 5
  Length <- MCLength
  PacketBytes = 8
  InputCap = 2
  MaxLost = 3
CHECK_DEADLOCK FALSE
INVARIANTS
  TypeOK
  SplicedOnlyByLoss
  InOrderOnce
  AccountsForBytes
  UnhurtIsDecoded
