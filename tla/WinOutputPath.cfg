\* The emulated condition variable implements the POSIX one.
SPECIFICATION WinFairSpec
CONSTANTS
  p1 = p1
  p2 = p2
  none = none
  Packet <- MCPacket
  NoPacket <- none
  BufSize = 3
INVARIANTS
  WinTypeOK
  WinNoLostWakeup
PROPERTIES
  ImplementsPosix
  WinStoredIsFetched
