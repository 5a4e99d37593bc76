\* TypeOK, the wake-up invariant, refinement of the queue and delivery
\* without time-outs, and the end of the output thread with them.
SPECIFICATION FairSpec
CONSTANTS
  p1 = p1
  p2 = p2
  none = none
  Packet <- MCPacket
  NoPacket <- none
  BufSize = 4
INVARIANTS
  TypeOK
  NoLostWakeup
PROPERTIES
  DropsOnlyAtCapacity
  QueueSpec
  StoredIsFetched
  QuitsWhenOffline
