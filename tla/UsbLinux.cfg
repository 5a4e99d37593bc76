\* Boards come and go, no transfer errors: nothing is used after free, every
\* board is found and every teensy_t of a board that is gone is deleted.
SPECIFICATION FairSpec
CONSTANTS
  n1 = n1
  Node <- OneNode
  MaxTeensy = 2
  MaxPlugs = 2
  MaxFaults = 0
  ErrorLimit = 1
  RetryLimit = 2
  FrameInterval = 2
INVARIANTS
  TypeOK
  NoUseAfterFree
PROPERTIES
  Reaped
