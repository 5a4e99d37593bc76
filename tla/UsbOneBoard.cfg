\* Transfer errors of both threads, and boards that cannot be opened: one
\* that stays is found, and taken offline only for a reason.
SPECIFICATION FairSpec
CONSTANTS
  n1 = n1
  Node <- OneNode
  MaxTeensy = 1
  MaxPlugs = 2
  MaxFaults = 3
  ErrorLimit = 2
  RetryLimit = 3
  FrameInterval = 2
PROPERTIES
  OfflineHasCause
  BoardFound
