\* The user and the simulator change two variables while the link breaks.
SPECIFICATION FairSpec
CONSTANTS
  none = none
  nodata = nodata
  Value <- MCValue
  NoValue = none
  NoData = nodata
  Thousandth = 3
  One = 3
  Narrow <- MCNarrow
  PacketBytes = 14
  NumMappings = 4
  ReadMapping <- MCReadMapping
  TestValue <- WithTestValue
  ReadScale <- MCReadScale
  WriteScale <- MCWriteScale
  WritesRead <- MCWritesRead
  TypeOf <- MCTypeOf
  SimStart <- MCSimStart
  SimValue <- MCSimValue
  KnobValue <- MCKnobValue
  Noise = {1}
  RetryDelay = 1
  WrittenInTime = TRUE
  MaxTurns = 2
  MaxChanges = 1
  MaxFaults = 2
  MaxSnapshots = 1
CHECK_DEADLOCK FALSE
INVARIANTS
  TypeOK
  UserValueReachesSim
  NoStaleEcho
  ShowsOwnVariable
PROPERTIES
  HubFollowsSim
