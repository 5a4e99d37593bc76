\* The first mapping is neither read from the simulator nor a test value: its
\* item shows the first variable that is read.
SPECIFICATION Spec
CONSTANTS
  none = none
  nodata = nodata
  Value <- MCValue
  NoValue = none
  NoData = nodata
  Thousandth = 3
  One = 3
  Narrow <- MCNarrow
  PacketBytes = 14
  NumMappings = 4
  ReadMapping <- MCReadMapping
  TestValue <- NoTestValue
  ReadScale <- MCReadScale
  WriteScale <- MCWriteScale
  WritesRead <- MCWritesRead
  TypeOf <- MCTypeOf
  SimStart <- MCSimStart
  SimValue <- MCSimValue
  KnobValue <- MCKnobValue
  Noise = {1}
  RetryDelay = 1
  WrittenInTime = TRUE
  MaxTurns = 2
  MaxChanges = 1
  MaxFaults = 0
  MaxSnapshots = 1
CHECK_DEADLOCK FALSE
INVARIANTS
  ShowsOwnVariable
