\* One Teensy with an int, a float and an unmapped id; hardware buttons
\* adjust both data references, and packets hold little.
SPECIFICATION FairSpec
CONSTANTS
  a = a
  b = b
  none = none
  unmapped = unmapped
  Value <- MCValue
  NoValue = none
  Unmapped = unmapped
  NumTeensy = 1
  MaxValue = 6
  Thousandth = 2
  One = 4
  Narrow <- MCNarrow
  PacketBytes = 14
  Id <- ThreeIds
  Ref <- TwoRefs
  RefOf <- OwnRefs
  TypeOf <- IntAndFloat
  TestValue <- OneTestValue
  ButtonRef <- TwoRefs
  Adjust <- UpAndDown
  BelowNoValue = 6
  InitValue <- OneInitValue
  KnobValue = {}
  Writers = {}
  Commanders = {1}
  IdFrameTimeout = 1
  InputCap = 4
  OutputCap = 3
  KeepsUp = TRUE
  MaxTurns = 0
  MaxCommands = 1
  MaxPresses = 2
INVARIANTS
  TypeOK
PROPERTIES
  ShowsHubValue
