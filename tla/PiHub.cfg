\* Two Teensys share a data reference; the user of the first one sets it,
\* and both trigger commands.
SPECIFICATION FairSpec
CONSTANTS
  a = a
  b = b
  none = none
  unmapped = unmapped
  Value <- MCValue
  NoValue = none
  Unmapped = unmapped
  NumTeensy = 2
  MaxValue = 6
  Thousandth = 3
  One = 6
  Narrow <- MCNarrow
  PacketBytes = 14
  Id <- OneId
  Ref <- OneRef
  RefOf <- SharedRef
  TypeOf <- FloatThenInt
  TestValue <- NoTestValue
  ButtonRef = {}
  Adjust <- NoButton
  BelowNoValue = 6
  InitValue <- NoInitValue
  KnobValue = {5, 6}
  Writers = {1}
  Commanders = {1, 2}
  IdFrameTimeout = 1
  InputCap = 4
  OutputCap = 1
  KeepsUp = TRUE
  MaxTurns = 2
  MaxCommands = 1
  MaxPresses = 0
INVARIANTS
  RemoteAsOnTeensy
  ItemsInStep
PROPERTIES
  EveryIdRegistered
  KnobWins
