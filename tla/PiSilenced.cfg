\* One Teensy registers its ids again while another has data to get.
SPECIFICATION Spec
CONSTANTS
  a = a
  b = b
  none = none
  unmapped = unmapped
  Value <- MCValue
  NoValue = none
  Unmapped = unmapped
  NumTeensy = 2
  MaxValue = 1
  Thousandth = 1
  One = 1
  Narrow <- MCNarrow
  PacketBytes = 14
  Id <- OneId
  Ref <- OneRef
  RefOf <- SharedRef
  TypeOf <- OneInt
  TestValue <- ZeroTestValue
  ButtonRef <- OneRef
  Adjust <- UpButton
  BelowNoValue = 1
  InitValue <- NoInitValue
  KnobValue = {0, 1}
  Writers = {}
  Commanders = {1}
  IdFrameTimeout = 1
  InputCap = 4
  OutputCap = 3
  KeepsUp = TRUE
  MaxTurns = 0
  MaxCommands = 1
  MaxPresses = 1
INVARIANTS
  NothingLeftToOutput
