\* All mapping files and button files of two lines each.
SPECIFICATION Spec
CONSTANTS
  Digit <- MCDigit
  NumberOf <- MCNumberOf
  NoValue = "none"
  MappingLine <- MCMappingLine
  ButtonLine <- MCButtonLine
  MaxLines = 2
CHECK_DEADLOCK FALSE
INVARIANTS
  NamesFindMappings
  ReadOrTest
  LoadsAsWritten
  ButtonsUsable
