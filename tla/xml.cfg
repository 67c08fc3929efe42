SPECIFICATION Spec
CONSTANTS
  MaxItems = 4
  ParseInputs <- MCParseInputs
  BaseInputs <- MCBaseInputs
  MaxCalls = 3
  MaxNodes = 7
  Names <- MCNames
  Values <- MCValues
INVARIANTS
  TreesSound
PROPERTIES
  ParsedAsWritten
CHECK_DEADLOCK FALSE
