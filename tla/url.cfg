CONSTANTS
  FieldMod = 10
  MaxPort = 11
  Chars = {"a", "1", ":", "/", "?", "#", "@", "[", "]"}
  Garbage <- MCGarbage
  MaxUrl = 11
  MaxPath = 6
  MaxForm = 5
  MaxParams = 3
SPECIFICATION Spec
INVARIANTS FieldsTileUrl FieldsInBounds  DecodeMatchesSplit
CHECK_DEADLOCK FALSE
