SPECIFICATION Spec
CONSTANTS
  ValueSize = 3
  MemberSize = 4
  TextSize = 2
  Increment = 1
  CapRange = 2
  MaxTokens = 8
  MaxDepth = 3
INVARIANTS
  TypeOK
  MeasureIsExact
  NothingLeft
  TempsHaveRoom
  ReadsJson
CHECK_DEADLOCK FALSE
