CONSTANTS
  Texts <- TwoTexts
  MaxItems = 2
  Tables <- AllTables
  Values <- AllValues
  MaxForeign = 1
SPECIFICATION TypedSpec
INVARIANTS AcceptsWhatIsTyped RowsStoredTyped ParseIsExact
PROPERTIES UpdatesTouchOnlyGiven
CHECK_DEADLOCK FALSE
