SPECIFICATION RoutinesSpec
CONSTANTS
  MEMORY = 4
  BYTE = 3
  Fills <- MCFills
  WORD = 1024
  INT = 256
  BUFFER = 5
  Characters <- MCCharacters
  PrintCalls <- MCCalls
  Char <- MCChar
  NULL = NULL
  NUL = NUL
  Columns = 2
  Pitch = 3
  Rows = 2
  Garbled = Garbled
  Glyph <- MCGlyph
  Printed = {65, 66, 36, 200, 10}
  MaxDrawn = 6
INVARIANTS
  CallExact
  SourceIntact
  PrintedExact
  OverreadOnlyAfterLonePercent
  CellsShowGlyphs
PROPERTY
  WritesStayInMemory
CHECK_DEADLOCK FALSE
