SPECIFICATION Spec
CONSTANTS
  Columns = 4
  Rows = 7
  Line = 2
  Glyph = 1
  Bands <- MCBands
  MaxContexts = 3
  Alphabet = {"a", "b", "c", "d", "newline"}
  Texts <- MCTexts
  MaxLines = 3
INVARIANTS
  RoundTrips
  SymbolsFound
  ConsoleInside
CHECK_DEADLOCK FALSE
