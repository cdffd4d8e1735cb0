SPECIFICATION ParserSpec
CONSTANTS
  Chars = {"0", ":", "/", "a"}
  Digits = {"0"}
  MaxLength = 9
  PathLimit = 8
INVARIANTS PartsAreComponents ReadsWithinString PartsWithinLimit
