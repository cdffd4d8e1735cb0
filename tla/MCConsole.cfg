SPECIFICATION ConsoleSpec
CONSTANTS
  Width = 6
  Height = 4
  Text <- MCText
  Vectors = 5
  PicBase = 2
  Vector21h = 3
  KeyLength = 2
  MaxPresses = 2
INVARIANTS ConsoleTypeOK AtMostOneLost
PROPERTIES PressAnswered
