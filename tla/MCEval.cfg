SPECIFICATION Spec
CONSTANTS
  Cols = 4
  Rows = 3
  CharMax = 6
  ArgsMax = 3
  Chars <- SomeChars
  Outputs <- SomeOutputs
  MaxKeys = 8
INVARIANT OneCursor
INVARIANT EchoMatches
INVARIANT SplitMatches
CHECK_DEADLOCK FALSE
