SPECIFICATION Spec
CONSTANTS
  Times <- MCMinutes
  GapSize = 3
  MaxSize = 2
  Lengths = {1}
  MaxStarts = 1
  MaxMessages = 2
INVARIANT LinesAreInTheirFile
CHECK_DEADLOCK FALSE
