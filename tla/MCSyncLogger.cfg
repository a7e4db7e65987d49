SPECIFICATION Spec
CONSTANTS
  Times <- MCSeconds
  GapSize = 1
  MaxSize = 2
  Lengths = {1, 2}
  MaxStarts = 2
  MaxMessages = 4
INVARIANTS LinesAreInTheirFile FilesHaveTheirSize
CHECK_DEADLOCK FALSE
