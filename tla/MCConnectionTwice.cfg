SPECIFICATION Spec
CONSTANTS
  OnBaseLoop = TRUE
  Timeout = 0
  Foreign = {}
  Nested = {}
  Resets = TRUE
  Interrupts = FALSE
  MaxIn = 2
  MaxSpace = 1
  MaxCalls = 0
  MaxDepth = 4
CHECK_DEADLOCK FALSE
INVARIANT ReleasedOnce
