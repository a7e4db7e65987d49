SPECIFICATION Spec
CONSTANTS
  OnBaseLoop = FALSE
  Timeout = 2
  Foreign = {"Send", "Shutdown", "Cancel", "Release"}
  Nested = {"Send", "Shutdown", "Release", "Cancel"}
  Resets = TRUE
  Interrupts = TRUE
  MaxIn = 1
  MaxSpace = 1
  MaxCalls = 2
  MaxDepth = 4
CHECK_DEADLOCK FALSE
INVARIANTS HandlersOnOpenSocket GracefulShutdownSendsAll TimerEndsWithConnection
