SPECIFICATION FairSpec
CONSTANTS
  OnBaseLoop = TRUE
  Timeout = 2
  Foreign = {}
  Nested = {"Send", "Shutdown", "Release", "Enable"}
  Resets = TRUE
  Interrupts = TRUE
  MaxIn = 2
  MaxSpace = 1
  MaxCalls = 2
  MaxDepth = 4
CHECK_DEADLOCK FALSE
INVARIANTS OutputIsWatched NoIdleWriteWatch CallbacksOnLiveConnection
PROPERTIES ShutdownCompletes PeerCloseEndsConnection InactiveIsReleased
