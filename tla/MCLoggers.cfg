SPECIFICATION LoggersFairSpec
CONSTANTS
  p1 = p1
  p2 = p2
  Async = Async
  Sync = Sync
  None = None
  Main = Main
  Name = "ServerLogger"
  Producers <- MCProducers
  Lines <- MCLines
  Capacity = 2
  Safe = TRUE
  MaxMessages = 3
  Workloads <- MCWorkloads
CHECK_DEADLOCK FALSE
INVARIANTS NothingIsLost LoggerOutlivesItsUsers LinesFollowThePattern
PROPERTIES EveryLineIsWritten EveryPushReturns
