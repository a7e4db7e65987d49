SPECIFICATION FairServerSpec
CONSTANTS
  PoolSize = 2
  MaxConns = 3
  MaxFd = 1
  InactiveRelease = TRUE
  MaxReleases = 1
  MaxCalls = 1
INVARIANTS ChannelsAreCurrent OpenIsWatched NothingOutlivesItsConnection LoopsAreThere
PROPERTIES ClosedIsRemoved
CHECK_DEADLOCK FALSE
