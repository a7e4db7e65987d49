SPECIFICATION FairSpec
CONSTANTS
  f1 = f1
  f2 = f2
  t1 = t1
  t2 = t2
  c1 = c1
  Loop = Loop
  EventFd = EventFd
  Idle = Idle
  Threads <- MCTwoThreads
  Functors <- MCTwoFunctors
  Channels <- MCOneChannel
INVARIANTS NoLostWakeup
PROPERTIES ImplementsTaskQueue EveryTaskRuns EveryChannelIsHandled
