SPECIFICATION FairSpec
CONSTANTS
  p1 = p1
  p2 = p2
  Producers <- MCProducers
  Lines <- MCLines
  Capacity = 2
  Safe = FALSE
  MaxMessages = 1
CHECK_DEADLOCK FALSE
PROPERTY StopReturns
