SPECIFICATION FairSpec
CONSTANTS
  i1 = i1
  i2 = i2
  t1 = t1
  t2 = t2
  NoTask = NoTask
  Ids <- MCIds
  Tasks <- MCTwoTasks
  Capacity = 3
  Delays = {1, 2, 3}
  MaxExpirations = 2
  Repeating = FALSE
  CarefulCallbacks = TRUE
INVARIANTS ReferencesMatchDeadline IdNamesItsTask
PROPERTIES CancelPreventsCallback ImplementsTimers EveryTaskEnds
