SPECIFICATION FairSpec
CONSTANTS
  Inputs <- MCInputs
  MaxLine = 2
  BaseDir <- MCBaseDir
  Routes <- MCRoutes
  Mimes <- MCMimes
INVARIANTS AnswersAreTheirOwn RightResource ServedFromBaseDir AnswersInOrder NothingWaits
CHECK_DEADLOCK FALSE
PROPERTIES EveryRequestIsAnswered
