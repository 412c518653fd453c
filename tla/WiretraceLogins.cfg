SPECIFICATION FairSpec
CONSTANTS
  Requests = 2
  Apps = {A, B}
  NoApp = NoApp
  NoHandler = NoHandler
  Spent = Spent
CHECK_DEADLOCK FALSE
INVARIANTS TraceTellsRun FileTells SitesTakeTurns
PROPERTIES EveryRequestEnds
