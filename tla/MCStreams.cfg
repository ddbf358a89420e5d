SPECIFICATION StreamsSpec
CONSTANTS
  Ids = {o1, o2}
  Limit = 1
  Active = {"admitted", "running"}
  Settled = {"completed", "blocked"}
  GivesWay = {"blocked"}
  MaxTransitions = 2
  MaxServings = 3
  MaxConnections = 2
INVARIANTS QuietPageIsCurrent
PROPERTIES FinishedStaysFinished PageCatchesUp
CHECK_DEADLOCK FALSE
