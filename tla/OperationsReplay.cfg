SPECIFICATION OperationsSpec
CONSTANTS
  Ids = {1}
  Limit = 1
  Deciders = {d1, d2}
  Callers = {}
  MaxAttempts = 3
  MaxReports = 0
  MaxDecisions = 2
INVARIANTS ResumesOnlyBlocked
CHECK_DEADLOCK FALSE
