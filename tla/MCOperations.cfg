SPECIFICATION OperationsSpec
CONSTANTS
  Ids = {1, 2}
  Limit = 1
  Deciders = {d1, d2}
  Callers = {c1}
  MaxAttempts = 3
  MaxReports = 1
  MaxDecisions = 1
INVARIANTS OneActiveAttempt ResumedByGrant
PROPERTIES CancelledNeverCompletes ImplementsLifecycle CloseCompletes
CHECK_DEADLOCK FALSE
