SPECIFICATION SupervisorSpec
CONSTANTS
  Arrivals = {r1, r2, r3}
  Leavers = {r1, r2}
  Stubborn = {r2}
  Models = {m1, m2, m3}
  Default = NoModel
  NoModel = NoModel
  NoChild = NoChild
INVARIANTS RefsAreLeases OneChild DrainWakes
PROPERTIES SeveredOnlyForASwap AcquireAnswers
CHECK_DEADLOCK FALSE
