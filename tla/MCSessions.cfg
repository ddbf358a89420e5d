SPECIFICATION DirectorSpec
CONSTANTS
  Requests = {r1, r2}
  Closers = {c1, c2}
  Keys = {k1, k2}
  Scopes = {s1, s2}
  Capacity = 1
  Free = free
  MaxLoads = 3
  MaxAsks = 3
  Lessees = {r1, r2, r3}
  Enders = {c1, c2}
  SlotCount = 2
  MaxLeases = 3
INVARIANTS CapacityHeld UsedModelsAreOpen ShutClosesAll NoStandstill
INVARIANTS SlotsAreKept NoLeaseOfClosing NoSleepBesideSlot ShutIsClosed
SYMMETRY Symmetry
CHECK_DEADLOCK FALSE
