SPECIFICATION BlobsSpec
CONSTANTS
  old = old
  base = base
  derived = derived
  w1 = w1
  k1 = k1
  k2 = k2
  h1 = h1
  Contents <- MCContents
  Small = {old}
  Stored = {old, base}
  Packable = {old, base}
  Releasable = {old, base, derived}
  Ancestors <- MCAncestors
  Handles = {h1, k1, k2}
  Writers = {w1}
  Keepers = {k1, k2}
  Uses <- Apart
  MaxCommits = 3
  None = None
SYMMETRY KeeperSymmetry
INVARIANTS LiveBytesKept PackersRead
PROPERTIES ReachableKept
CHECK_DEADLOCK FALSE
