CONSTANTS
  w1 = w1  r1 = r1
  k1 = k1  k2 = k2
  b1 = b1
  NoOne = NoOne
  Writers = {w1}
  Readers = {r1}
  Batches <- MCBatches2
  MaxSeals = 2
  CheckpointTail = 1
  InterruptLaterRotations = FALSE
  PowerLoss = TRUE
SPECIFICATION TailingSpec
INVARIANTS CurrentUnlessBehind ReadersSeePast MintedKept
PROPERTY BackOnlyToAnAnchor
CONSTRAINT NoRepeats
SYMMETRY Keys
CHECK_DEADLOCK FALSE
