CONSTANTS
  w1 = w1  w2 = w2
  k1 = k1  k2 = k2
  b1 = b1  b2 = b2
  NoOne = NoOne
  Writers = {w1, w2}
  Batches <- MCBatches
  MaxSeals = 2
  CheckpointTail = 1
  InterruptLaterRotations = FALSE
  PowerLoss = FALSE
SPECIFICATION Spec
INVARIANTS OneChain AnswersKept AlwaysOpens
PROPERTIES ImplementsChain
CHECK_DEADLOCK FALSE
SYMMETRY WriterSymmetry
