SPECIFICATION BatchingSpec
CONSTANTS
  MaxCalls = 3
  MaxSequences = 2
  MaxNewTokens = 2
  PromptTokens = 2
  Shifting = TRUE
  MaxLeaving = 1
  MaxFaults = 1
  MaxBlocks = 6
  None = None
INVARIANTS CacheFollowsIds MemoryIsOwned OneLateCallback
PROPERTIES EveryCallEnds
CHECK_DEADLOCK FALSE
