SPECIFICATION StagesSpec
CONSTANTS
  Runs = {r1, r2}
  MaxLive = 2
  Stages <- JoinStages
  Edges <- JoinEdges
  Outputs = {"decode"}
  Durable = {"encode", "decode"}
  ReadySets <- JoinSets
  Module <- OneModule
  Values = {v}
  None = None
SYMMETRY StagesSymmetry
INVARIANTS LineageComplete OneResultPerAttempt RestartNotWedged
PROPERTIES AnswerKept
