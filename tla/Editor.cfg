CONSTANTS
  EpisodeCount = 3
  Frames = 2
  GroupSize = 2
  Datasets = {d1, d2}
  MaxEdits = 3
  Files <- MCFiles
SYMMETRY DatasetSymmetry
SPECIFICATION EditorSpec
INVARIANTS
  FramesAgree
  DecisionStands
  PlanRespectsEdits
CHECK_DEADLOCK FALSE
