CONSTANTS
  Rows = {1, 2, 3}
  BadRows = {}
  Columns = 1
  TrainSets = {{1, 2, 3}, {2, 3}}
  Pipelines = {p1}
  FoldPlans = {}
  DamagedBlocks = {}
SPECIFICATION ModelSpec
CHECK_DEADLOCK FALSE
INVARIANTS
  AnswersComeFromOneFit
