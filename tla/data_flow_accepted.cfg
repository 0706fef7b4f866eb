SPECIFICATION Spec
CONSTANTS
  NumWorkers = 4
  TrainRows = 6
  ValSizes = {1}
  Jobs <- TwoReplicas
  TokenCounts <- SixRows
  MaxTokens = 6
  ScoreOf <- SixScores
  GreedyTokens <- SixCounts
  GreedyScore <- SixScores
  ValueOf <- SixScores
INVARIANT
  AcceptedIsDispatched
CHECK_DEADLOCK FALSE
