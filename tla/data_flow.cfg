SPECIFICATION FairSpec
CONSTANTS
  NumWorkers = 4
  TrainRows = 12
  ValSizes = {1, 3, 4, 6}
  Jobs <- AllJobs
  TokenCounts <- SomeCounts
  MaxTokens = 6
  ScoreOf <- SomeScores
  GreedyTokens <- SomeGreedyCounts
  GreedyScore <- SomeGreedy
  ValueOf <- SomeValues
INVARIANTS
  TypeOK
  ColumnsFitTogether
  AdvantagesRight
  EachResponseOnce
  LoadBalanced
  EachResponseTrained
PROPERTY
  StepEnds
CHECK_DEADLOCK FALSE
