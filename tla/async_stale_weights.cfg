SPECIFICATION Spec
CONSTANTS
  Requests = {"r1", "r2"}
  Tools = {"sandbox", "search"}
  Owners = {"s1", "s2", "w1"}
  Placements <- EnginesAndWorkers
  NumWorkers <- OneThread
  RateLimit <- TwoLimits
  RowTools <- SomeTools
  Sandbox = "sandbox"
  PromptLen <- TwoPrompts
  PromptLength = 4
  ResponseLength = 5
  MaxModelLen = 10
  MaxAssistantTurns = 3
  MaxUserTurns = 1
  AnswerLens = {1}
  ToolLen <- SomeLengths
  Interactive = {"r1"}
  ServerHandles = {"s1", "s2"}
  MaxParallelCalls = 2
  Servers = {"s1", "s2"}
  Tp = 2
  Steps = 2
  Configs <- KeepingJob
INVARIANT
  ServedFresh
CHECK_DEADLOCK FALSE
