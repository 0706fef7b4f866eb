SPECIFICATION Spec
CONSTANTS
  r0 = r0
  r1 = r1
  Ranks = {r0, r1}
  Rank0 = r0
  NumGroups = 1
  MaxStep = 5
  MaxLife = 2
  MaxKeep <- KeepOne
  SaveFreq = 2
  StepsPerEpoch = 2
  TotalEpochs = 2
  TotalSteps = 4
  ResumeModes = {"auto"}
  CrashPoints <- AllPoints
INVARIANTS
  PublishedComplete
CHECK_DEADLOCK FALSE
