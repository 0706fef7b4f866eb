SPECIFICATION Spec
CONSTANTS
  r0 = r0
  r1 = r1
  Ranks = {r0, r1}
  Rank0 = r0
  NumGroups = 1
  MaxStep = 6
  MaxLife = 2
  MaxKeep <- KeepTwo
  SaveFreq = 3
  StepsPerEpoch = 3
  TotalEpochs = 2
  TotalSteps = 6
INVARIANT
  ReachesTotal
CHECK_DEADLOCK FALSE
