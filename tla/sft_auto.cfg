SPECIFICATION FairSpec
CONSTANTS
  r0 = r0
  r1 = r1
  Ranks = {r0, r1}
  Rank0 = r0
  NumGroups = 1
  MaxStep = 6
  MaxLife = 3
  MaxKeep <- KeepTwo
  SaveFreq = 2
  StepsPerEpoch = 3
  TotalEpochs = 2
  TotalSteps = 6
INVARIANTS
  TypeOK
  PublishedComplete
  DataAligned
  RotationBound
  FinishedIsComplete
PROPERTIES
  EventuallyFinished
  ImplementsStore
CHECK_DEADLOCK FALSE
