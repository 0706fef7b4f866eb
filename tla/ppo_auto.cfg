SPECIFICATION FairSpec
CONSTANTS
  r0 = r0
  r1 = r1
  Ranks = {r0, r1}
  Rank0 = r0
  NumGroups = 2
  MaxStep = 6
  MaxLife = 3
  MaxKeep <- KeepTwoAll
  SaveFreq = 2
  StepsPerEpoch = 2
  TotalEpochs = 2
  TotalSteps = 3
  ResumeModes = {"auto"}
  CrashPoints <- NotInTracker
INVARIANTS
  PublishedComplete
  ResumeConsistent
  DataAligned
  BoundedLoss
  IInv
  FinishedIsPublished
PROPERTIES
  EventuallyFinished
  ImplementsStore
CHECK_DEADLOCK FALSE
