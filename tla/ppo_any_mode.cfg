SPECIFICATION Spec
CONSTANTS
  r0 = r0
  r1 = r1
  Ranks = {r0, r1}
  Rank0 = r0
  NumGroups = 1
  MaxStep = 7
  MaxLife = 3
  MaxKeep <- KeepTwo
  SaveFreq = 2
  StepsPerEpoch = 2
  TotalEpochs = 2
  TotalSteps = 5
  ResumeModes = {"auto", "disable", "resume_path"}
  CrashPoints <- AllPoints
INVARIANTS
  RotationBound
  PublishedIsFound
CHECK_DEADLOCK FALSE
