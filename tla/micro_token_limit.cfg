SPECIFICATION Spec
CONSTANTS
  r1 = r1
  Ranks = {r1}
  BatchSize = 3
  Batches <- Uniform
  MaxTokenLen = 5
  DividedBy = {1}
INVARIANT
  WithinTokenLimit
CHECK_DEADLOCK FALSE
