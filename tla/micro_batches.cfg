SPECIFICATION FairSpec
CONSTANTS
  r1 = r1
  r2 = r2
  Ranks = {r1, r2}
  BatchSize = 4
  Batches <- ShortAndLong
  MaxTokenLen = 5
  DividedBy = {1, 3}
INVARIANTS
  TypeOK
  SpreadThin
  Balanced
  RestoresOrder
PROPERTY
  EveryRankEnds
CHECK_DEADLOCK FALSE
