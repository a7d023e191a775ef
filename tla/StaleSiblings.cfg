CONSTANTS
  Tasks <- PairTasks
  Deps <- Pair
  MaxAttempts <- PairOnce
  Workers = {w1, w2}
  Cancellers = {}
  MaxCrashes = 0
  MaxLapses = 0
  MaxOutages = 0
  NoTask = NoTask
SPECIFICATION FairSpec
PROPERTY SucceedsUnlessDeadLettered
CHECK_DEADLOCK FALSE
