CONSTANTS
  Tasks <- PairTasks
  Deps <- Pair
  MaxAttempts <- PairOnce
  Workers = {w1, w2}
  Cancellers = {c1}
  MaxCrashes = 0
  MaxLapses = 0
  MaxOutages = 0
  NoTask = NoTask
SPECIFICATION Spec
PROPERTY CancelledIsFinal
CHECK_DEADLOCK FALSE
