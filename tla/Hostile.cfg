CONSTANTS
  Tasks <- FanInTasks
  Deps <- FanIn
  MaxAttempts <- FanInOnce
  Workers = {w1, w2}
  Cancellers = {c1}
  MaxCrashes = 1
  MaxLapses = 1
  MaxOutages = 1
  NoTask = NoTask
SPECIFICATION Spec
SYMMETRY WorkerSymmetry
INVARIANTS DependencySafety ContextComplete FailureIsRecorded SuccessIsComplete
PROPERTY ImplementsDagExecution
CHECK_DEADLOCK FALSE
