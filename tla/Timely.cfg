CONSTANTS
  Tasks <- FanInTasks
  Deps <- FanIn
  MaxAttempts <- FanInTwice
  Workers = {w1, w2}
  Cancellers = {}
  MaxCrashes = 2
  MaxLapses = 0
  MaxOutages = 0
  NoTask = NoTask
SPECIFICATION FairSpec
INVARIANTS SingleOwner LogAgreesWithStatus RetryBudget
PROPERTIES TerminalIsFinal ImplementsScheduler OrphanIsReclaimed SequentialRunEnds
CHECK_DEADLOCK FALSE
