SPECIFICATION FairSpec
CONSTANTS
  Tasks <- TwoTasks
  Workers = {w1, w2}
  MaxAttempts <- RetryOne
  MaxCrashes = 1
  NoTask = NoTask
INVARIANTS
  SingleExecution
  NoticeIsEarned
PROPERTIES
  SettledIsFinal
  ReleasedIsSettled
CHECK_DEADLOCK FALSE
