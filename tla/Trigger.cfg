CONSTANTS
  Requests = {"k1", "k2", "n1"}
  KeyOf <- TwoAndOne
  Keys = {"k", "e", "n"}
  NoKey = "n"
  EmptyKey = "e"
  RedisFails = TRUE
  MaxCrashes = 1
  Nobody = Nobody
SPECIFICATION FairSpec
INVARIANTS OneRunPerKey AnswersAgree RepeatFindsTheRun
PROPERTY EventuallyAnswered
CHECK_DEADLOCK FALSE
