CONSTANTS
  Apis = {a1, a2}
  Workers = {w1}
  Requests = {r1, r2}
  Emails = {"root", "x"}
  Root = "root"
  RoleLists <- TwoLists
  Bodies <- OneBody
  MaxSignIns = 1
  MaxFailures = 1
  NoCall = NoCall
SPECIFICATION FairSpec
INVARIANTS OneAccountEach UserAnswersAgree
PROPERTIES NoStaleRights EveryProcessComesUp
CHECK_DEADLOCK FALSE
