SPECIFICATION FairSpec
CONSTANTS
  Key <- AllKeys
  Bodies <- AllBodies
  MaxLost = 1
INVARIANTS
  VerdictIsRight
  AnswerMatchesTable
PROPERTY EventuallyAnswered
CHECK_DEADLOCK FALSE
