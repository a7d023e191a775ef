SPECIFICATION FairSpec
CONSTANTS
  Calls = {c1, c2}
  MaxLogins = 2
  MaxReloads = 1
PROPERTIES
  OnlyItsOwnCallsEndASession
  ExpiredSessionEnds
  OwnDataInTheEnd
CHECK_DEADLOCK FALSE
