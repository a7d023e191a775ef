CONSTANTS
  w1 = w1
  w2 = w2
  Workers = {w1, w2}
  Runs = {r1}
  Keys = {"first", "second"}
  Later = {"second"}
  MaxAtOnce = 1
  Sites <- TwoSites
  TTL = 7
  MaxLate = 1
  MaxMissed = 1
  MaxDeaths = 1
SPECIFICATION FairSpec
INVARIANTS KnownWhileAlive FleetIsShown FailuresAreShown
PROPERTIES DeadWorkersVanish
CHECK_DEADLOCK FALSE
