CONSTANTS
  t1 = t1
  t2 = t2
  Tasks = {t1, t2}
  Refs = {output}
  Configs <- Pairs
  NoKey = NoKey
  MaxAttempts = 2
  MaxClaims = 2
SPECIFICATION FairSpec
INVARIANTS EffectOnce SuccessIsReal NothingUnresolved
PROPERTIES ExecutionsEnd
CHECK_DEADLOCK FALSE
