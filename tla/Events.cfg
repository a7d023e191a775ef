SPECIFICATION FairSpec
CONSTANTS
  Writers = {t1, t2}
  MaxEmits = 3
  MaxBreaks = 2
INVARIANTS
  NoGap
PROPERTY EventuallySeen
CHECK_DEADLOCK FALSE
