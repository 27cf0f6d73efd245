CONSTANTS
  NClicks = 2
  NLosses = 2
SPECIFICATION FairSpec
INVARIANTS TypeOK Settles
PROPERTIES ComesBack
CHECK_DEADLOCK FALSE
