CONSTANTS
  Companions = {1, 2}
  Knows <- MCShared
  NMsgs = 1
  NLinks = 2
  MaxQueue = 2
  MaxRetries = 0
  Hazards = {}
SPECIFICATION FairSpec
INVARIANTS CompanionsApart
PROPERTIES SyncsSucceed
CHECK_DEADLOCK FALSE
