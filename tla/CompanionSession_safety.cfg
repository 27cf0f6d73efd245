CONSTANTS
  Companions = {1, 2}
  Knows <- MCKnows
  NMsgs = 1
  NLinks = 2
  MaxQueue = 1
  MaxRetries = 1
  Hazards = {"slow_boot"}
SPECIFICATION Spec
INVARIANTS CompanionsApart ShownOnce
PROPERTIES HistoryKept
CHECK_DEADLOCK FALSE
