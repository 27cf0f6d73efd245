SPECIFICATION FairSpec
CONSTANTS
  NMsgs = 2
  CliMsgs = {2}
  MaxPending = 1
  MaxAttempts = 2
  MaxQueue = 2
  Hazards = {"resync"}
PROPERTIES EventuallyLeaves KeepsPromise
CHECK_DEADLOCK FALSE
