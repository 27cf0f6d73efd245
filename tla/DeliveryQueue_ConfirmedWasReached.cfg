SPECIFICATION Spec
CONSTANTS
  NMsgs = 2
  CliMsgs = {2}
  MaxPending = 2
  MaxAttempts = 2
  MaxQueue = 2
  Hazards = {"disconnect", "resync", "write_error"}
PROPERTY ConfirmedWasReached
CHECK_DEADLOCK FALSE
