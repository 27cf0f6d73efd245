SPECIFICATION Spec
CONSTANTS
  NMsgs = 2
  CliMsgs = {2}
  MaxPending = 2
  MaxAttempts = 2
  MaxQueue = 2
  Hazards = {"disconnect", "resync", "write_error", "other_request"}
INVARIANTS TypeOK OneAckOneEntry AnswerAfterEnqueue
PROPERTIES AttemptBytes OneVerdict
CHECK_DEADLOCK FALSE
