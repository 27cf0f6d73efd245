CONSTANTS
  NReaders = 2
  MaxMail = 1
  Hazards = {"connect_again"}
SPECIFICATION FairSpec
PROPERTY DisconnectReturns
CHECK_DEADLOCK FALSE
