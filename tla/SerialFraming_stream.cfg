CONSTANTS
  Scripts <- MCScripts
  MaxPayload = 2
  MaxLine = 2
  MaxRead = 2
  Hazards = {"raw"}
SPECIFICATION FairSpec
INVARIANTS TypeOK StoresInBuffer StreamParsed OneAfterRaw
PROPERTIES AllDelivered
CHECK_DEADLOCK FALSE
