CONSTANTS
  NContacts = 2
  Pingable = {1, 2}
  Routed = {1}
  Infra = {2}
  MaxAir = 1
  MaxMail = 1
  NClicks = 2
  NBreaks = 1
SPECIFICATION FairSpec
INVARIANTS PingsDriven QueueAlive
PROPERTIES RoundAsksEach RequestsEnd
CHECK_DEADLOCK FALSE
