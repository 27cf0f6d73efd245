CONSTANTS
  NReaders = 2
  MaxMail = 2
  Hazards = {"connect_again", "quit", "unplug"}
SPECIFICATION FairSpec
INVARIANTS ReaderUsesOpenFd OneReader ViewFollowsLink CleanEnd
PROPERTIES DisconnectReturnsFirst KeepsPromise
CHECK_DEADLOCK FALSE
