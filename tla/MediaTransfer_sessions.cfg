SPECIFICATION FairSpec
CONSTANTS
  Images = {i1, j}
  Voices = {v1, v2}
  Mine = {i1, v1, v2}
  None = None
  Frags = 2
  MaxSessions = 1
  MaxQueue = 1
  Hazards = {"write_error"}
INVARIANTS TypeOK FragmentsTrue
PROPERTIES CompleteStays TransferEnds KeepsPromise
