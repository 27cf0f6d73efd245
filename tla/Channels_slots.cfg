CONSTANTS
  NSlots = 2
  Names = {a, b}
  Empty = empty
  Page = 1
  NStored = 1
  NMsgs = 2
  NEvents = 2
SPECIFICATION Spec
INVARIANTS ListRight HistoryIsStored ScreenIsOfShown EnumerationFed
PROPERTIES CreateKeeps
SYMMETRY Symmetry
CHECK_DEADLOCK FALSE
