SPECIFICATION BoardSpec
CONSTANTS
  Masks <- AllMasks
  Attached <- AnyAttached
  Starts = {0, 64}
  PollTime = 1000
  Loop = 15
  Lengths <- RowLengths
INVARIANTS
  ReadyInSync
  Lcd1602Works
  PutsShown
PROPERTIES
  CallsReturn
