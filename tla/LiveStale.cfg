SPECIFICATION LiveSpec
CONSTANTS
  Bank = 4
  MaxWindow = 4
  Sizes <- MCSizes
  MinOrder = 1
  PartialFills = FALSE
  Attempts = 3
  MaxAge = 2
  MaxWindows = 1
  MaxLost = 0
  MaySell = TRUE
CHECK_DEADLOCK FALSE
INVARIANT NoStaleSubmit
