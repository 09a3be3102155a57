SPECIFICATION Spec
CONSTANTS
  Bank = 4
  MaxWindow = 4
  Sizes <- MCSizes
  MinOrder = 1
  PartialFills = FALSE
  Attempts = 3
  MaxAge = 0
  MaxWindows = 1
  MaxLost = 1
  MaySell = FALSE
CHECK_DEADLOCK FALSE
INVARIANT LiveCounters
INVARIANT NeverFillsTwice
INVARIANT AnswersBooked
INVARIANT RiskWithinBudget
PROPERTY EveryTickConcludes
