SPECIFICATION JSpec
CONSTANTS
  Unit <- MCUnit
  J <- MCJ
  Ticks <- MCFewTicks
  Bank = 14
  WindowSecs = 3
  ArmedAt = 2
  MaxCross = 2
  MaxOutside = 16
  WatchWindow = FALSE
CHECK_DEADLOCK FALSE
INVARIANT JTypeOK
INVARIANT RiskBounded
INVARIANT PlannedFits
PROPERTY BuysKeepRules
PROPERTY KeepsBudget
