SPECIFICATION JSpec
CONSTANTS
  Unit <- MCUnit
  J <- MCJLong
  Ticks <- MCCalmTicks
  Bank = 60
  WindowSecs = 4
  ArmedAt = 3
  MaxCross = 0
  MaxOutside = 0
  WatchWindow = TRUE
CHECK_DEADLOCK FALSE
PROPERTY ReloadBelowAverage
