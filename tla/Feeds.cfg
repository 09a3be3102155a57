SPECIFICATION FeedsSpec
CONSTANTS
  Quotes <- MCQuotes
  Prints = {90}
  SignificantGap = 20
  MaxMoves = 2
  MaxTicks = 4
  BookAsks <- MCBookAsks
  BookBids <- MCBookBids
  TradePrices = {44, 50, 55}
  TradeSizes = {0, 250}
  TapeWindow = 2
  MinUsd = 100
  Limits = {49, 50, 53, 99}
  ClipSizes = {50, 100}
  Budgets = {300}
  MaxClips = 4
  MaxPrints = 3
  MaxClock = 4
  Ms = 10
  Boundary = 100
  Begin = 110
  MaxSamples = 3
  Recent = 20
  MaxSampleAge = 30
  Leads = {0, 4, 30, 31}
  Steps = {7, 25}
  SpotPrices = {1, 2}
  LastInstant = 165
INVARIANT FeedsInv
INVARIANT CrossesExplained
INVARIANT SnapshotIsExact
INVARIANT LevelsFillOnce
CHECK_DEADLOCK FALSE
