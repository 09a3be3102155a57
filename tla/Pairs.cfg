SPECIFICATION Spec
CONSTANTS
  Earliest = 7
  Latest = 5
  MinAsk = 42
  MaxAsk = 58
  MinBudget = 600
  MaxBudget = 2000
  BudgetPct = 10
  MinTrade = 100
  LlmEnabled = TRUE
  LlmTimeout = 8
  Asks = {0, 44, 50, 52, 60}
  Banks = {500, 599, 700, 1500, 10000, 30000}
  Multipliers = {31, 100}
  Ratios = {50, 56, 60}
  Strategies <- MCStrategies
  ExitDuration = 20
  ExitMoments = {20, 9, 4, 3}
  Bids = {10, 20, 57, 65, 90}
  Shares = {4, 6}
  EntryAsk = 50
  ExitBid = 65
  StrongSteps <- MCStrongSteps
  WeakSteps <- MCWeakSteps
  SlippageBuffer = 2
  Ladders = {TRUE, FALSE}
  GridDuration = 60
  GridMoments = {0, 15, 27, 32, 44, 50, 55, 60}
  Books <- MCBooks
  Spots <- MCSpots
  Atrs = {20}
  Velocities <- MCVelocities
  Entries <- MCEntries
INVARIANT PairsInv
PROPERTY ExitRules
CHECK_DEADLOCK FALSE
