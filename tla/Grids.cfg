SPECIFICATION Spec
CONSTANTS
  Duration = 60
  MinBudget = 1000
  MaxBudget = 2000
  RouterMoments <- MCRouterMoments
  RouterBooks <- MCRouterBooks
  RouterGaps <- MCRouterGaps
  ValueMoments <- MCValueMoments
  ValueBooks <- MCValueBooks
  ValueGaps <- MCValueGaps
  Micros <- MCMicros
  ValueBudget = 2800
  MaxBudgets = {0, 8000}
  GridMoments <- MCGridMoments
  GridBooks <- MCGridBooks
  GridGaps <- MCGridGaps
  HoldMoments <- MCHoldMoments
  HoldBooks <- MCHoldBooks
  HoldGaps <- MCHoldGaps
  Asks = {0, 60, 97, 100}
  Lefts = {0, 1, 5, 10, 11}
  Banks = {80, 2000, 9000}
  EntrySecs = 10
  MaxAsk = 99
  ClipUsd = 3000
  MinOrderUsd = 100
INVARIANT BudgetsHeld
INVARIANT PrimaryPays
PROPERTY ThesisStays
PROPERTY KeptForRedemption
CHECK_DEADLOCK FALSE
