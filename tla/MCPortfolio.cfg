SPECIFICATION LedgerSpec
CONSTANTS
  Windows <- MCWindows
  StartingBank = 3
  Unit = 2
  Live = FALSE
  WarmsUp = FALSE
  Amounts = {1, 2}
  Prices = {1}
  PtbValues = {1, 2}
  MaxSpent = 2
INVARIANT LedgerTypeOK
INVARIANT CountersMatch
INVARIANT TallyMatchesClosed
PROPERTY DoubleEntry
PROPERTY StatusMovesOn
