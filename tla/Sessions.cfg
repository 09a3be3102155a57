SPECIFICATION Spec
CONSTANTS
  Windows <- MCWindows
  StartingBank = 2
  Unit = 2
  Live = FALSE
  WarmsUp = TRUE
  Amounts = {2}
  Prices = {1}
  PtbValues = {1, 2, 9}
  MaxSpent = 2
  MaxSlot = 3
  SlotLen = 3
  Sec = 2
  SafetySecs = 1
  MaxClobAge = 3
  MaxSpotAge = 1
  Lookahead = 1
  RequestsFail = FALSE
  MaxSignals = 1
  MaxClock = 7
  ChanCap = 1
  SpotPrices = {1}
  PublishedPtbs = {0, 2}
  Implausible = {9}
  QuoteSet = {}
  PollOutcomes = {"ok", "blocked"}
INVARIANT QueueMatchesLedger
INVARIANT CloneIsCurrent
INVARIANT SettlementPriceStands
INVARIANT LifecycleInv
INVARIANT PnlMatchesClosed
INVARIANT QuietSettles
PROPERTY OrdersNearWindow
PROPERTY LedgerSpec
