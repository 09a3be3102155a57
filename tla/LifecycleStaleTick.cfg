SPECIFICATION LifecycleSpec
CONSTANTS
  Windows <- MCWindows
  StartingBank = 2
  Unit = 2
  Live = FALSE
  WarmsUp = TRUE
  Amounts = {}
  Prices = {1}
  PtbValues = {1, 2, 9}
  MaxSpent = 2
  MaxSlot = 2
  SlotLen = 2
  Sec = 1
  SafetySecs = 1
  MaxClobAge = 1
  MaxSpotAge = 1
  Lookahead = 1
  RequestsFail = FALSE
  MaxSignals = 1
  MaxClock = 7
  ChanCap = 1
  SpotPrices = {1}
  PublishedPtbs = {0}
  Implausible = {9}
  QuoteSet <- MCNoBids
  PollOutcomes = {"ok"}
INVARIANTS OneLiveWindow
