SPECIFICATION RefreshSpec
CONSTANTS
  MaxAge = 3
  Timeout = 3
  Behind = {0, 2, 3, 4}
  Ahead = {2, 3, 4, 6}
  Far = 6
  MaxBusy = 1
  ChanCap = 2
  Period = 2
  StaleAfter = 2
  Old = 5
PROPERTY SpotComesBack
PROPERTY AtrKeepsFresh
INVARIANT ServesFreshData
CHECK_DEADLOCK FALSE
