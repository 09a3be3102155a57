SPECIFICATION Spec
CONSTANTS
  Workers = {w1, w2, w3}
  Racers = {w1, w2}
  NoPid = NoPid
  MaxStops = 2
  ForceAfter = 20
  Grace = 25
  HandlerMax = 8
  AlwaysLive = TRUE
  MaxQueue = 2
PROPERTY ShutdownEnds
PROPERTY CommandsEnd
INVARIANT OneServer
INVARIANT KilledOnlyWhenHeld
CHECK_DEADLOCK FALSE
