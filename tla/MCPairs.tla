------------------------------- MODULE MCPairs -------------------------------
(***************************************************************************)
(* The windows of PairWindows for TLC, in cents, with the limits and the   *)
(* ladders of config.json, a corridor of two seconds, windows of twenty    *)
(* seconds for the exits, and of a quarter of an hour for strategy D.      *)
(***************************************************************************)
EXTENDS PairWindows

MCStrategies  == {"simple_both", "asymmetric_ladder", "dynamic_breakeven"}
MCStrongSteps == <<62, 72>>
MCWeakSteps   == <<70, 85>>

\* Eight moments, at which the leg that leads changes, and the spot is near or far on
\* either side, or unknown.
Quote(up_bid, up_ask, down_bid, down_ask) ==
  [bid |-> [UP |-> up_bid, DOWN |-> down_bid], ask |-> [UP |-> up_ask, DOWN |-> down_ask]]
Spot(gap, zone, close) == [known |-> TRUE, gap |-> gap, zone |-> zone, close |-> close]
MCBooks == {Quote(78, 80, 20, 22), Quote(22, 26, 74, 78), Quote(92, 94, 6, 8)}
MCSpots == {Spot(-15, "near", TRUE), Spot(120, "far", FALSE), Spot(-120, "far", FALSE),
            [known |-> FALSE, gap |-> 0, zone |-> "unknown", close |-> FALSE]}
MCVelocities == {-1, 1}

\* As many shares on either side, more on one, and a side too small to be bought.
MCEntries == {[shares |-> [UP |-> 4000, DOWN |-> 4000], spent |-> 3900],
              [shares |-> [UP |-> 3000, DOWN |-> 4000], spent |-> 3400],
              [shares |-> [UP |-> 0, DOWN |-> 200], spent |-> 102]}
=============================================================================
