------------------------------- MODULE MCGrids -------------------------------
(***************************************************************************)
(* The windows of ConvictionWindows for TLC: fifteen minutes, and for each *)
(* strategy the moments, books and moves of the spot that bring its rules  *)
(* about.                                                                  *)
(***************************************************************************)
EXTENDS ConvictionWindows

Quote(up_bid, up_ask, down_bid, down_ask) ==
  [bid |-> [UP |-> up_bid, DOWN |-> down_bid], ask |-> [UP |-> up_ask, DOWN |-> down_ask]]
Micro(spot, strength, prob, cex) ==
  [spot |-> spot, strength |-> strength, prob |-> prob, cex |-> cex]

\* Books near parity, with a pair that costs less than its sum, and with one side dear.
MCRouterMoments == {0, 18, 30, 46, 54}
MCRouterBooks   == {Quote(47, 49, 51, 53), Quote(40, 44, 28, 34), Quote(70, 72, 28, 30)}
MCRouterGaps    == {-30, 30, 150}

\* Books from one side cheap to the other, a spot that confirms a side, runs against
\* it or stands, and a session without a maximum.
MCValueMoments == {0, 12, 44, 55}
MCValueBooks   == {Quote(47, 49, 40, 44), Quote(64, 66, 28, 31), Quote(84, 86, 12, 14)}
MCValueGaps    == {-120, 40}
MCMicros       == {Micro("none", 0, "none", "none"), Micro("none", 0, "none", "DOWN"),
                   Micro("UP", 2, "UP", "none"), Micro("DOWN", 2, "DOWN", "UP")}

\* Two cheap entries at different asks, and books on which one, two or three steps of
\* the grid sell, before and in the last quarter, in the money or out of it.
MCGridMoments == {0, 12, 30, 48, 54}
MCGridBooks   == {Quote(40, 44, 54, 58), Quote(64, 66, 32, 36), Quote(54, 56, 30, 34),
                  Quote(84, 86, 7, 9)}
MCGridGaps    == {-160, -40, 30}

\* Either side in the band, or both; salvages that are forced, allowed or refused.
MCHoldMoments == {0, 12, 19, 30, 48, 54}
MCHoldBooks   == {Quote(36, 38, 60, 62), Quote(60, 62, 36, 38), Quote(34, 37, 35, 39),
                  Quote(20, 25, 70, 75), Quote(70, 75, 10, 12)}
MCHoldGaps    == {-130, -90, -10, 0, 15, 100}
=============================================================================
