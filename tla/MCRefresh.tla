----------------------------- MODULE MCRefresh -------------------------------
(***************************************************************************)
(* The two feeds with a watchdog: the spot subscription (SpotFeed) and the *)
(* ATR manager (Volatility).  The first state picks one of them, and the   *)
(* variables of the other stay Unused.                                     *)
(***************************************************************************)
EXTENDS Integers

CONSTANTS
  MaxAge, Timeout, Behind, Ahead, Far, MaxBusy, ChanCap, \* SpotFeed
  Period, StaleAfter, Old                                \* Volatility

VARIABLES
  feed,
  sound, conn, last_payload, quiet, chan, busy, event_at, received, \* SpotFeed
  current_atr, bar_history, last_atr_tick, socket, down, pc, got    \* Volatility

Unused == "unused"
spotVars     == <<sound, conn, last_payload, quiet, chan, busy, event_at, received>>
atrVars      == <<current_atr, bar_history, last_atr_tick, socket, down, pc, got>>
refreshVars  == <<feed, spotVars, atrVars>>

Spot == INSTANCE SpotFeed
Atr  == INSTANCE Volatility

ASSUME FeedsSound == Spot!SpotAssumption /\ Atr!AtrAssumption

SpotUnused ==
  /\ sound = Unused /\ conn = Unused /\ last_payload = Unused /\ quiet = Unused
  /\ chan = Unused /\ busy = Unused /\ event_at = Unused /\ received = Unused
AtrUnused ==
  /\ current_atr = Unused /\ bar_history = Unused /\ last_atr_tick = Unused
  /\ socket = Unused /\ down = Unused /\ pc = Unused /\ got = Unused

RefreshInit ==
  \/ feed = "spot" /\ Spot!Init /\ AtrUnused
  \/ feed = "atr"  /\ Atr!Init  /\ SpotUnused

RefreshNext ==
  \/ feed = "spot" /\ Spot!Next /\ UNCHANGED <<feed, atrVars>>
  \/ feed = "atr"  /\ Atr!Next  /\ UNCHANGED <<feed, spotVars>>

\* The fairness of each module, for the feed it belongs to.
SpotFairness ==
  /\ WF_spotVars(feed = "spot" /\ Spot!Tick)
  /\ WF_spotVars(feed = "spot" /\ Spot!Handle)
  /\ WF_spotVars(feed = "spot" /\ Spot!Connect)
  /\ WF_spotVars(feed = "spot" /\ Spot!StaleReconnect)
  /\ SF_spotVars(feed = "spot" /\ Spot!SoundPayload)
AtrFairness ==
  /\ WF_atrVars(feed = "atr" /\ Atr!Minute)
  /\ WF_atrVars(feed = "atr" /\ Atr!Tracker)
  /\ WF_atrVars(feed = "atr" /\ Atr!Watchdog)

RefreshSpec == RefreshInit /\ [][RefreshNext]_refreshVars /\ SpotFairness /\ AtrFairness

-----------------------------------------------------------------------------
(* Properties: those of the modules, where they are stated                 *)

\* Once the feed is sound again, fresh spot keeps coming (subscribe_chainlink and
\* its staleness watchdog).
SpotComesBack == (feed = "spot" /\ sound) ~> []<>(feed # "spot" \/ received = 0)

\* Once REST stays up, the ATR keeps being refreshed (VolatilityManager's watchdog).
AtrKeepsFresh ==
  <>[](feed = "atr" /\ "rest" \notin down) => []<>(feed = "atr" => last_atr_tick = 0)

\* What decisions are made on: a spot called fresh is recent, and an ATR is over
\* its whole period (SpotTick handler, calculate_next_atr, commit_atr).
ServesFreshData ==
  /\ feed = "spot" => Spot!SpotInv /\ Spot!FreshIsRecent
  /\ feed = "atr"  => Atr!AtrInv /\ Atr!AtrIsOverThePeriod
=============================================================================
