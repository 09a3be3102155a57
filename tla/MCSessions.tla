----------------------------- MODULE MCSessions ------------------------------
(***************************************************************************)
(* Small sessions of the event loop (WindowLifecycle) for TLC.  The first  *)
(* state picks one of three scenarios, the first with the constants of the *)
(* cfg, the others instances over the same variables:                      *)
(*   "quiet"       a CLOB feed that is silent, and published PTBs          *)
(*   "trading"     orders of CLOB ticks among promotion, capture and       *)
(*                 settlement, with no PTB published                       *)
(*   "settlement"  published PTBs, searches that fail in part, ticks that  *)
(*                 outlive their window, no orders                         *)
(***************************************************************************)
EXTENDS MCWindowLifecycle

VARIABLE scenario

Trading == INSTANCE WindowLifecycle WITH
  MaxSlot <- 2, PublishedPtbs <- {0}, QuoteSet <- MCFullBook

Settling == INSTANCE WindowLifecycle WITH
  Amounts <- {}, SlotLen <- 2, Sec <- 1, Lookahead <- 2, QuoteSet <- MCNoBids,
  RequestsFail <- TRUE, MaxClock <- 6, PollOutcomes <- {"ok"}

Init ==
  \/ scenario = "quiet"      /\ LifecycleInit
  \/ scenario = "trading"    /\ Trading!LifecycleInit
  \/ scenario = "settlement" /\ Settling!LifecycleInit

Next ==
  \/ scenario = "quiet"      /\ LifecycleNext          /\ UNCHANGED scenario
  \/ scenario = "trading"    /\ Trading!LifecycleNext  /\ UNCHANGED scenario
  \/ scenario = "settlement" /\ Settling!LifecycleNext /\ UNCHANGED scenario

Spec == Init /\ [][Next]_<<vars, scenario>>

-----------------------------------------------------------------------------
(* The properties that hold of all sessions are those of WindowLifecycle.  *)

\* CLOB ticks that outlive their window are what the next property excludes: with
\* none, at most one window is LIVE when it should be (promote_next_to_current
\* queues the one before), and no queued window misses its close price.
QuietSettles == scenario = "quiet" => OneLiveWindow /\ SettlementNotMissed
=============================================================================
