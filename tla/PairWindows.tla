---------------------------- MODULE PairWindows -----------------------------
(***************************************************************************)
(* Windows that are entered on both sides: the entry before the start      *)
(* (PreStart), how strategies A, B and C leave such a window (PairExits),  *)
(* and how strategy D works it (PairGrid).  The first state picks one of   *)
(* the three; they share no state, and the variables of the other two stay *)
(* Off.                                                                    *)
(***************************************************************************)
EXTENDS Integers

CONSTANTS
  Earliest, Latest, MinAsk, MaxAsk, MinBudget, MaxBudget, BudgetPct,    \* PreStart
  LlmEnabled, LlmTimeout, Asks, Banks, Multipliers, Ratios,
  MinTrade,                                                            \* and PairGrid
  Strategies, ExitDuration, ExitMoments, Bids, Shares, EntryAsk,       \* PairExits
  ExitBid, StrongSteps, WeakSteps, SlippageBuffer, Ladders,
  GridDuration, GridMoments, Books, Spots, Atrs, Velocities, Entries   \* PairGrid

VARIABLES
  part,
  secs, ask, volatile, shutdown_pending, cash, equity, spent, cost, status, \* PreStart
  next_status, entered, attempted, requests, entry,
  strategy, decay, left, bid, shares, initial_shares, paid, cash_returned,  \* PairExits
  sold, first_sold_side, ptb_baseline, ptb_crossed, steps_hit,
  now, scalp, reserve, released  \* PairGrid, with those of the ledger and of the sales

Off == "off"
entryVars == <<secs, ask, volatile, shutdown_pending, cash, equity, spent, cost,
               status, next_status, entered, attempted, requests, entry>>
saleVars  == <<shares, initial_shares, paid, cash_returned, sold, first_sold_side, steps_hit>>
exitVars  == <<strategy, decay, left, bid, ptb_baseline, ptb_crossed>>
gridVars  == <<now, scalp, reserve, released>>
vars == <<part, entryVars, saleVars, exitVars, gridVars>>

Entry == INSTANCE PreStart
Exits == INSTANCE PairExits WITH
  Duration <- ExitDuration, Moments <- ExitMoments, spent <- paid
Grid == INSTANCE PairGrid WITH
  Duration <- GridDuration, Moments <- GridMoments, spent <- paid

ASSUME InstancesSound ==
  Entry!PreStartAssumption /\ Exits!ExitAssumption /\ Grid!PairGridAssumption

EntryOff == /\ secs = Off /\ ask = Off /\ volatile = Off /\ shutdown_pending = Off
            /\ cash = Off /\ equity = Off /\ spent = Off /\ cost = Off
            /\ status = Off /\ next_status = Off /\ entered = Off
            /\ attempted = Off /\ requests = Off /\ entry = Off
SalesOff == /\ shares = Off /\ initial_shares = Off /\ paid = Off
            /\ cash_returned = Off /\ sold = Off /\ first_sold_side = Off
            /\ steps_hit = Off
ExitsOff == /\ strategy = Off /\ decay = Off /\ left = Off /\ bid = Off
            /\ ptb_baseline = Off /\ ptb_crossed = Off
GridOff  == now = Off /\ scalp = Off /\ reserve = Off /\ released = Off

Init ==
  \/ part = "entry" /\ Entry!Init /\ SalesOff /\ ExitsOff /\ GridOff
  \/ part = "exits" /\ Exits!Init /\ EntryOff /\ GridOff
  \/ part = "grid"  /\ Grid!Init  /\ EntryOff /\ ExitsOff

Next ==
  \/ part = "entry" /\ Entry!Next /\ UNCHANGED <<part, saleVars, exitVars, gridVars>>
  \/ part = "exits" /\ Exits!Next /\ UNCHANGED <<part, entryVars, gridVars>>
  \/ part = "grid"  /\ Grid!Next  /\ UNCHANGED <<part, entryVars, exitVars>>

Spec == Init /\ [][Next]_vars

-----------------------------------------------------------------------------
(* Properties: those of the modules, where they are stated                 *)

\* A window is LIVE exactly when money was put into it, never more than its
\* budget, with a paired core and after one request to the model (monitor_time,
\* calculate_window_budget, allocate_entry_usd, promote_next_to_current).  Inside a
\* window, a side marked as sold has no shares left, and between two steps of a
\* ladder half of it is kept (the live-tick rules of strategies A, B and C).  The
\* grid, the exits and the scalps of strategy D never sell a share twice, keep the
\* insurance until a rule waives it, and leave on a sold side only a scalp.
PairsInv ==
  /\ part = "entry" => /\ Entry!TypeOK /\ Entry!LiveMeansPaid /\ Entry!EntryWithinBudget
                       /\ Entry!PairedFloor /\ Entry!OneRequest
  /\ part = "exits" => Exits!TypeOK /\ Exits!SoldLeavesNothing /\ Exits!LadderKeepsHalf
  /\ part = "grid" => Grid!TypeOK /\ Grid!InsuranceKept /\ Grid!SoldIsScalpOnly

\* The second leg of strategy C leaves no loss, and the last ticks sell out.
ExitRules == [][part = "exits" => Exits!SecondLegBreaksEven /\ Exits!LastTicksSellOut]_vars
=============================================================================
