--------------------------- MODULE ConvictionWindows ---------------------------
(***************************************************************************)
(* Windows that are traded on one conviction: strategies E                 *)
(* (ConvictionRouter), Dx (FairValue), D_cross (CrossGrid), H (CheapHold)  *)
(* and x_last (LastSeconds). The first state picks one of them; the        *)
(* strategies share no state, so that a variable stands for whichever was  *)
(* picked, and is Off if that has none of this name.                       *)
(***************************************************************************)
EXTENDS Integers

CONSTANTS
  Duration, MinBudget, MaxBudget,              \* ConvictionRouter, CrossGrid, CheapHold
  RouterMoments, RouterBooks, RouterGaps,      \* ConvictionRouter
  ValueMoments, ValueBooks, ValueGaps, Micros, \* FairValue
  ValueBudget, MaxBudgets,
  GridMoments, GridBooks, GridGaps,            \* CrossGrid
  HoldMoments, HoldBooks, HoldGaps,            \* CheapHold
  Asks, Lefts, Banks,                          \* LastSeconds
  EntrySecs, MaxAsk, ClipUsd, MinOrderUsd

VARIABLES
  part,
  now, shares, bought, cost,                                     \* most of them
  returned, ptb_baseline, ptb_crossed, sell_steps_done,          \* two of them
  emergency_sold, protected, entry_side, entry_done,
  conviction_side, buy_tranches_done, last_spot_itm, last_buy,   \* ConvictionRouter
  ptb_trim_count, last_trim, last_grid_target,
  primary_side, primary_entry_price, sell_steps, max_budget,     \* FairValue
  panicked, salvaging, dumped,
  entry_ask, pending_entry_ask, initial_entry_shares,            \* CrossGrid
  thesis_locked, released,
  salvage_done,                                                  \* CheapHold
  left, cash, runtime_cash, executed                             \* LastSeconds

Off == "off"
shared     == <<now, shares, bought, cost>>
crossVars  == <<ptb_baseline, ptb_crossed>>
soldVars   == <<sell_steps_done, emergency_sold, protected>>
routerOnly == <<conviction_side, buy_tranches_done, last_spot_itm, last_buy,
                ptb_trim_count, last_trim, last_grid_target>>
valueOnly  == <<primary_side, primary_entry_price, sell_steps, max_budget,
                panicked, salvaging, dumped>>
gridOnly   == <<entry_ask, pending_entry_ask, initial_entry_shares, thesis_locked, released>>
lastOnly   == <<left, cash, runtime_cash, executed>>
vars == <<part, shared, returned, crossVars, soldVars, entry_side, entry_done, routerOnly,
          valueOnly, gridOnly, salvage_done, lastOnly>>

Router == INSTANCE ConvictionRouter WITH
  Moments <- RouterMoments, Books <- RouterBooks, Gaps <- RouterGaps
Value == INSTANCE FairValue WITH
  Moments <- ValueMoments, Books <- ValueBooks, Gaps <- ValueGaps, MinBudget <- ValueBudget
Grid == INSTANCE CrossGrid WITH
  Moments <- GridMoments, Books <- GridBooks, Gaps <- GridGaps
Hold == INSTANCE CheapHold WITH
  Moments <- HoldMoments, Books <- HoldBooks, Gaps <- HoldGaps
Last == INSTANCE LastSeconds

ASSUME InstancesSound ==
  /\ Router!RouterAssumption /\ Value!FairValueAssumption
  /\ Grid!CrossGridAssumption /\ Hold!CheapHoldAssumption /\ Last!LastSecondsAssumption

RouterOff == /\ conviction_side = Off /\ buy_tranches_done = Off /\ last_spot_itm = Off
             /\ last_buy = Off /\ ptb_trim_count = Off /\ last_trim = Off
             /\ last_grid_target = Off
ValueOff  == /\ primary_side = Off /\ primary_entry_price = Off /\ sell_steps = Off
             /\ max_budget = Off /\ panicked = Off /\ salvaging = Off /\ dumped = Off
GridOff   == /\ entry_ask = Off /\ pending_entry_ask = Off /\ initial_entry_shares = Off
             /\ thesis_locked = Off /\ released = Off
LastOff   == left = Off /\ cash = Off /\ runtime_cash = Off /\ executed = Off
CrossOff  == ptb_baseline = Off /\ ptb_crossed = Off
SoldOff   == sell_steps_done = Off /\ emergency_sold = Off /\ protected = Off

Init ==
  \/ /\ part = "router" /\ Router!Init
     /\ returned = Off /\ entry_side = Off /\ entry_done = Off /\ salvage_done = Off
     /\ ValueOff /\ GridOff /\ LastOff
  \/ /\ part = "value" /\ Value!Init
     /\ entry_side = Off /\ entry_done = Off /\ salvage_done = Off
     /\ SoldOff /\ RouterOff /\ GridOff /\ LastOff
  \/ /\ part = "grid" /\ Grid!Init
     /\ entry_done = Off /\ salvage_done = Off
     /\ CrossOff /\ RouterOff /\ ValueOff /\ LastOff
  \/ /\ part = "hold" /\ Hold!Init
     /\ returned = Off
     /\ CrossOff /\ SoldOff /\ RouterOff /\ ValueOff /\ GridOff /\ LastOff
  \/ /\ part = "last" /\ Last!Init
     /\ now = Off /\ bought = Off /\ returned = Off /\ salvage_done = Off
     /\ CrossOff /\ SoldOff /\ RouterOff /\ ValueOff /\ GridOff

Next ==
  \/ /\ part = "router" /\ Router!Next
     /\ UNCHANGED <<part, returned, entry_side, entry_done, valueOnly, gridOnly, salvage_done, lastOnly>>
  \/ /\ part = "value" /\ Value!Next
     /\ UNCHANGED <<part, soldVars, entry_side, entry_done, routerOnly, gridOnly, salvage_done, lastOnly>>
  \/ /\ part = "grid" /\ Grid!Next
     /\ UNCHANGED <<part, crossVars, entry_done, routerOnly, valueOnly, salvage_done, lastOnly>>
  \/ /\ part = "hold" /\ Hold!Next
     /\ UNCHANGED <<part, returned, crossVars, soldVars, routerOnly, valueOnly, gridOnly, lastOnly>>
  \/ /\ part = "last" /\ Last!Next
     /\ UNCHANGED <<part, now, bought, returned, crossVars, soldVars, routerOnly, valueOnly,
                    gridOnly, salvage_done>>

Spec == Init /\ [][Next]_vars

-----------------------------------------------------------------------------
(* Properties: those of the modules, where they are stated                 *)

\* Tranches, hedges, repeated entries and clips, each planned on its own, keep within
\* the budget of the window, the cap of the hedge, and the one entry of the strategies
\* that have one (e_window_budget, the hedge of Dx, the entries of D_cross, H and x_last).
BudgetsHeld ==
  /\ part = "router" => Router!TypeOK /\ Router!BudgetHeld
  /\ part = "value"  => Value!TypeOK  /\ Value!HedgeCapped
  /\ part = "grid"   => Grid!TypeOK   /\ Grid!OneEntry
  /\ part = "hold"   => Hold!TypeOK   /\ Hold!OneEntry
  /\ part = "last"   => Last!TypeOK   /\ Last!OneClip

\* What the strategy manages is what it bought: a held conviction stays, a trimmed
\* side is not bought again at once, and a refused entry leaves no thesis behind
\* (conviction_side of E, primary_side of Dx, entry_side of H).
ThesisStays ==
  [][ /\ part = "router" => Router!ThesisStays /\ Router!NoReentryAfterTrim
      /\ part = "value"  => Value!PrimaryWasBought
      /\ part = "hold"   => Hold!EntryWasBought ]_vars

\* What is kept for redemption is not sold: the protected side of strategies E and
\* D_cross, the runner of D_cross, and the pair of Dx, which the salvage leaves whole.
KeptForRedemption ==
  [][ /\ part = "router" => Router!ProtectedStays
      /\ part = "value"  => Value!SalvageKeepsPair
      /\ part = "grid"   => Grid!ProtectedStays /\ Grid!RunnerKept ]_vars

\* What the ladder and the profit of Dx, or the grid of D_cross, sold returned what it
\* had cost.
PrimaryPays ==
  /\ part = "value" => Value!PrimaryPays
  /\ part = "grid"  => Grid!GridPays

\* What the steps of each strategy preserve together.
WindowsInv ==
  /\ part = "router" => Router!RouterInv
  /\ part = "value"  => Value!ValueInv
  /\ part = "grid"   => Grid!GridInv
  /\ part = "hold"   => Hold!HoldInv
  /\ part = "last"   => Last!LastInv
=============================================================================
