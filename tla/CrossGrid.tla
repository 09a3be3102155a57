------------------------------ MODULE CrossGrid ------------------------------
(***************************************************************************)
(* Strategy D_cross of src/src/strategy/strategy_d_cross.rs on the CURRENT *)
(* window: one entry on the cheap side, a grid of three partial sales that *)
(* a confirmed thesis locks, the hold for redemption and the last sales.   *)
(*                                                                         *)
(* Time is in quarters of a minute, prices and dollars in cents, shares in *)
(* hundredths, the gap of the spot to the price to beat in hundredths of   *)
(* the move expected to the end.                                           *)
(***************************************************************************)
EXTENDS Integers, Sequences

CONSTANTS
  Duration,   \* of a window
  Moments,    \* times at which ticks come
  Books,      \* books a tick may show: [ask : [Sides -> cents], bid : ...]
  Gaps,       \* gaps a tick may show
  MinBudget, MaxBudget \* session: of a window

CrossGridAssumption ==
  /\ Duration \in Nat /\ Duration >= 4 /\ Moments \subseteq 0 .. Duration /\ 0 \in Moments
  /\ Books \subseteq [bid : [{"UP", "DOWN"} -> 0 .. 100], ask : [{"UP", "DOWN"} -> 0 .. 100]]
  /\ Gaps \subseteq Int
  /\ MinBudget \in Nat /\ MaxBudget \in Nat /\ MaxBudget >= 100

VARIABLES
  now,
  shares, bought, cost, returned,   \* of the window in the ledger, by side
  entry_side, entry_ask, pending_entry_ask, initial_entry_shares,
  sell_steps_done, thesis_locked, emergency_sold,
  protected,            \* history: the sides kept for redemption on this tick
  released              \* history: the grid sold under the lock

ledger  == <<shares, bought, cost, returned>>
history == <<protected, released>>
vars    == <<now, ledger, entry_side, entry_ask, pending_entry_ask,
             initial_entry_shares, sell_steps_done, thesis_locked,
             emergency_sold, history>>

Sides == {"UP", "DOWN"}
Other(side) == IF side = "UP" THEN "DOWN" ELSE "UP"

GridDeltas == {<<6, 10, 14>>, <<8, 12, 18>>, <<10, 15, 22>>, <<12, 18, 26>>} \* by the regime of the ATR
GridPart   == <<35, 35, 30>>

Least(a, b) == IF a <= b THEN a ELSE b
Most(a, b)  == IF a >= b THEN a ELSE b
Clamp(a, low, high) == Most(low, Least(a, high))

Init ==
  /\ now = 0
  /\ shares = [side \in Sides |-> 0]
  /\ bought = shares /\ cost = shares /\ returned = shares
  /\ entry_side = "none" /\ entry_ask = 0 /\ pending_entry_ask = 0
  /\ initial_entry_shares = 0 /\ sell_steps_done = 0
  /\ thesis_locked = FALSE /\ emergency_sold = FALSE
  /\ protected = {} /\ released = FALSE

Pass ==
  /\ now' \in Moments /\ now' > now
  /\ protected' = {}
  /\ UNCHANGED <<ledger, entry_side, entry_ask, pending_entry_ask, initial_entry_shares,
                 sell_steps_done, thesis_locked, emergency_sold, released>>

TimePct == (now * 100) \div Duration
SecondsLeft == 15 * (Duration - now)

-----------------------------------------------------------------------------
(* What a tick shows                                                       *)

\* normal_cdf of the gap, the drift of the velocity left out.
FairUp(gap) ==
  IF gap >= 150 THEN 93 ELSE IF gap >= 100 THEN 84 ELSE IF gap >= 20 THEN 62
  ELSE IF gap > 0 THEN 53 ELSE IF gap = 0 THEN 50 ELSE IF gap > -20 THEN 47
  ELSE IF gap > -100 THEN 38 ELSE IF gap > -150 THEN 16 ELSE 7

\* known: spot and price to beat are there; chop: the lead crossed too often;
\* against: the sides against which the spot or the exchange is moving.
Ticks ==
  [book : Books, gap : Gaps, known : {TRUE}, chop : BOOLEAN, against : {{}, {"UP"}, {"DOWN"}}]
    \cup [book : Books, gap : {0}, known : {FALSE}, chop : {FALSE}, against : {{}}]

Bid(side, t)  == t.book.bid[side]
Ask(side, t)  == t.book.ask[side]
Mids(side, t) == Bid(side, t) + Ask(side, t) \* both mids doubled
Fair(side, t) == IF side = "UP" THEN FairUp(t.gap) ELSE 100 - FairUp(t.gap)
Itm(side, t)  == t.known /\ IF side = "UP" THEN t.gap > 0 ELSE t.gap < 0

\* evaluate_redeem_hold, told that the spot never crossed.
Holds(side, t) ==
  /\ Itm(side, t)
  /\ SecondsLeft <= 180 \/ TimePct >= 75
  /\ (IF t.gap < 0 THEN -t.gap ELSE t.gap) >= 100
  /\ Fair(side, t) >= 65 /\ Bid(side, t) < 95
  /\ side \notin t.against

-----------------------------------------------------------------------------
(* The ledger and the thesis                                               *)

\* The entry is noticed by the shares, on the tick after the buy.
Side ==
  IF entry_side # "none" THEN entry_side
  ELSE IF shares["UP"] > 0 THEN "UP" ELSE IF shares["DOWN"] > 0 THEN "DOWN" ELSE "none"
EntryAsk == IF entry_side = "none" /\ Side # "none" THEN pending_entry_ask ELSE entry_ask
Notice(t) ==
  /\ entry_side' = Side /\ entry_ask' = EntryAsk
  /\ protected' = {side \in Sides : Holds(side, t)}

Budget == Clamp((MinBudget * 85) \div 100, 100, MaxBudget)
Spent  == cost["UP"] + cost["DOWN"]

\* The ledger may refuse a buy the bank does not cover.
Buy(side, amount, price) ==
  \/ /\ shares' = [shares EXCEPT ![side] = @ + (amount * 100) \div price]
     /\ bought' = [bought EXCEPT ![side] = @ + (amount * 100) \div price]
     /\ cost' = [cost EXCEPT ![side] = @ + amount]
     /\ UNCHANGED returned
  \/ UNCHANGED ledger

Sell(amounts, t) ==
  /\ shares' = [side \in Sides |-> shares[side] - amounts[side]]
  /\ returned' = [side \in Sides |-> returned[side] + (amounts[side] * Bid(side, t)) \div 100]
  /\ UNCHANGED <<bought, cost>>

-----------------------------------------------------------------------------
(* The last 12% of the window                                              *)

Final == TimePct >= 88 \/ SecondsLeft <= 25

\* What is likely to lose, or cannot be judged, goes, once; crumbs stay.
Dumped(t) ==
  {side \in Sides : /\ ~emergency_sold
                    /\ shares[side] > 0 /\ Bid(side, t) >= 5
                    /\ ~Holds(side, t)
                    /\ ~(Itm(side, t) /\ Fair(side, t) >= 35)
                    /\ ~(t.known /\ ~Itm(side, t) /\ Bid(side, t) < 8 /\ Fair(side, t) < 8)}

EmergencyExit(t) ==
  /\ Final
  /\ Sell([side \in Sides |-> IF side \in Dumped(t) THEN shares[side] ELSE 0], t)
  /\ emergency_sold' = TRUE
  /\ Notice(t)
  /\ UNCHANGED <<now, pending_entry_ask, initial_entry_shares, sell_steps_done,
                 thesis_locked, released>>

-----------------------------------------------------------------------------
(* The entry                                                               *)

CheapSide(t) ==
  IF Mids("UP", t) < Mids("DOWN", t) THEN "UP"
  ELSE IF Mids("DOWN", t) < Mids("UP", t) THEN "DOWN" ELSE "none"

EntryDue(t) ==
  LET side == CheapSide(t) IN
  /\ ~Final
  /\ Side = "none" /\ Spent = 0
  /\ TimePct >= 8 /\ TimePct <= 65 /\ SecondsLeft >= 120
  /\ ~t.chop
  /\ side # "none"
  /\ Ask(side, t) > 0 /\ Ask(side, t) <= 48 /\ Mids(Other(side), t) <= 124
  /\ t.known /\ t.gap >= -55 /\ t.gap <= 55
  /\ side \notin t.against
  /\ Fair(side, t) - Ask(side, t) >= 4

\* The ask is remembered at the signal: a refused entry is signalled again.
Enter(t) ==
  /\ EntryDue(t)
  /\ Buy(CheapSide(t), Budget, Ask(CheapSide(t), t))
  /\ pending_entry_ask' = Ask(CheapSide(t), t)
  /\ Notice(t)
  /\ UNCHANGED <<now, initial_entry_shares, sell_steps_done, thesis_locked,
                 emergency_sold, released>>

-----------------------------------------------------------------------------
(* The grid                                                                *)

Managing == ~Final /\ Side # "none" /\ shares[Side] > 0
Initial  == IF initial_entry_shares > 0 THEN initial_entry_shares ELSE shares[Side]

\* The thesis is locked while the spot and a clear lead confirm it, and stays
\* locked until the spot leaves.
Locked(t) ==
  \/ thesis_locked /\ (t.known => Itm(Side, t))
  \/ Itm(Side, t) /\ Mids(Side, t) - Mids(Other(Side), t) >= 30

Target(deltas) ==
  Clamp(EntryAsk + deltas[sell_steps_done + 1] - (IF TimePct > 75 THEN 2 ELSE 0), 5, 99)

\* cap_sell_with_runner_floor
Capped(amount, t) ==
  IF Locked(t) \/ TimePct >= 75 THEN amount
  ELSE Least(amount, Most(shares[Side] - (Initial * 35) \div 100, 0))
GridAmount(t) ==
  Capped(Most((shares[Side] * GridPart[sell_steps_done + 1]) \div 100, 1), t)

GridSells(t, deltas) ==
  /\ sell_steps_done < 3
  /\ Bid(Side, t) >= Target(deltas)
  /\ Locked(t) => sell_steps_done = 2
  /\ sell_steps_done > 0 => Bid(Side, t) - Fair(Side, t) >= 5
  /\ GridAmount(t) > 0

Manage(t, deltas) ==
  /\ Managing
  /\ initial_entry_shares' = Initial
  /\ Notice(t)
  /\ \/ /\ Holds(Side, t)
        /\ UNCHANGED <<ledger, sell_steps_done, thesis_locked, released>>
     \/ /\ ~Holds(Side, t) /\ ~GridSells(t, deltas)
        /\ thesis_locked' = Locked(t)
        /\ UNCHANGED <<ledger, sell_steps_done, released>>
     \/ /\ ~Holds(Side, t) /\ GridSells(t, deltas)
        /\ thesis_locked' = Locked(t)
        /\ Sell([side \in Sides |-> IF side = Side THEN GridAmount(t) ELSE 0], t)
        /\ sell_steps_done' = sell_steps_done + 1
        /\ released' = (released \/ Locked(t))
  /\ UNCHANGED <<now, pending_entry_ask, emergency_sold>>

Watch(t) ==
  /\ ~Final /\ ~Managing /\ ~EntryDue(t)
  /\ Notice(t)
  /\ UNCHANGED <<now, ledger, pending_entry_ask, initial_entry_shares, sell_steps_done,
                 thesis_locked, emergency_sold, released>>

Next ==
  \/ Pass
  \/ \E t \in Ticks : EmergencyExit(t) \/ Enter(t) \/ Watch(t)
                        \/ \E deltas \in GridDeltas : Manage(t, deltas)

Spec == Init /\ [][Next]_vars

-----------------------------------------------------------------------------
(* Properties                                                              *)

TypeOK ==
  /\ now \in Moments
  /\ shares \in [Sides -> Nat] /\ bought \in [Sides -> Nat]
  /\ cost \in [Sides -> Nat] /\ returned \in [Sides -> Nat]
  /\ entry_side \in Sides \cup {"none"}
  /\ entry_ask \in 0 .. 48 /\ pending_entry_ask \in 0 .. 48
  /\ initial_entry_shares \in Nat /\ sell_steps_done \in 0 .. 3
  /\ thesis_locked \in BOOLEAN /\ emergency_sold \in BOOLEAN
  /\ protected \subseteq Sides /\ released \in BOOLEAN

\* One entry in all, though it is noticed by its shares only a tick later and those
\* may all be sold again: one side, within the budget.
OneEntry == Spent <= Budget /\ (cost["UP"] = 0 \/ cost["DOWN"] = 0)

\* What the grid sold returned what it had cost (a cent of rounding for each sale),
\* though the ask it starts from may be that of another signal.
GridPays ==
  emergency_sold \/
    \A side \in Sides :
      cost[side] * (bought[side] - shares[side]) <= (returned[side] + 4) * bought[side]

\* Until the last quarter the grid leaves a runner of 35% of the entry, unless it
\* sold under the lock, which waives the floor.
RunnerKept ==
  (TimePct < 75 /\ Spent > 0 /\ ~released) =>
    \A side \in Sides : 100 * shares[side] >= 34 * bought[side]

\* What the rule for redemption protects is not sold, by the grid or at the end.
ProtectedStays == \A side \in protected' : shares'[side] >= shares[side]

-----------------------------------------------------------------------------
(* What the steps preserve together                                        *)

\* Without an entry there is nothing to notice, to sell or to have sold.
NothingYet ==
  /\ \A side \in Sides : /\ shares[side] <= bought[side]
                         /\ cost[side] = 0 => bought[side] = 0
  /\ Spent = 0 => entry_side = "none" /\ initial_entry_shares = 0 /\ sell_steps_done = 0

\* The last sales come in the last quarter.
SoldLate == emergency_sold => TimePct >= 75

\* Noticed or not, the ask the grid starts from is the one the entry paid, the shares
\* it keeps a part of are those of the entry, and its sales pay (a cent of rounding
\* for each).
Paid == IF entry_side = "none" THEN pending_entry_ask ELSE entry_ask
EntryKept(side) ==
  /\ Paid \in 1 .. 48
  /\ cost[side] = Budget /\ bought[side] = (Budget * 100) \div Paid
  /\ entry_side \in {"none", side}
  /\ entry_side = "none" => shares[side] = bought[side]
  /\ initial_entry_shares \in {0, bought[side]}
  /\ initial_entry_shares = 0 => shares[side] = bought[side]
  /\ cost[side] * (bought[side] - shares[side]) <= (returned[side] + sell_steps_done) * bought[side]

GridInv ==
  /\ TypeOK /\ OneEntry /\ RunnerKept /\ NothingYet /\ SoldLate
  /\ \A side \in Sides : (cost[side] > 0 /\ ~emergency_sold) => EntryKept(side)
=============================================================================
