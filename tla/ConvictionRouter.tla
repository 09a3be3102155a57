--------------------------- MODULE ConvictionRouter ---------------------------
(***************************************************************************)
(* Strategy E (dynamic_grid_e) of src/src/strategy/strategy_e.rs on the    *)
(* CURRENT window: three tranches on one conviction, a trim when the spot  *)
(* crosses the price to beat, a hedge when the pair is cheap, a grid of    *)
(* partial sales, the hold for redemption and the last sales.              *)
(*                                                                         *)
(* Time is in quarters of a minute, prices and dollars in cents, shares in *)
(* hundredths, the gap of the spot to the price to beat in hundredths of   *)
(* the move expected to the end.                                           *)
(***************************************************************************)
EXTENDS Integers, Sequences, FiniteSets

CONSTANTS
  Duration,   \* of a window
  Moments,    \* times at which ticks come
  Books,      \* books a tick may show: [ask : [Sides -> cents], bid : ...]
  Gaps,       \* gaps a tick may show
  MinBudget, MaxBudget \* session: of a window

RouterAssumption ==
  /\ Duration \in Nat \ {0} /\ Moments \subseteq 0 .. Duration /\ 0 \in Moments
  /\ Books \subseteq [bid : [{"UP", "DOWN"} -> 0 .. 100], ask : [{"UP", "DOWN"} -> 0 .. 100]]
  /\ Gaps \subseteq Int
  /\ MinBudget \in Nat /\ MaxBudget \in Nat /\ MaxBudget >= 100

VARIABLES
  now,
  shares, bought, cost,  \* of the window in the ledger, by side
  conviction_side, buy_tranches_done, sell_steps_done, last_spot_itm,
  last_buy, ptb_trim_count, last_trim, emergency_sold,
  ptb_baseline, ptb_crossed, last_grid_target,
  protected             \* history: the sides kept for redemption on this tick

ledger  == <<shares, bought, cost>>
crosses == <<ptb_baseline, ptb_crossed>>
buying  == <<buy_tranches_done, last_buy>>
selling == <<sell_steps_done, last_grid_target>>
trims   == <<ptb_trim_count, last_trim>>
vars    == <<now, ledger, crosses, buying, selling, trims,
             conviction_side, last_spot_itm, emergency_sold, protected>>

Sides == {"UP", "DOWN"}
Other(side) == CHOOSE s \in Sides : s # side
Never == -1

TranchePct  == <<12, 30, 50>>
TranchePart == <<40, 35, 25>>
GridDelta   == <<8, 14, 22>>
GridPart    == <<30, 30, 25>>

Least(a, b) == IF a <= b THEN a ELSE b
Most(a, b)  == IF a >= b THEN a ELSE b
Clamp(a, low, high) == Most(low, Least(a, high))

Init ==
  /\ now = 0
  /\ shares = [side \in Sides |-> 0] /\ bought = shares /\ cost = shares
  /\ conviction_side = "none" /\ last_spot_itm = "none"
  /\ buy_tranches_done = 0 /\ sell_steps_done = 0
  /\ last_buy = Never /\ last_trim = Never /\ ptb_trim_count = 0
  /\ emergency_sold = FALSE
  /\ ptb_baseline = "none" /\ ptb_crossed = FALSE
  /\ last_grid_target = 0 /\ protected = {}

Pass ==
  /\ now' \in Moments /\ now' > now
  /\ protected' = {}
  /\ UNCHANGED <<ledger, crosses, buying, selling, trims,
                 conviction_side, last_spot_itm, emergency_sold>>

TimePct == (now * 100) \div Duration

-----------------------------------------------------------------------------
(* What a tick shows                                                       *)

\* fair_probability_up, the drift of the velocity left out.
FairUp(gap) ==
  IF gap >= 100 THEN 93 ELSE IF gap >= 20 THEN 62 ELSE IF gap > 0 THEN 53
  ELSE IF gap = 0 THEN 50 ELSE IF gap > -20 THEN 47 ELSE IF gap > -100 THEN 38 ELSE 7
FairOf(gap) == [side \in Sides |-> IF side = "UP" THEN FairUp(gap) ELSE 100 - FairUp(gap)]

\* The side with the better mid leads (both mids doubled).
Mids(side, book) == book.bid[side] + book.ask[side]
Lead(book)    == IF Mids("UP", book) >= Mids("DOWN", book) THEN "UP" ELSE "DOWN"
LeadGap(book) == (Mids(Lead(book), book) - Mids(Other(Lead(book)), book)) \div 2

\* conviction_score, in millionths: the gap, the lead, the chance to win and the
\* exchange, in this order of weight.
Score(side, book, gap, against) ==
  4000 * (IF side = "UP" THEN gap ELSE -gap)
  + (IF side = Lead(book) THEN 1500 ELSE -875) * LeadGap(book)
  + 2000 * (FairOf(gap)[side] - 50)
  + (IF against = {} THEN 0 ELSE IF side \in against THEN -25000 ELSE 25000)

Convinces(side, book, gap, against) ==
  LET score == Score(side, book, gap, against) IN
  score >= 140000 /\ score - Score(Other(side), book, gap, against) >= 80000
FreshConviction(book, gap, against) ==
  IF Convinces("UP", book, gap, against) THEN "UP"
  ELSE IF Convinces("DOWN", book, gap, against) THEN "DOWN" ELSE "none"

\* flow: whether the lead just crossed, or crosses too often; against: the sides
\* against which the exchange, or the spot, is moving.
Ticks ==
  {[bid |-> book.bid, ask |-> book.ask, gap |-> gap, flow |-> flow, against |-> against,
    lead |-> Lead(book), fair |-> FairOf(gap), fresh |-> FreshConviction(book, gap, against)] :
     book \in Books, gap \in Gaps, flow \in {"calm", "cross", "chop"},
     against \in {{}, {"UP"}, {"DOWN"}}}

Itm(side, t) == IF side = "UP" THEN t.gap > 0 ELSE t.gap < 0
Relation(t)  == IF t.gap > 0 THEN "above" ELSE IF t.gap < 0 THEN "below" ELSE "none"

\* update_e_ptb_cross: the first relation is the baseline, any other a cross.
Crossed(t) ==
  ptb_crossed \/ (ptb_baseline # "none" /\ Relation(t) # "none" /\ Relation(t) # ptb_baseline)
SeeSpot(t) ==
  /\ ptb_baseline' = IF ptb_baseline = "none" THEN Relation(t) ELSE ptb_baseline
  /\ ptb_crossed' = Crossed(t)

\* evaluate_redeem_hold: late, deep in the money without a cross, likely to win,
\* not running back, and not yet bid near par.
Holds(side, t) ==
  /\ Itm(side, t) /\ ~Crossed(t)
  /\ t.fair[side] >= 65
  /\ t.bid[side] < 95
  /\ Duration - now <= 12 \/ TimePct >= 75
  /\ (IF t.gap < 0 THEN -t.gap ELSE t.gap) >= 100
  /\ side \notin t.against

-----------------------------------------------------------------------------
(* The thesis and the money                                                *)

\* primary_position_side: the conviction's if it is held, else the larger.
Held ==
  IF conviction_side # "none" /\ shares[conviction_side] > 0 THEN conviction_side
  ELSE IF shares["UP"] = 0 /\ shares["DOWN"] = 0 THEN "none"
  ELSE IF shares["UP"] >= shares["DOWN"] THEN "UP" ELSE "DOWN"

\* A fresh conviction counts only if nothing else is held.
Conviction(t) ==
  IF t.fresh # "none" /\ Held \in {"none", t.fresh}
  THEN t.fresh
  ELSE IF conviction_side = "none" THEN Held ELSE conviction_side

Budget    == Clamp((MinBudget * 90) \div 100, 100, MaxBudget)
Spent     == cost["UP"] + cost["DOWN"]
Remaining == Most(Budget - Spent, 0)

\* The ledger refuses a buy at no price, and may refuse one the bank does not cover.
Buy(side, amount, t) ==
  \/ /\ t.ask[side] > 0
     /\ shares' = [shares EXCEPT ![side] = @ + (amount * 100) \div t.ask[side]]
     /\ bought' = [bought EXCEPT ![side] = @ + (amount * 100) \div t.ask[side]]
     /\ cost' = [cost EXCEPT ![side] = @ + amount]
  \/ UNCHANGED ledger

Sell(amounts) ==
  /\ shares' = [side \in Sides |-> shares[side] - Least(amounts[side], shares[side])]
  /\ UNCHANGED <<bought, cost>>
SellSide(side, amount) == Sell([s \in Sides |-> IF s = side THEN amount ELSE 0])

-----------------------------------------------------------------------------
(* The last 12% of the window                                              *)

Final == TimePct >= 88 \/ 60 * (Duration - now) <= 100

\* faulty variant of Dumped: the hold is not asked
DumpedAnyway(t) ==
  {side \in Sides : /\ ~emergency_sold /\ shares[side] > 0 /\ t.bid[side] >= 5
                    /\ t.fair[side] < 95}

\* Everything likely to lose that is bid for goes, once.
Dumped(t) ==
  {side \in Sides : /\ ~emergency_sold
                    /\ shares[side] > 0 /\ t.bid[side] >= 5
                    /\ ~Holds(side, t)
                    /\ ~(Itm(side, t) /\ t.fair[side] >= 35)}

EmergencyExit(t) ==
  /\ Final
  /\ Sell([side \in Sides |-> IF side \in Dumped(t) THEN shares[side] ELSE 0])
  /\ emergency_sold' = (emergency_sold \/ Dumped(t) # {})
  /\ SeeSpot(t)
  /\ UNCHANGED <<now, buying, selling, trims, conviction_side, last_spot_itm>>

-----------------------------------------------------------------------------
(* Entries                                                                 *)

CheapSide(t) ==
  LET cheap == {side \in Sides : t.ask[side] > 0 /\ t.ask[side] <= 50} IN
  IF cheap = {} THEN "none"
  ELSE IF cheap = Sides
       THEN IF t.ask["UP"] <= t.ask["DOWN"] THEN "UP" ELSE "DOWN"
       ELSE CHOOSE side \in Sides : side \in cheap

\* pick_entry_side: the new leader after a cross, or the side the spot is on,
\* while it is not dear; else the cheap side.
Reaches(side, t) == t.ask[side] > 0 /\ t.ask[side] <= 58
Directional(t)   == IF t.gap >= 5 THEN "UP" ELSE IF t.gap <= -5 THEN "DOWN" ELSE "none"
EntryPick(t) ==
  IF buy_tranches_done > 0 THEN <<CheapSide(t), "value">>
  ELSE IF t.flow = "cross" /\ Reaches(t.lead, t) THEN <<t.lead, "cross">>
  ELSE IF Directional(t) # "none" /\ Reaches(Directional(t), t) THEN <<Directional(t), "cross">>
  ELSE <<CheapSide(t), "value">>

\* No more of a side for two minutes after it was trimmed.
TrimBlocks(side, t) ==
  ptb_trim_count > 0 /\ now - last_trim < 8 /\ Conviction(t) = side

EntryTime(t) ==
  /\ TimePct >= 8 /\ TimePct <= 62
  /\ t.flow = "chop" => TimePct >= 40
  /\ buy_tranches_done < Len(TranchePct)
  /\ TimePct >= TranchePct[buy_tranches_done + 1]
  /\ last_buy = Never \/ now - last_buy >= 3
  /\ Remaining >= 100

Enters(t) ==
  LET side == EntryPick(t)[1] kind == EntryPick(t)[2] IN
  /\ EntryTime(t)
  /\ side # "none" /\ Held \in {"none", side}
  /\ t.gap >= -60 /\ t.gap <= 60
  /\ IF side = "UP" THEN t.gap >= -10 ELSE t.gap <= 10
  /\ ~TrimBlocks(side, t)
  /\ t.fair[side] - t.ask[side] >= IF kind = "value" THEN 2 ELSE 4
  /\ side \notin t.against

Tranche(t) ==
  LET side == EntryPick(t)[1]
      part == (Budget * TranchePart[buy_tranches_done + 1]) \div 100
  IN
  /\ ~Final /\ Enters(t)
  /\ Buy(side, Clamp(part, 100, Remaining), t)
  /\ conviction_side' = side
  /\ buy_tranches_done' = buy_tranches_done + 1
  /\ last_buy' = now
  /\ SeeSpot(t)
  /\ UNCHANGED <<now, selling, trims, last_spot_itm, emergency_sold>>

-----------------------------------------------------------------------------
(* The management of what is held                                          *)

Manages(t) == ~Final /\ ~Enters(t)
Holding(t) == Conviction(t) # "none" /\ shares[Conviction(t)] > 0

\* The spot fell back through the price to beat: a third goes, once.
Trims(t) ==
  LET side == Conviction(t) IN
  /\ Holding(t)
  /\ last_spot_itm = "yes" /\ ~Itm(side, t)
  /\ ptb_trim_count < 1
  /\ t.bid[side] >= 10
Trim(t) ==
  LET side == Conviction(t) IN
  /\ Manages(t) /\ Trims(t)
  /\ SellSide(side, Most((shares[side] * 30) \div 100, 1))
  /\ ptb_trim_count' = ptb_trim_count + 1 /\ last_trim' = now
  /\ last_spot_itm' = "no"
  /\ conviction_side' = side
  /\ SeeSpot(t)
  /\ UNCHANGED <<now, buying, selling, emergency_sold>>

HedgesAnyway(t) == \* faulty variant of Hedges: the budget is not asked
  LET side == Conviction(t) IN
  /\ t.ask["UP"] + t.ask["DOWN"] <= 90 /\ t.ask[Other(side)] <= 38
  /\ ~Itm(side, t) /\ shares[Other(side)] = 0

\* The thesis is losing and the pair is cheap: a little of the other side.
Hedges(t) ==
  LET side == Conviction(t) IN
  /\ t.ask["UP"] + t.ask["DOWN"] <= 90 /\ t.ask[Other(side)] <= 38
  /\ ~Itm(side, t) /\ shares[Other(side)] = 0
  /\ Spent + 300 <= Budget /\ Remaining >= 300
Hedge(t) ==
  /\ Manages(t) /\ Holding(t) /\ ~Trims(t) /\ ~Holds(Conviction(t), t) /\ Hedges(t)
  /\ Buy(Other(Conviction(t)), 300, t)
  /\ conviction_side' = Conviction(t)
  /\ SeeSpot(t)
  /\ UNCHANGED <<now, buying, selling, trims, last_spot_itm, emergency_sold>>

\* The next target: over the average paid for three steps, then over the last.
EntryAvg(side) == (cost[side] * 100) \div bought[side]
Target(side) ==
  IF sell_steps_done < Len(GridDelta)
  THEN Clamp(EntryAvg(side) + GridDelta[sell_steps_done + 1], 5, 99)
  ELSE Clamp(last_grid_target + 6, 5, 98)
Part == IF sell_steps_done < Len(GridPart) THEN GridPart[sell_steps_done + 1] ELSE 20

\* capped_grid_sell: before the last quarter a part of what is held stays.
GridAmount(side) ==
  LET part == Most((shares[side] * Part) \div 100, 1) IN
  IF TimePct < 75 THEN Least(part, shares[side] - (shares[side] * 40) \div 100) ELSE part

GridSells(t) ==
  LET side == Conviction(t) IN
  /\ Holding(t) /\ ~Holds(side, t)
  /\ t.bid[side] - t.fair[side] >= 4
  /\ t.bid[side] >= Target(side)
  /\ GridAmount(side) >= 1
GridSale(t) ==
  LET side == Conviction(t) IN
  /\ Manages(t) /\ ~Trims(t) /\ ~(Holding(t) /\ Hedges(t) /\ ~Holds(side, t)) /\ GridSells(t)
  /\ SellSide(side, GridAmount(side))
  /\ sell_steps_done' = sell_steps_done + 1
  /\ last_grid_target' = Target(side)
  /\ last_spot_itm' = IF Itm(side, t) THEN "yes" ELSE "no"
  /\ conviction_side' = side
  /\ SeeSpot(t)
  /\ UNCHANGED <<now, buying, trims, emergency_sold>>

\* Nothing to do but to remember the side the spot is on.
Watch(t) ==
  LET side == Conviction(t) IN
  /\ Manages(t) /\ ~Trims(t) /\ ~GridSells(t)
  /\ ~(Holding(t) /\ Hedges(t) /\ ~Holds(side, t))
  /\ last_spot_itm' = IF ~Holding(t) THEN last_spot_itm
                      ELSE IF Itm(side, t) THEN "yes" ELSE "no"
  /\ conviction_side' = side
  /\ SeeSpot(t)
  /\ UNCHANGED <<now, ledger, buying, selling, trims, emergency_sold>>

Tick(t) ==
  /\ protected' = {side \in Sides : Holds(side, t)}
  /\ \/ EmergencyExit(t) \/ Tranche(t) \/ Trim(t) \/ Hedge(t) \/ GridSale(t) \/ Watch(t)
Next == Pass \/ \E t \in Ticks : Tick(t)

Spec == Init /\ [][Next]_vars

-----------------------------------------------------------------------------
(* Properties                                                              *)

TypeOK ==
  /\ now \in Moments
  /\ shares \in [Sides -> Nat] /\ bought \in [Sides -> Nat] /\ cost \in [Sides -> Nat]
  /\ conviction_side \in Sides \cup {"none"}
  /\ last_spot_itm \in {"none", "yes", "no"}
  /\ buy_tranches_done \in 0 .. 3 /\ sell_steps_done \in Nat
  /\ ptb_trim_count \in 0 .. 1 /\ last_trim \in Moments \cup {Never}
  /\ last_buy \in Moments \cup {Never}
  /\ emergency_sold \in BOOLEAN /\ ptb_crossed \in BOOLEAN
  /\ ptb_baseline \in {"none", "above", "below"}
  /\ last_grid_target \in 0 .. 99 /\ protected \subseteq Sides

\* Tranches and hedge together never take more than the budget of the window,
\* though each looks at it on its own.
BudgetHeld == Spent <= Budget

\* A step does not change a thesis that is held for the other side, whatever the spot
\* says meanwhile: what is trimmed, hedged and sold is what was bought.
ThesisStays ==
  (conviction_side # "none" /\ shares[conviction_side] > 0)
    => conviction_side' = conviction_side

\* A step buys nothing of a thesis that is held and was trimmed less than two minutes
\* ago, though the block asks for the conviction of the tick and not for what was
\* trimmed: while it is held, they are the same.
NoReentryAfterTrim ==
  (/\ conviction_side # "none" /\ shares[conviction_side] > 0
   /\ ptb_trim_count > 0 /\ now - last_trim < 8)
    => bought'[conviction_side] = bought[conviction_side]

\* In a step, what the rule for redemption protects is not sold, by any of the three rules
\* that sell.
ProtectedStays == \A side \in protected' : shares'[side] >= shares[side]

-----------------------------------------------------------------------------
(* What the steps preserve together                                        *)

\* What is held was bought, so that it has an average price.
HeldWasBought == \A side \in Sides : shares[side] <= bought[side]

RouterInv == TypeOK /\ BudgetHeld /\ HeldWasBought
=============================================================================
