----------------------------- MODULE JStrategy -----------------------------
(***************************************************************************)
(* One window traded by strategy J on paper: JEndgameStrategy of src/src/  *)
(* strategy/strategy_j.rs on top of the ledger.  A market tick plans a     *)
(* sequence of signals against one snapshot of the window; they are then   *)
(* executed one after the other, each filled or rejected by the paper      *)
(* executor, and only a filled one is notified to the strategy.            *)
(***************************************************************************)
EXTENDS JPlanner, FiniteSets, Functions

CONSTANTS
  Bank,        \* cash when the window goes LIVE
  WindowSecs,  \* seconds of the window the model runs through
  ArmedAt,     \* secs to end at which the mid-cross tracker arms
  MaxCross,    \* bound of the model on counted crosses
  MaxOutside,  \* what the settlement of an earlier window returns, once
  WatchWindow  \* FALSE leaves the history variable alone

W == 1
ASSUME JStrategyAssumption ==
  /\ Bank \in Nat /\ WindowSecs \in Nat /\ MaxCross \in Nat /\ MaxOutside \in Nat
  /\ ArmedAt \in Nat /\ WatchWindow \in BOOLEAN

VARIABLES
  jw,        \* windows[W], the strategy's JWindowState
  pos,       \* the window in the ledger: [spent, returned, shares]
  cash,      \* available_cash of the ledger
  secs,      \* seconds to the end of the window
  crosses,   \* [cross, sig, last]: what the mid-cross tracker has counted
  signals,   \* planned signals that are not executed yet
  outside,   \* history: cash that came from other windows
  paid,      \* history: dollars and shares bought on the primary side
  unmet      \* history: what sales were released at and did not return

trading == <<jw, pos, cash, signals>>
history == <<outside, paid, unmet>>
vars == <<jw, pos, cash, secs, crosses, signals, history>>

EmptyWindow == [spent |-> 0, returned |-> 0, shares |-> [a \in Sides |-> 0]]

JInit ==
  /\ jw = NewState
  /\ pos = EmptyWindow
  /\ cash = Bank
  /\ secs = WindowSecs
  /\ crosses = [cross |-> 0, sig |-> 0, last |-> FALSE]
  /\ signals = <<>>
  /\ outside = 0
  /\ paid = [usd |-> 0, shares |-> 0]
  /\ unmet = 0

-----------------------------------------------------------------------------
(* Environment                                                             *)

Second ==
  /\ signals = <<>>
  /\ secs > 0
  /\ secs' = secs - 1
  /\ UNCHANGED <<trading, crosses, history>>

\* The tracker counts a cross, a significant one or not.
Cross ==
  /\ signals = <<>>
  /\ crosses.cross < MaxCross
  /\ \E sig \in {0, 1} : crosses' = [cross |-> crosses.cross + 1,
                                     sig   |-> crosses.sig + sig,
                                     last  |-> sig = 1]
  /\ UNCHANGED <<trading, secs, history>>

\* An earlier window settles: its redemption raises the cash of this one.
OtherWindowSettles ==
  /\ signals = <<>>
  /\ outside < MaxOutside
  /\ cash' = cash + MaxOutside
  /\ outside' = MaxOutside
  /\ UNCHANGED <<jw, pos, secs, crosses, signals, paid, unmet>>

-----------------------------------------------------------------------------
(* The strategy                                                            *)

Armed == secs <= ArmedAt

\* What the tick leaves in the window state before anything is planned.
Seen(t) ==
  LET taken == Snapshot(jw, crosses, InEndgame(Phase(secs, Armed)))
  IN  IF WinnerSide(t) = "NONE" THEN taken ELSE Latched(taken, crosses)

\* process_live_tick.
Tick ==
  /\ signals = <<>>
  /\ secs > 0
  /\ \E t \in Ticks :
       LET s == Seen(t)
           planned == IF WinnerSide(t) = "NONE" THEN <<>>
                      ELSE Signals(s, pos, t, crosses, secs, Armed, cash)
       IN  /\ jw' = s
           /\ signals' = planned
  /\ UNCHANGED <<pos, cash, secs, crosses, history>>

\* execute_j_paper_buy: at the best ask, a dollar at least, with the cash.
PaperBuys(sig) ==
  sig.amount >= Unit /\ sig.price > 0 /\ sig.best > 0 /\ cash >= sig.amount
Bought(sig) == sig.amount \div sig.best

\* execute_j_paper_sell: at the best bid, a dollar at least, shares in hand.
PaperSells(sig) ==
  /\ sig.amount > 0 /\ sig.best > 0
  /\ sig.amount * sig.best >= Unit
  /\ pos.shares[sig.side] > 0

FillBuy(sig) ==
  /\ sig.op = "BUY" /\ PaperBuys(sig)
  /\ cash' = cash - sig.amount
  /\ pos' = [pos EXCEPT !.spent = @ + sig.amount,
                        !.shares[sig.side] = @ + Bought(sig)]
  /\ jw' = Booked(jw, sig, secs)
  /\ paid' = IF WatchWindow /\ Booked(jw, sig, secs).primary = sig.side
             THEN [usd |-> paid.usd + sig.amount, shares |-> paid.shares + Bought(sig)]
             ELSE paid
  /\ UNCHANGED unmet

\* The ledger gets the best bid, the buckets are released by the signal's quote.
FillSell(sig) ==
  LET sold  == Lesser(sig.amount, pos.shares[sig.side])
      value == sold * sig.best
  IN  /\ sig.op = "SELL" /\ PaperSells(sig)
      /\ cash' = cash + value
      /\ pos' = [pos EXCEPT !.returned = @ + value, !.shares[sig.side] = @ - sold]
      /\ jw' = Released(jw, sig.amount * sig.price)
      /\ unmet' = unmet + Greater(sig.amount * sig.price - value, 0)
      /\ UNCHANGED paid

Rejected(sig) ==
  /\ IF sig.op = "BUY" THEN ~PaperBuys(sig) ELSE ~PaperSells(sig)
  /\ UNCHANGED <<jw, pos, cash, paid, unmet>>

\* execute_strategy_signals, one signal of the tick; a rejected one is logged
\* and the loop goes on.
Execute ==
  /\ signals # <<>>
  /\ LET sig == Head(signals) IN FillBuy(sig) \/ FillSell(sig) \/ Rejected(sig)
  /\ signals' = Tail(signals)
  /\ UNCHANGED <<secs, crosses, outside>>

JNext == Second \/ Cross \/ OtherWindowSettles \/ Tick \/ Execute

JSpec == JInit /\ [][JNext]_vars

-----------------------------------------------------------------------------
(* Properties                                                              *)

Counts  == [cross : Nat, sig : Nat]
Crosses == [cross : Nat, sig : Nat, last : BOOLEAN]
JWindowStates ==
  [rescue : 0..J.max_rescue, hedge : 0..J.flip_tier_max,
   reload : 0..J.discount_reload_max, reload_clips : 0..J.discount_reload_max_clips,
   clips : Nat, primary : Sides \cup {"NONE"}, last_buy : -1..WindowSecs,
   sell_done : BOOLEAN, blocked : BOOLEAN, snapshot : Seq(Counts)]
Orders ==
  [op : {"BUY"}, tier : PrimaryTiers \cup {"FlipHedge"},
   side : Sides, amount : Nat, price : Nat, best : Nat]
  \cup [op : {"SELL"}, tier : {"SellRescue"},
        side : Sides, amount : Nat, price : Nat, best : Nat]

\* The range of the strategy's state and of the window: however many ticks plan,
\* and however clips and sales are executed, the three buckets stay below their
\* caps, no share is sold twice and the cash never goes below zero.
JTypeOK ==
  /\ jw \in JWindowStates
  /\ pos \in [spent : Nat, returned : Nat, shares : [Sides -> Nat]]
  /\ cash \in Nat /\ secs \in 0..WindowSecs
  /\ crosses \in Crosses /\ signals \in Seq(Orders)
  /\ unmet \in Nat

\* Outside the defensive hedge the window never risks more than max_window,
\* counting what sales returned (rescue_budget works on the net risk).
NetRiskBounded == NetRisk(pos) <= J.max_window + jw.hedge

\* The buckets follow what the ledger has at risk, and the one thing that takes them
\* below it is a sale filled under the quote it was released at: what the strategy
\* believes it has deployed misses exactly that difference, and whatever else
\* happens (rejections, several clips, a sale released past the bucket) nothing more.
BucketsCoverRisk == pos.spent - pos.returned <= jw.rescue + jw.hedge + unmet

\* Both bounds: what one window may lose, in the ledger (also after the buckets were
\* released by too much) and in the strategy's mind.
RiskBounded == NetRiskBounded /\ BucketsCoverRisk

IsSale(sig)    == sig.op = "SELL"
IsPrimary(sig) == sig.op = "BUY" /\ sig.tier \in PrimaryTiers
IsHedge(sig)   == sig.op = "BUY" /\ sig.tier = "FlipHedge"

\* A planned sale is the first of its tick and the only one of its window, and the
\* shares it sells are in hand.
SalesCovered(queue, s, p) ==
  \A i \in DOMAIN queue : IsSale(queue[i]) =>
    /\ i = 1 /\ ~s.sell_done
    /\ queue[i].side = s.primary
    /\ queue[i].amount <= p.shares[queue[i].side]

\* A directional clip planned with the cash of the tick is never rejected for
\* want of cash when its turn comes, after the sale of the same tick.
PrimaryAffordable(queue, money) ==
  \A i \in DOMAIN queue : IsPrimary(queue[i]) => queue[i].amount <= money

\* When its turn comes it still fits every cap it was planned under: it is the one
\* buy of its tick, of a window that is not halted, long enough after the last one.
PrimaryFits(queue, s, p, now) ==
  \A i \in DOMAIN queue : IsPrimary(queue[i]) =>
    /\ \A j \in DOMAIN queue : j # i => IsSale(queue[j])
    /\ ~s.blocked
    /\ s.rescue + queue[i].amount <= J.max_rescue
    /\ queue[i].price \in DOMAIN J.tail_cap
    /\ s.rescue + queue[i].amount <= J.tail_cap[queue[i].price]
    /\ NetRisk(p) + queue[i].amount <= J.max_window
    /\ s.last_buy >= 0 => s.last_buy - now >= J.min_buy_interval
    /\ queue[i].tier = "DiscountReload" =>
         /\ s.reload + queue[i].amount <= J.discount_reload_max
         /\ s.reload_clips < J.discount_reload_max_clips

\* The clips of a hedge are alike, and those still to be executed fit its tier.
HedgesFit(queue, s) ==
  \A i \in DOMAIN queue : IsHedge(queue[i]) =>
    /\ s.primary # "NONE"
    /\ \A j \in DOMAIN queue : IsSale(queue[j]) \/ queue[j] = queue[i]
    /\ s.hedge + ((Len(queue) + 1) - i) * queue[i].amount <= J.flip_tier_max

\* A tick plans against one snapshot and its signals are executed one by one; all
\* the same, whatever is still to be executed fits what is left when it is.
PlannedFits ==
  /\ SalesCovered(signals, jw, pos)
  /\ PrimaryAffordable(signals, cash)
  /\ PrimaryFits(signals, jw, pos, secs)
  /\ HedgesFit(signals, jw)

PrimaryBuy == jw'.rescue > jw.rescue

\* README.md: primary buys are hard-capped by the ask of the winner.  After every
\* one the exposure is within the cap of the ask it was planned at; and two are
\* min_buy_interval apart, whatever ticks and rejections come in between.
BuysKeepRules ==
  [][PrimaryBuy =>
       /\ jw'.rescue <= J.tail_cap[Head(signals).price]
       /\ jw.last_buy >= 0 => jw.last_buy - secs >= J.min_buy_interval]_vars

\* The strategy, its planner and the paper executor together keep what module
\* WindowBudget promises of the money in a window.
Budget == INSTANCE WindowBudget WITH
  MaxDeployed <- J.max_rescue, MaxHedged <- J.flip_tier_max,
  deployed <- jw.rescue, hedged <- jw.hedge, committed <- jw.primary # "NONE",
  cut <- jw.sell_done, halted <- jw.blocked
KeepsBudget == Budget!Spec

\* README.md: a reload buys lower than the average of the primary side by at
\* least discountReloadMinDrop.  (The code divides mixed and released exposure.)
ReloadBelowAverage ==
  [][jw'.reload_clips > jw.reload_clips =>
       (Head(signals).price + J.discount_reload_min_drop) * paid.shares <= paid.usd]_vars
=============================================================================
