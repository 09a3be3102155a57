-------------------------- MODULE JStrategy_proofs --------------------------
(***************************************************************************)
(* Theorems about one window of strategy J, for every configuration that   *)
(* PlannerAssumption admits, every set of ticks, any bank and any length   *)
(* of the window.                                                          *)
(***************************************************************************)
EXTENDS JStrategy, TLAPS

(* The extremes of two amounts and the arithmetic of percentages and clips, *)
(* stated once for the provers.                                             *)

\* Amount times price, as in the value of a sale, is an amount.
LEMMA TimesNat == \A a, b \in Nat : a * b \in Nat
  OBVIOUS

\* What a buy of execute_j_paper_buy gets for its dollars is a number of shares.
LEMMA DivNat == \A a, b \in Nat : b > 0 => a \div b \in Nat
  OBVIOUS

\* A clip that goes into a budget n times costs no more than the budget.
LEMMA QuotientFits ==
  ASSUME NEW budget \in Nat, NEW clip \in Nat, clip > 0
  PROVE  (budget \div clip) * clip <= budget
  OBVIOUS

\* More clips of one size cost more.
LEMMA TimesMonotone ==
  ASSUME NEW m \in Nat, NEW n \in Nat, NEW a \in Nat, m <= n
  PROVE  m * a <= n * a
  OBVIOUS

\* The clips still to come cost no more than all of them.
LEMMA RestFits ==
  ASSUME NEW h \in Nat, NEW k \in Nat, NEW n \in Nat, NEW a \in Nat, NEW limit \in Nat,
         k <= n, h + n * a <= limit
  PROVE  h + k * a <= limit
  <1>1. k * a <= n * a
    BY TimesMonotone
  <1>2. k * a \in Nat /\ n * a \in Nat
    BY TimesNat
  <1> QED BY <1>1, <1>2

\* What fits next to x fits next to a smaller y.
LEMMA StillFits ==
  ASSUME NEW x \in Int, NEW y \in Int, NEW a \in Int, NEW limit \in Int,
         y <= x, x + a <= limit
  PROVE  y + a <= limit
  OBVIOUS

\* What is left of an amount.
LEMMA RemainderOf ==
  ASSUME NEW a \in Nat, NEW b \in Nat \ {0}
  PROVE  a % b \in 0..a
  BY SMTT(30)

\* sell_percent of the shares held are shares held.
LEMMA PercentOfShares ==
  ASSUME NEW n \in Nat, NEW percent \in 0..100
  PROVE  (n * percent) \div 100 \in 0..n
  OBVIOUS

-----------------------------------------------------------------------------
(* The planner: what a plan may claim                                       *)

Positions == [spent : Nat, returned : Nat, shares : [Sides -> Nat]]

\* The configured amounts as naturals, one by one.
LEMMA Amounts ==
  /\ Unit \in Nat /\ Unit > 0 /\ J.probe_clip \in Nat /\ J.probe_clip > 0
  /\ J.first_clip \in Nat /\ J.max_clip \in Nat /\ J.flip_clip \in Nat
  /\ J.discount_reload_clip \in Nat /\ J.max_rescue \in Nat
  /\ J.max_window \in Nat /\ J.session_max \in Nat /\ J.target_profit \in Nat
  /\ J.flip_tier \in Nat /\ J.flip_ratio \in Nat /\ J.flip_tier_max \in Nat
  /\ J.flip_sweep \in Nat /\ J.discount_reload_max \in Nat
  /\ J.discount_reload_max_clips \in Nat /\ J.min_buy_interval \in Nat
  /\ J.sell_percent \in 0..100
  BY PlannerAssumption

LEMMA CapsAreAmounts ==
  J.max_rescue \in Int /\ J.max_window \in Int /\ J.discount_reload_max \in Int
  BY Amounts

\* The fields of a window state.
LEMMA StateType ==
  ASSUME NEW s \in JWindowStates
  PROVE  /\ s.rescue \in Nat /\ s.rescue <= J.max_rescue
         /\ s.hedge \in Nat /\ s.hedge <= J.flip_tier_max
         /\ s.reload \in Nat /\ s.reload <= J.discount_reload_max
         /\ s.reload_clips \in Nat /\ s.reload_clips <= J.discount_reload_max_clips
         /\ s.primary \in Sides \cup {"NONE"} /\ s.last_buy \in -1..WindowSecs
         /\ s.sell_done \in BOOLEAN /\ s.blocked \in BOOLEAN
         /\ s.snapshot \in Seq(Counts) /\ s.clips \in Nat
  BY Amounts DEF JWindowStates

\* What a tick shows, with the winner that market_winner_side reads off it.
LEMMA TickType ==
  ASSUME NEW t \in Ticks
  PROVE  /\ t.gap \in Int /\ t.vel \in Int /\ t.want \in Int
         /\ t.ask \in [Sides -> Nat] /\ t.bid \in [Sides -> Nat]
         /\ t.book_ask \in [Sides -> Nat] /\ t.book_bid \in [Sides -> Nat]
         /\ t.depth \in Nat
         /\ WinnerSide(t) \in Sides \cup {"NONE"}
  BY TicksAssumption DEF WinnerSide, Sides

\* book_or_top_ask, book_or_top_bid: a price, and a real one when the quote is real.
LEMMA BestPrice ==
  ASSUME NEW level \in Nat, NEW top \in Nat
  PROVE  Best(level, top) \in Nat /\ (top > 0 => Best(level, top) > 0)
  BY DEF Best

\* tail_risk_cap_usd: an ask outside the table is capped at zero.
LEMMA TailCapType ==
  ASSUME NEW ask \in Nat
  PROVE  /\ TailCap(ask) \in Nat
         /\ TailCap(ask) > 0 =>
              ask \in DOMAIN J.tail_cap /\ TailCap(ask) = J.tail_cap[ask]
  BY PlannerAssumption DEF TailCap

\* tail_cut_exposure_cap_usd: chop only ever lowers the cap of an ask.
LEMMA ExposureCapBound ==
  ASSUME NEW ask \in Nat, NEW x, NEW base \in Int
  PROVE  ExposureCap(ask, x, base) \in Int /\ ExposureCap(ask, x, base) <= base
  <1> DEFINE clip == Greater(Greater(J.first_clip, J.probe_clip), Unit)
  <1>1. clip \in Int
    BY Amounts DEF Greater
  <1>2. 2 * clip \in Int
    BY <1>1
  <1>3. /\ Lesser(base, clip) \in Int /\ Lesser(base, clip) <= base
        /\ Lesser(base, 2 * clip) \in Int /\ Lesser(base, 2 * clip) <= base
    BY <1>1, <1>2 DEF Lesser
  <1> QED BY <1>3 DEF ExposureCap

\* rescue_budget_left: what is left of the window, of the session's limit, of the
\* rescue tier and of the cash.
LEMMA RescueBudgetBound ==
  ASSUME NEW s \in JWindowStates, NEW p \in Positions, NEW c \in Nat
  PROVE  /\ RescueBudget(s, p, c) \in Int
         /\ RescueBudget(s, p, c) <= c
         /\ s.rescue + RescueBudget(s, p, c) <= J.max_rescue
         /\ RescueBudget(s, p, c) > 0 =>
              NetRisk(p) + RescueBudget(s, p, c) <= J.max_window
  <1>1. NetRisk(p) \in Int
    BY DEF NetRisk, Positions, Greater
  <1>2. /\ WindowLeft(p) \in Int
        /\ WindowLeft(p) > 0 => WindowLeft(p) = J.max_window - NetRisk(p)
    BY <1>1, Amounts DEF WindowLeft, Greater
  <1> DEFINE capped == IF J.session_max > 0 THEN Lesser(WindowLeft(p), J.session_max)
                                            ELSE WindowLeft(p)
  <1>3. capped \in Int /\ capped <= WindowLeft(p)
    BY <1>2, Amounts DEF Lesser
  <1>4. s.rescue \in Int /\ J.max_rescue - s.rescue \in Int
    BY StateType, CapsAreAmounts, SMTT(30)
  <1>5. /\ BudgetOf(s, p, c) \in Int
        /\ BudgetOf(s, p, c) <= capped
        /\ BudgetOf(s, p, c) <= J.max_rescue - s.rescue
    BY <1>3, <1>4 DEF BudgetOf, Lesser
  <1>6. /\ RescueBudget(s, p, c) \in Int
        /\ RescueBudget(s, p, c) <= BudgetOf(s, p, c)
        /\ RescueBudget(s, p, c) <= c
    BY <1>5 DEF RescueBudget, Lesser
  <1> HIDE DEF capped
  <1> QED BY <1>1, <1>2, <1>3, <1>4, <1>5, <1>6, Amounts

\* What the gates and the executor may rely on when they are handed a plan.
PlanFits(s, p, c, plan) ==
  /\ plan.tier \in PrimaryTiers \cup {"FlipHedge"}
  /\ plan.side \in Sides /\ plan.ask \in Nat /\ plan.sweep \in Nat
  /\ plan.clip \in Nat /\ plan.budget \in Nat
  /\ 0 < plan.clip /\ plan.clip <= plan.budget
  /\ plan.tier = "FlipHedge" =>
       s.primary # "NONE" /\ s.hedge + plan.budget <= J.flip_tier_max
  /\ plan.tier \in PrimaryTiers =>
       /\ plan.sweep = 1 /\ ~s.blocked
       /\ plan.ask \in DOMAIN J.tail_cap
       /\ plan.clip <= c
       /\ s.rescue + plan.clip <= J.max_rescue
       /\ s.rescue + plan.clip <= J.tail_cap[plan.ask]
       /\ NetRisk(p) + plan.clip <= J.max_window
  /\ plan.tier = "DiscountReload" =>
       /\ s.reload + plan.clip <= J.discount_reload_max
       /\ s.reload_clips < J.discount_reload_max_clips

\* plan_flip_hedge_rescue: nothing, or clips on the other side within its tier.
LEMMA HedgePlan ==
  ASSUME NEW s \in JWindowStates, NEW p \in Positions, NEW c \in Nat,
         NEW t \in Ticks, NEW x, FlipHedge(s, t, x) # NoPlan
  PROVE  \E plan : FlipHedge(s, t, x) = <<plan>> /\ PlanFits(s, p, c, plan)
  <1> DEFINE side == Opposite(s.primary)
             left == HedgeLeft(s)
             clip == Lesser(Greater(J.flip_clip, J.probe_clip), left)
             plan == [tier |-> "FlipHedge", side |-> side, ask |-> t.ask[side],
                      budget |-> left, sweep |-> J.flip_sweep, clip |-> clip]
  <1>1. /\ FlipHedge(s, t, x) = <<plan>>
        /\ FlipTriggered(s, t, x) /\ left >= J.probe_clip
    BY DEF FlipHedge, NoPlan
  <1>2. side \in Sides /\ t.ask[side] \in Nat
    BY TickType DEF Opposite, Sides
  <1>3. s.primary # "NONE"
    BY <1>1 DEF FlipTriggered, HasPrimary
  <1>4. s.hedge \in Nat /\ s.rescue \in Nat
    BY StateType
  <1>5. (Exposure(s) * J.flip_ratio) \div 100 \in Nat
    BY <1>4, Amounts, TimesNat, DivNat DEF Exposure
  <1>6. HedgeCap(s) \in Int /\ HedgeCap(s) <= J.flip_tier_max
    BY <1>5, Amounts DEF HedgeCap, Lesser, Greater
  <1>7. left \in Int /\ s.hedge + left <= J.flip_tier_max
    BY <1>4, <1>6, Amounts DEF HedgeLeft
  <1>8. clip \in Int /\ clip <= left /\ clip > 0
    <2>1. /\ Greater(J.flip_clip, J.probe_clip) \in Int
          /\ Greater(J.flip_clip, J.probe_clip) >= J.probe_clip
      BY Amounts DEF Greater
    <2> HIDE DEF left
    <2> QED BY <2>1, <1>1, <1>7, Amounts DEF Lesser
  <1>9. PlanFits(s, p, c, plan)
    <2> HIDE DEF left, clip, side
    <2> QED BY <1>1, <1>2, <1>3, <1>4, <1>7, <1>8, Amounts DEF PlanFits, PrimaryTiers
  <1> QED BY <1>1, <1>9

\* plan_discount_reload: nothing, or one clip on the thesis within every budget.
LEMMA ReloadPlan ==
  ASSUME NEW s \in JWindowStates, NEW p \in Positions, NEW c \in Nat,
         NEW t \in Ticks, NEW x, DirectionalAllowed(s, t),
         DiscountReload(s, p, t, x, c) # NoPlan
  PROVE  \E plan : DiscountReload(s, p, t, x, c) = <<plan>> /\ PlanFits(s, p, c, plan)
  <1> DEFINE ask   == t.ask[s.primary]
             cap   == ExposureCap(ask, x, TailCap(ask))
             room  == Lesser(RescueBudget(s, p, c), cap - s.rescue)
             left  == Lesser(room, J.discount_reload_max - s.reload)
             clip  == Lesser(Greater(J.discount_reload_clip, J.probe_clip), left)
             plan  == [tier |-> "DiscountReload", side |-> s.primary, ask |-> ask,
                       budget |-> left, sweep |-> 1, clip |-> clip]
  <1>0. /\ s.rescue \in Nat /\ s.reload \in Nat /\ NetRisk(p) \in Int
        /\ RescueBudget(s, p, c) \in Int /\ RescueBudget(s, p, c) <= c
        /\ s.rescue + RescueBudget(s, p, c) <= J.max_rescue
        /\ RescueBudget(s, p, c) > 0 =>
             NetRisk(p) + RescueBudget(s, p, c) <= J.max_window
    <2>1. NetRisk(p) \in Int
      BY DEF NetRisk, Positions, Greater
    <2> QED BY <2>1, StateType, RescueBudgetBound
  <1>1. /\ DiscountReload(s, p, t, x, c) = <<plan>>
        /\ HasPrimary(s) /\ s.reload_clips < J.discount_reload_max_clips
        /\ left >= J.probe_clip
    BY DEF DiscountReload, NoPlan
  <1>2. s.primary \in Sides /\ ask \in Nat
    BY <1>1, TickType, StateType DEF HasPrimary
  <1>3. /\ cap \in Int /\ cap <= TailCap(ask) /\ TailCap(ask) \in Nat
    BY <1>2, TailCapType, ExposureCapBound
  <1>4. room \in Int /\ room <= RescueBudget(s, p, c) /\ s.rescue + room <= cap
    <2> HIDE DEF cap
    <2> QED BY <1>0, <1>3 DEF Lesser
  <1>5. left \in Int /\ left <= room /\ s.reload + left <= J.discount_reload_max
    <2> HIDE DEF room
    <2>1. J.discount_reload_max - s.reload \in Int
      BY <1>0, Amounts
    <2> QED BY <2>1, <1>0, <1>4, Amounts DEF Lesser
  <1>6. clip \in Int /\ clip <= left /\ clip > 0
    <2>1. /\ Greater(J.discount_reload_clip, J.probe_clip) \in Int
          /\ Greater(J.discount_reload_clip, J.probe_clip) >= J.probe_clip
      BY Amounts DEF Greater
    <2> HIDE DEF left
    <2> QED BY <2>1, <1>1, <1>5, Amounts DEF Lesser
  <1>7. ask \in DOMAIN J.tail_cap /\ TailCap(ask) = J.tail_cap[ask]
    <2> HIDE DEF cap, room, left, clip, ask
    <2>1. TailCap(ask) > 0
      BY <1>0, <1>3, <1>4, <1>5, <1>6
    <2> QED BY <2>1, <1>2, TailCapType
  <1>8. /\ clip <= c /\ s.rescue + clip <= J.max_rescue
        /\ NetRisk(p) + clip <= J.max_window
    <2> HIDE DEF cap, room, left, clip, ask
    <2> QED BY <1>0, <1>4, <1>5, <1>6, Amounts
  <1>9. PlanFits(s, p, c, plan)
    <2>1. ~s.blocked
      BY DEF DirectionalAllowed
    <2> HIDE DEF cap, room, left, clip, ask
    <2>2. s.rescue + clip <= J.tail_cap[ask] /\ s.reload + clip <= J.discount_reload_max
      BY <1>0, <1>3, <1>4, <1>5, <1>6, <1>7, Amounts
    <2> QED BY <2>1, <2>2, <1>1, <1>2, <1>5, <1>6, <1>7, <1>8 DEF PlanFits, PrimaryTiers
  <1> QED BY <1>1, <1>9

\* The composite engine: nothing, or one clip on the winner within every budget.
LEMMA CompositePlan ==
  ASSUME NEW s \in JWindowStates, NEW p \in Positions, NEW c \in Nat,
         NEW t \in Ticks, NEW x, WinnerSide(t) # "NONE", DirectionalAllowed(s, t),
         Composite(s, p, t, x, c) # NoPlan
  PROVE  \E plan : Composite(s, p, t, x, c) = <<plan>> /\ PlanFits(s, p, c, plan)
  <1> DEFINE side == WinnerSide(t)
             ask  == t.ask[side]
             cap  == ExposureCap(ask, x, Lesser(TailCap(ask), J.max_rescue))
             left == RescueBudget(s, p, c)
             deployed == p.spent > 0 \/ \E a \in Sides : p.shares[a] > 0
             gain == IF deployed /\ (s.primary = side \/ p.shares[side] > 0)
                     THEN ToTarget(p, side, ask) ELSE 0
             target == Lesser(Greater(Wanted(t), s.rescue + gain), cap)
             increment == Lesser(Greater(target - s.rescue, 0), left)
             clip == Lesser(increment, MaxClip(s, t))
             plan == [tier |-> "FinalSeal", side |-> side, ask |-> ask, sweep |-> 1,
                      budget |-> clip, clip |-> clip]
  <1>0. /\ s.rescue \in Nat /\ s.reload \in Nat /\ NetRisk(p) \in Int
        /\ RescueBudget(s, p, c) \in Int /\ RescueBudget(s, p, c) <= c
        /\ s.rescue + RescueBudget(s, p, c) <= J.max_rescue
        /\ RescueBudget(s, p, c) > 0 =>
             NetRisk(p) + RescueBudget(s, p, c) <= J.max_window
    <2>1. NetRisk(p) \in Int
      BY DEF NetRisk, Positions, Greater
    <2> QED BY <2>1, StateType, RescueBudgetBound
  <1>1. /\ Composite(s, p, t, x, c) = <<plan>>
        /\ s.rescue < cap /\ increment >= J.probe_clip
    BY DEF Composite, NoPlan
  <1>2. side \in Sides /\ ask \in Nat
    BY TickType
  <1>3. /\ cap \in Int /\ cap <= TailCap(ask) /\ TailCap(ask) \in Nat
    <2>1. TailCap(ask) \in Nat
      BY <1>2, TailCapType
    <2>2. /\ Lesser(TailCap(ask), J.max_rescue) \in Int
          /\ Lesser(TailCap(ask), J.max_rescue) <= TailCap(ask)
      BY <2>1, Amounts DEF Lesser
    <2> QED BY <1>2, <2>1, <2>2, ExposureCapBound
  <1>4. ask \in DOMAIN J.tail_cap /\ TailCap(ask) = J.tail_cap[ask]
    <2> HIDE DEF cap, ask
    <2>1. TailCap(ask) > 0
      BY <1>0, <1>1, <1>3
    <2> QED BY <1>2, <2>1, TailCapType
  <1>5. gain \in Int
    <2>1. Redeem(p, side) \in Int
      BY <1>2, Amounts DEF Redeem, Positions
    <2>2. ToTarget(p, side, ask) \in Int
      BY <1>2, <2>1, Amounts DEF ToTarget
    <2> QED BY <2>2
  <1>6. target \in Int /\ target <= cap
    <2>1. Wanted(t) \in Int
      BY TickType, Amounts DEF Wanted, Greater
    <2> HIDE DEF cap, gain
    <2>2. Greater(Wanted(t), s.rescue + gain) \in Int
      BY <2>1, <1>5, StateType DEF Greater
    <2> QED BY <2>2, <1>3 DEF Lesser
  <1>7. /\ increment \in Int /\ increment <= left /\ increment > 0
        /\ s.rescue + increment <= cap
    <2> HIDE DEF cap, target, left
    <2>1. left \in Int
      BY <1>0 DEF left
    <2>2. /\ Greater(target - s.rescue, 0) \in Int
          /\ Greater(target - s.rescue, 0) = target - s.rescue \/ Greater(target - s.rescue, 0) = 0
      BY <1>6, StateType DEF Greater
    <2> QED BY <2>1, <2>2, <1>0, <1>1, <1>3, <1>6, Amounts DEF Lesser
  <1>8. clip \in Int /\ clip <= increment /\ clip > 0
    <2> HIDE DEF increment
    <2>1. MaxClip(s, t) \in Int /\ MaxClip(s, t) >= J.probe_clip
      BY Amounts DEF MaxClip, Greater
    <2> QED BY <2>1, <1>7, Amounts DEF Lesser
  <1>9. /\ clip <= c /\ s.rescue + clip <= J.max_rescue
        /\ s.rescue + clip <= J.tail_cap[ask]
        /\ NetRisk(p) + clip <= J.max_window
    <2> HIDE DEF cap, increment, clip, ask
    <2> QED BY <1>0, <1>3, <1>4, <1>7, <1>8, Amounts
  <1>10. PlanFits(s, p, c, plan)
    <2>1. ~s.blocked
      BY DEF DirectionalAllowed
    <2> HIDE DEF clip, ask, side
    <2> QED BY <2>1, <1>2, <1>4, <1>8, <1>9, <1>7 DEF PlanFits, PrimaryTiers
  <1> QED BY <1>1, <1>10

\* plan_j_window: whichever engine plans, the plan fits what is left.
LEMMA PlanShape ==
  ASSUME NEW s \in JWindowStates, NEW p \in Positions, NEW c \in Nat,
         NEW t \in Ticks, NEW x, NEW now, NEW armed, WinnerSide(t) # "NONE",
         Plan(s, p, t, x, now, armed, c) # NoPlan
  PROVE  \E plan : /\ Plan(s, p, t, x, now, armed, c) = <<plan>>
                   /\ PlanFits(s, p, c, plan)
  <1>1. CASE FlipHedge(s, t, x) # NoPlan
    BY <1>1, HedgePlan DEF Plan
  <1>2. CASE FlipHedge(s, t, x) = NoPlan
    <2>1. DirectionalAllowed(s, t)
      BY <1>2 DEF Plan
    <2>2. CASE DiscountReload(s, p, t, x, c) # NoPlan
      BY <1>2, <2>1, <2>2, ReloadPlan DEF Plan
    <2>3. CASE DiscountReload(s, p, t, x, c) = NoPlan
      <3>1. Plan(s, p, t, x, now, armed, c) = Composite(s, p, t, x, c)
        BY <1>2, <2>1, <2>3 DEF Plan
      <3> QED BY <3>1, <2>1, CompositePlan
    <2> QED BY <2>2, <2>3
  <1> QED BY <1>1, <1>2

\* sweep_endgame_clips: equal clips of no more than the plan's, as many as the
\* budget covers.
LEMMA ClipsShape ==
  ASSUME NEW s, NEW p, NEW c, NEW plan, PlanFits(s, p, c, plan), NEW t \in Ticks,
         Clips(plan, t) # <<>>
  PROVE  \E n \in Nat, buy \in Orders :
           /\ Clips(plan, t) = [i \in 1..n |-> buy]
           /\ buy.op = "BUY" /\ buy.tier = plan.tier /\ buy.side = plan.side
           /\ buy.price = plan.ask /\ buy.amount <= plan.clip
           /\ n <= plan.sweep /\ n * buy.amount <= plan.budget
  <1> DEFINE best == Best(t.book_ask[plan.side], plan.ask)
             usd  == Whole(plan.clip, best)
             buy  == [op |-> "BUY", tier |-> plan.tier, side |-> plan.side,
                      amount |-> usd, price |-> plan.ask, best |-> best]
             n    == SweepCount(plan, t)
  <1>1. /\ Clips(plan, t) = [i \in 1..n |-> buy]
        /\ plan.ask > 0
    BY DEF Clips
  <1>2. /\ plan.clip \in Nat /\ plan.clip > 0 /\ plan.ask \in Nat
        /\ plan.budget \in Nat /\ plan.sweep \in Nat /\ t.depth \in Nat
        /\ plan.tier \in PrimaryTiers \cup {"FlipHedge"} /\ plan.side \in Sides
    BY TickType DEF PlanFits
  <1>8. best \in Nat /\ best > 0
    <2>1. t.book_ask[plan.side] \in Nat
      BY <1>2, TickType
    <2> QED BY <1>1, <1>2, <2>1, BestPrice
  <1> HIDE DEF best
  <1>3. usd \in Nat /\ usd <= plan.clip
    <2>1. plan.clip % best \in 0..plan.clip
      BY <1>2, <1>8, RemainderOf
    <2> QED BY <2>1, <1>2 DEF Whole
  <1>4. /\ plan.budget \div plan.clip \in Nat /\ t.depth \div plan.clip \in Nat
    BY <1>2, DivNat
  <1>5. n \in Nat /\ n <= plan.sweep /\ n <= plan.budget \div plan.clip
    <2>1. /\ Payable(plan) \in Nat
          /\ Payable(plan) <= plan.sweep /\ Payable(plan) <= plan.budget \div plan.clip
      BY <1>2, <1>4 DEF Payable, Lesser
    <2> QED BY <1>2, <1>4, <2>1 DEF SweepCount, Lesser
  <1>6. n * usd <= plan.budget
    <2> HIDE DEF n, usd
    <2>1. n * plan.clip <= (plan.budget \div plan.clip) * plan.clip
      BY <1>2, <1>4, <1>5, TimesMonotone
    <2>2. (plan.budget \div plan.clip) * plan.clip <= plan.budget
      BY <1>2, QuotientFits
    <2>3. usd * n <= plan.clip * n
      BY <1>2, <1>3, <1>5, TimesMonotone
    <2>4. usd * n = n * usd /\ plan.clip * n = n * plan.clip
      BY <1>2, <1>3, <1>5
    <2>5. /\ n * plan.clip \in Nat /\ n * usd \in Nat
          /\ (plan.budget \div plan.clip) * plan.clip \in Nat
      BY <1>2, <1>3, <1>4, <1>5, TimesNat
    <2> QED BY <2>1, <2>2, <2>3, <2>4, <2>5, <1>2
  <1>7. buy \in Orders
    BY <1>2, <1>3, <1>8 DEF Orders
  <1> HIDE DEF n, usd
  <1> QED BY <1>1, <1>3, <1>5, <1>6, <1>7

\* plan_sell_rescue_signal and its two siblings: nothing, or one sale of shares in
\* hand on the thesis of a window that sold nothing yet.
LEMMA SaleShape ==
  ASSUME NEW s \in JWindowStates, NEW p \in Positions, NEW t \in Ticks,
         NEW x, NEW now, SellPlan(s, p, t, x, now) # <<>>
  PROVE  \E sale \in Orders :
           /\ SellPlan(s, p, t, x, now) = <<sale>>
           /\ sale.op = "SELL" /\ ~s.sell_done /\ sale.side = s.primary
           /\ sale.amount <= p.shares[sale.side]
  <1>1. PICK percent \in {J.sell_percent, TailPercent} :
          /\ SellPlan(s, p, t, x, now) = <<SellOrder(s, p, t, percent)>>
          /\ MaySell(s, p, t, percent)
    BY DEF SellPlan, RescueSells, FlipSells, TailSells
  <1>2. percent \in 0..100
    <2>1. TailPercent \in 0..100
      BY Amounts DEF TailPercent, Lesser
    <2> QED BY <2>1, Amounts
  <1>3. ~s.sell_done /\ s.primary \in Sides
    BY <1>1, StateType DEF MaySell, SalePays, HasPrimary
  <1>4. p.shares[s.primary] \in Nat /\ t.bid[s.primary] \in Nat
    BY <1>3, TickType DEF Positions
  <1>5. SoldShares(s, p, percent) \in 0..p.shares[s.primary]
    BY <1>2, <1>4, PercentOfShares DEF SoldShares
  <1>6. SoldShares(s, p, percent) \in Nat /\ SoldShares(s, p, percent) <= p.shares[s.primary]
    BY <1>4, <1>5
  <1>7. SellOrder(s, p, t, percent) \in Orders
    <2> DEFINE best == Best(t.book_bid[s.primary], t.bid[s.primary])
    <2>1. t.book_bid[s.primary] \in Nat
      BY <1>3, TickType
    <2>2. best \in Nat
      BY <1>4, <2>1, BestPrice
    <2> HIDE DEF best
    <2>3. SellOrder(s, p, t, percent)
            = [op |-> "SELL", tier |-> "SellRescue", side |-> s.primary,
               amount |-> SoldShares(s, p, percent), price |-> t.bid[s.primary],
               best |-> best]
      BY DEF SellOrder, best
    <2> QED BY <1>3, <1>4, <1>6, <2>2, <2>3 DEF Orders
  <1> QED BY <1>1, <1>3, <1>6, <1>7 DEF SellOrder

\* What one clip of a tick needs, n of them in a row, to fit when it is executed.
ClipFits(buy, n, s, p, c, now) ==
  /\ buy \in Orders /\ buy.op = "BUY"
  /\ buy.tier \in PrimaryTiers =>
       /\ n <= 1 /\ ~s.blocked /\ buy.amount <= c
       /\ s.rescue + buy.amount <= J.max_rescue
       /\ buy.price \in DOMAIN J.tail_cap
       /\ s.rescue + buy.amount <= J.tail_cap[buy.price]
       /\ NetRisk(p) + buy.amount <= J.max_window
       /\ s.last_buy >= 0 => s.last_buy - now >= J.min_buy_interval
       /\ buy.tier = "DiscountReload" =>
            /\ s.reload + buy.amount <= J.discount_reload_max
            /\ s.reload_clips < J.discount_reload_max_clips
  /\ buy.tier = "FlipHedge" =>
       s.primary # "NONE" /\ s.hedge + n * buy.amount <= J.flip_tier_max

SaleFits(sale, s, p) ==
  /\ sale \in Orders /\ sale.op = "SELL" /\ ~s.sell_done
  /\ sale.side = s.primary /\ sale.amount <= p.shares[sale.side]

QueueFits(queue, s, p, c, now) ==
  /\ queue \in Seq(Orders)
  /\ SalesCovered(queue, s, p) /\ PrimaryAffordable(queue, c)
  /\ PrimaryFits(queue, s, p, now) /\ HedgesFit(queue, s)

\* A queue of m sales and n equal clips that fit each, fits as a whole.
LEMMA SalesThenClips ==
  ASSUME NEW s \in JWindowStates, NEW p \in Positions, NEW c \in Nat, NEW now \in Nat,
         NEW queue \in Seq(Orders), NEW m \in 0..1, NEW n \in Nat, NEW sale, NEW buy,
         Len(queue) = m + n,
         m = 1 => queue[1] = sale /\ SaleFits(sale, s, p),
         \A i \in DOMAIN queue : i > m => queue[i] = buy,
         n > 0 => ClipFits(buy, n, s, p, c, now)
  PROVE  QueueFits(queue, s, p, c, now)
  <1>1. DOMAIN queue = 1..(m + n)
    OBVIOUS
  <1>2. ASSUME NEW i \in DOMAIN queue
        PROVE  \/ i = 1 /\ m = 1 /\ queue[i] = sale /\ SaleFits(sale, s, p)
               \/ i > m /\ n > 0 /\ queue[i] = buy /\ ClipFits(buy, n, s, p, c, now)
    <2>1. i \in Nat /\ i >= 1 /\ i <= m + n
      BY <1>1
    <2>2. CASE i <= m
      BY <2>1, <2>2
    <2>3. CASE i > m
      BY <2>1, <2>3
    <2> QED BY <2>1, <2>2, <2>3
  <1>3. SalesCovered(queue, s, p)
    BY <1>2 DEF SalesCovered, IsSale, SaleFits, ClipFits
  <1>4. PrimaryAffordable(queue, c)
    BY <1>2 DEF PrimaryAffordable, IsPrimary, SaleFits, ClipFits
  <1>5. PrimaryFits(queue, s, p, now)
    <2> SUFFICES ASSUME NEW i \in DOMAIN queue, IsPrimary(queue[i])
                 PROVE  PrimaryFits(queue, s, p, now)!(i)!2
      BY DEF PrimaryFits
    <2>1. /\ i > m /\ n > 0 /\ queue[i] = buy /\ ClipFits(buy, n, s, p, c, now)
          /\ buy.tier \in PrimaryTiers
      BY <1>2 DEF IsPrimary, SaleFits
    <2>2. n = 1
      BY <2>1 DEF ClipFits
    <2>3. ASSUME NEW j \in DOMAIN queue, j # i
          PROVE  IsSale(queue[j])
      <3>1. i = m + 1 /\ j <= m
        BY <1>1, <2>1, <2>2, <2>3
      <3> QED BY <3>1, <1>2 DEF SaleFits, IsSale
    <2> QED BY <2>1, <2>3 DEF ClipFits
  <1>6. HedgesFit(queue, s)
    <2> SUFFICES ASSUME NEW i \in DOMAIN queue, IsHedge(queue[i])
                 PROVE  /\ s.primary # "NONE"
                        /\ \A j \in DOMAIN queue : IsSale(queue[j]) \/ queue[j] = queue[i]
                        /\ s.hedge + ((Len(queue) + 1) - i) * queue[i].amount
                             <= J.flip_tier_max
      BY DEF HedgesFit
    <2>1. /\ i > m /\ queue[i] = buy /\ ClipFits(buy, n, s, p, c, now)
          /\ buy.tier = "FlipHedge"
      BY <1>2 DEF IsHedge, SaleFits
    <2>2. ASSUME NEW j \in DOMAIN queue
          PROVE  IsSale(queue[j]) \/ queue[j] = queue[i]
      BY <1>2, <2>1 DEF SaleFits, IsSale
    <2>3. (Len(queue) + 1) - i \in Nat /\ (Len(queue) + 1) - i <= n
      BY <1>1, <2>1
    <2>4. buy.amount \in Nat /\ s.hedge \in Nat
      BY <2>1, StateType DEF ClipFits, Orders
    <2>7. s.primary # "NONE" /\ s.hedge + n * buy.amount <= J.flip_tier_max
      BY <2>1 DEF ClipFits
    <2>8. s.hedge + ((Len(queue) + 1) - i) * buy.amount <= J.flip_tier_max
      <3> DEFINE k == (Len(queue) + 1) - i
      <3>1. k \in Nat /\ k <= n
        BY <2>3
      <3>2. J.flip_tier_max \in Nat /\ s.hedge + n * buy.amount <= J.flip_tier_max
        BY <2>7, Amounts
      <3> HIDE DEF k
      <3>3. s.hedge + k * buy.amount <= J.flip_tier_max
        BY <3>1, <3>2, <2>4, RestFits
      <3> QED BY <3>3 DEF k
    <2> QED BY <2>1, <2>2, <2>7, <2>8
  <1> QED BY <1>3, <1>4, <1>5, <1>6 DEF QueueFits

\* process_live_tick from the plan on: whatever it returns fits what it read.
LEMMA SignalsFit ==
  ASSUME NEW s \in JWindowStates, NEW p \in Positions, NEW c \in Nat, NEW now \in Nat,
         NEW t \in Ticks, NEW x, NEW armed, WinnerSide(t) # "NONE"
  PROVE  QueueFits(Signals(s, p, t, x, now, armed, c), s, p, c, now)
  <1> DEFINE queue == Signals(s, p, t, x, now, armed, c)
             sell  == SellPlan(s, p, t, x, now)
  <1>1. \/ queue = <<>>
        \/ queue = sell
        \/ \E plan : /\ PlanFits(s, p, c, plan) /\ ~TooSoon(s, plan, now)
                     /\ queue = sell \o Clips(plan, t)
    <2>1. CASE Plan(s, p, t, x, now, armed, c) = NoPlan
      BY <2>1 DEF Signals
    <2>2. CASE Plan(s, p, t, x, now, armed, c) # NoPlan
      <3>1. PICK plan : /\ Plan(s, p, t, x, now, armed, c) = <<plan>>
                        /\ PlanFits(s, p, c, plan)
        BY <2>2, PlanShape
      <3>2. Plan(s, p, t, x, now, armed, c)[1] = plan
        BY <3>1
      <3> QED BY <3>1, <3>2, <2>2 DEF Signals
    <2> QED BY <2>1, <2>2
  <1>2. sell = <<>> \/ \E sale : sell = <<sale>> /\ SaleFits(sale, s, p)
    BY SaleShape DEF SaleFits
  <1>3. QueueFits(<<>>, s, p, c, now)
    BY DEF QueueFits, SalesCovered, PrimaryAffordable, PrimaryFits, HedgesFit
  <1>4. QueueFits(sell, s, p, c, now)
    <2>1. ASSUME NEW sale, SaleFits(sale, s, p)
          PROVE  QueueFits(<<sale>>, s, p, c, now)
      BY <2>1 DEF QueueFits, SalesCovered, PrimaryAffordable, PrimaryFits, HedgesFit,
                  SaleFits, IsSale, IsPrimary, IsHedge
    <2> HIDE DEF sell
    <2> QED BY <1>2, <1>3, <2>1
  <1>6. ASSUME NEW plan, PlanFits(s, p, c, plan), ~TooSoon(s, plan, now),
               queue = sell \o Clips(plan, t), Clips(plan, t) # <<>>
        PROVE  QueueFits(queue, s, p, c, now)
    <2>1. PICK n \in Nat, buy \in Orders :
            /\ Clips(plan, t) = [i \in 1..n |-> buy]
            /\ buy.op = "BUY" /\ buy.tier = plan.tier /\ buy.side = plan.side
            /\ buy.price = plan.ask /\ buy.amount <= plan.clip
            /\ n <= plan.sweep /\ n * buy.amount <= plan.budget
      BY <1>6, ClipsShape
    <2>2. ClipFits(buy, n, s, p, c, now)
      <3>1. /\ plan.clip \in Nat /\ plan.budget \in Nat /\ buy.amount \in Nat
            /\ buy.amount <= plan.clip /\ buy.tier = plan.tier /\ buy.price = plan.ask
            /\ n * buy.amount \in Nat
        BY <1>6, <2>1, TimesNat DEF PlanFits, Orders
      <3>2. /\ s.rescue \in Nat /\ s.hedge \in Nat /\ s.reload \in Nat
            /\ NetRisk(p) \in Int
        BY StateType DEF NetRisk, Greater, Positions
      <3>3. ASSUME buy.tier \in PrimaryTiers
            PROVE  /\ n <= 1 /\ ~s.blocked /\ buy.amount <= c
                   /\ s.rescue + buy.amount <= J.max_rescue
                   /\ buy.price \in DOMAIN J.tail_cap
                   /\ s.rescue + buy.amount <= J.tail_cap[buy.price]
                   /\ NetRisk(p) + buy.amount <= J.max_window
                   /\ s.last_buy >= 0 => s.last_buy - now >= J.min_buy_interval
        <4>1. /\ plan.sweep = 1 /\ ~s.blocked
              /\ plan.ask \in DOMAIN J.tail_cap
              /\ plan.clip <= c
              /\ s.rescue + plan.clip <= J.max_rescue
              /\ s.rescue + plan.clip <= J.tail_cap[plan.ask]
              /\ NetRisk(p) + plan.clip <= J.max_window
          BY <1>6, <3>1, <3>3 DEF PlanFits
        <4>2. J.tail_cap[plan.ask] \in Nat
          BY <4>1, PlannerAssumption
        <4>3. s.last_buy >= 0 => s.last_buy - now >= J.min_buy_interval
          <5>1. s.last_buy \in Int
            BY StateType, JStrategyAssumption
          <5> QED BY <5>1, <1>6, <3>1, <3>3, Amounts DEF TooSoon
        <4>4. n <= 1
          BY <2>1, <4>1
        <4> HIDE DEF queue, sell
        <4> QED BY <3>1, <3>2, <4>1, <4>2, <4>3, <4>4, Amounts
      <3>4. ASSUME buy.tier = "DiscountReload"
            PROVE  /\ s.reload + buy.amount <= J.discount_reload_max
                   /\ s.reload_clips < J.discount_reload_max_clips
        <4>1. /\ s.reload + plan.clip <= J.discount_reload_max
              /\ s.reload_clips < J.discount_reload_max_clips
          BY <1>6, <3>1, <3>4 DEF PlanFits
        <4> HIDE DEF queue, sell
        <4> QED BY <3>1, <3>2, <4>1, Amounts
      <3>5. ASSUME buy.tier = "FlipHedge"
            PROVE  s.primary # "NONE" /\ s.hedge + n * buy.amount <= J.flip_tier_max
        <4>1. s.primary # "NONE" /\ s.hedge + plan.budget <= J.flip_tier_max
          BY <1>6, <3>1, <3>5 DEF PlanFits
        <4> DEFINE all == n * buy.amount
        <4>2. all \in Nat /\ all <= plan.budget
          BY <2>1, <3>1
        <4> HIDE DEF queue, sell, all
        <4>3. s.hedge + all <= J.flip_tier_max
          BY <3>1, <3>2, <4>1, <4>2, Amounts
        <4> QED BY <4>1, <4>3 DEF all
      <3> HIDE DEF queue, sell
      <3> QED BY <2>1, <3>3, <3>4, <3>5 DEF ClipFits
    <2>3. Clips(plan, t) \in Seq(Orders) /\ Len(Clips(plan, t)) = n
      BY <2>1
    <2>4. CASE sell = <<>>
      <3> DEFINE clips == Clips(plan, t)
      <3>1. queue = clips
        BY <1>6, <2>3, <2>4
      <3>2. /\ clips \in Seq(Orders) /\ Len(clips) = 0 + n
            /\ \A i \in DOMAIN clips : i > 0 => clips[i] = buy
        BY <2>1, <2>3
      <3> HIDE DEF clips, queue, sell
      <3>3. QueueFits(clips, s, p, c, now)
        BY <2>2, <3>2, SalesThenClips
      <3> QED BY <3>1, <3>3
    <2>5. ASSUME NEW sale, sell = <<sale>>, SaleFits(sale, s, p)
          PROVE  QueueFits(queue, s, p, c, now)
      <3> DEFINE clips == Clips(plan, t)
      <3>1. sale \in Orders
        BY <2>5 DEF SaleFits
      <3>2. /\ queue \in Seq(Orders) /\ Len(queue) = 1 + n /\ queue[1] = sale
            /\ \A i \in DOMAIN queue : i > 1 => queue[i] = buy
        <4>1. queue = <<sale>> \o clips
          BY <1>6, <2>5
        <4>2. clips \in Seq(Orders) /\ Len(clips) = n /\ clips = [i \in 1..n |-> buy]
          BY <2>1, <2>3
        <4>3. <<sale>> \in Seq(Orders) /\ Len(<<sale>>) = 1
          BY <3>1
        <4> HIDE DEF clips, queue, sell
        <4> QED BY <4>1, <4>2, <4>3
      <3> HIDE DEF clips, queue, sell
      <3> QED BY <2>2, <2>5, <3>2, SalesThenClips
    <2> QED BY <2>4, <2>5, <1>2
  <1>7. ASSUME NEW plan, queue = sell \o Clips(plan, t), Clips(plan, t) = <<>>
        PROVE  queue = sell
    <2>1. sell \in Seq(Orders)
      BY <1>4 DEF QueueFits
    <2> QED BY <2>1, <1>7
  <1> QED BY <1>1, <1>3, <1>4, <1>6, <1>7

-----------------------------------------------------------------------------
(* The executor: what is left of a queue after its first signal             *)

\* A queue without its head, as the loop over the signals takes them.
LEMMA TailOfQueue ==
  ASSUME NEW queue \in Seq(Orders), queue # <<>>
  PROVE  /\ Head(queue) = queue[1] /\ queue[1] \in Orders /\ 1 \in DOMAIN queue
         /\ Tail(queue) \in Seq(Orders) /\ Len(queue) = Len(Tail(queue)) + 1
         /\ \A i \in DOMAIN Tail(queue) :
              /\ i \in Nat /\ i + 1 # 1 /\ i + 1 \in DOMAIN queue
              /\ Tail(queue)[i] = queue[i + 1]
  OBVIOUS

\* Only the first signal of a tick is a sale.
LEMMA NoSaleInTail ==
  ASSUME NEW s, NEW p, NEW c, NEW now, NEW queue, queue # <<>>,
         QueueFits(queue, s, p, c, now)
  PROVE  \A i \in DOMAIN Tail(queue) : ~IsSale(queue[i + 1])
  <1>1. \A i \in DOMAIN Tail(queue) : i + 1 # 1 /\ i + 1 \in DOMAIN queue
    BY TailOfQueue DEF QueueFits
  <1> QED BY <1>1 DEF QueueFits, SalesCovered

\* The rest of a queue still fits a state that has no less room than before.
LEMMA RestOfQueueFits ==
  ASSUME NEW s \in JWindowStates, NEW p, NEW c \in Nat, NEW now,
         NEW r \in JWindowStates, NEW o, NEW d \in Nat,
         NEW queue, queue # <<>>, QueueFits(queue, s, p, c, now),
         r.rescue <= s.rescue, r.reload <= s.reload, r.hedge = s.hedge, c <= d,
         r.reload_clips = s.reload_clips, r.blocked = s.blocked,
         r.primary = s.primary, r.last_buy = s.last_buy,
         NetRisk(p) \in Int, NetRisk(o) \in Int, NetRisk(o) <= NetRisk(p)
  PROVE  QueueFits(Tail(queue), r, o, d, now)
  <1> DEFINE rest == Tail(queue)
  <1>1. /\ queue \in Seq(Orders) /\ rest \in Seq(Orders) /\ Len(queue) = Len(rest) + 1
        /\ \A i \in DOMAIN rest : /\ i \in Nat /\ i + 1 \in DOMAIN queue
                                 /\ rest[i] = queue[i + 1] /\ rest[i] \in Orders
    BY TailOfQueue DEF QueueFits
  <1>2. \A i \in DOMAIN rest : ~IsSale(rest[i])
    BY <1>1, NoSaleInTail
  <1>3. /\ s.rescue \in Nat /\ r.rescue \in Nat /\ s.reload \in Nat /\ r.reload \in Nat
        /\ s.hedge \in Nat
    BY StateType
  <1> HIDE DEF rest
  <1>4. SalesCovered(rest, r, o)
    BY <1>2 DEF SalesCovered
  <1>5. PrimaryAffordable(rest, d)
    <2> SUFFICES ASSUME NEW i \in DOMAIN rest, IsPrimary(rest[i])
                 PROVE  rest[i].amount <= d
      BY DEF PrimaryAffordable
    <2>1. rest[i].amount <= c
      BY <1>1 DEF QueueFits, PrimaryAffordable
    <2>2. rest[i].amount \in Nat
      BY <1>1 DEF Orders
    <2> QED BY <2>1, <2>2
  <1>6. PrimaryFits(rest, r, o, now)
    <2> SUFFICES ASSUME NEW i \in DOMAIN rest, IsPrimary(rest[i])
                 PROVE  PrimaryFits(rest, r, o, now)!(i)!2
      BY DEF PrimaryFits
    <2>1. i + 1 \in DOMAIN queue /\ IsPrimary(queue[i + 1]) /\ rest[i] = queue[i + 1]
      BY <1>1
    <2>2. PrimaryFits(queue, s, p, now)!(i + 1)!2
      BY <2>1 DEF QueueFits, PrimaryFits
    <2>3. \A j \in DOMAIN rest : j # i => IsSale(rest[j])
      BY <1>1, <2>1, <2>2
    <2>4. rest[i].amount \in Nat /\ J.tail_cap[rest[i].price] \in Nat
      BY <1>1, <2>1, <2>2, PlannerAssumption DEF Orders
    <2> DEFINE a   == rest[i].amount
               cap == J.tail_cap[rest[i].price]
    <2>5. /\ s.rescue + a <= J.max_rescue /\ s.rescue + a <= cap
          /\ NetRisk(p) + a <= J.max_window
          /\ rest[i].tier = "DiscountReload" => s.reload + a <= J.discount_reload_max
      BY <2>1, <2>2
    <2>6. a \in Nat /\ cap \in Nat
      BY <2>4
    <2> HIDE DEF a, cap
    <2>7. s.rescue \in Int /\ r.rescue \in Int /\ s.reload \in Int /\ r.reload \in Int
      BY <1>3
    <2>8. a \in Int /\ cap \in Int
      BY <2>6
    <2>9. J.max_rescue \in Int /\ J.max_window \in Int
          /\ J.discount_reload_max \in Int
      BY CapsAreAmounts, Zenon
    <2>10. r.rescue + a <= J.max_rescue
      BY <2>5, <2>7, <2>8, <2>9, StillFits, SMTT(30)
    <2>11. r.rescue + a <= cap
      BY <2>5, <2>7, <2>8, <2>9, StillFits, SMTT(30)
    <2>12. NetRisk(o) + a <= J.max_window
      BY <2>5, <2>7, <2>8, <2>9, StillFits, SMTT(30)
    <2>13. rest[i].tier = "DiscountReload" => r.reload + a <= J.discount_reload_max
      BY <2>5, <2>7, <2>8, <2>9, StillFits, SMTT(30)
    <2> QED BY <2>1, <2>2, <2>3, <2>10, <2>11, <2>12, <2>13 DEF a, cap
  <1>7. HedgesFit(rest, r)
    <2> SUFFICES ASSUME NEW i \in DOMAIN rest, IsHedge(rest[i])
                 PROVE  HedgesFit(rest, r)!(i)!2
      BY DEF HedgesFit
    <2>1. i + 1 \in DOMAIN queue /\ IsHedge(queue[i + 1]) /\ rest[i] = queue[i + 1]
      BY <1>1
    <2>2. HedgesFit(queue, s)!(i + 1)!2
      BY <2>1 DEF QueueFits, HedgesFit
    <2>3. (Len(queue) + 1) - (i + 1) = (Len(rest) + 1) - i
      <3>1. /\ Len(queue) = Len(rest) + 1 /\ i \in Nat
            /\ Len(queue) \in Nat /\ Len(rest) \in Nat
        BY <1>1
      <3> QED BY <3>1, SMTT(30)
    <2> QED BY <1>1, <2>1, <2>2, <2>3
  <1> QED BY <1>1, <1>4, <1>5, <1>6, <1>7 DEF QueueFits, rest

\* The clips of a hedge after the first of them was bought.
LEMMA RestOfHedgeFits ==
  ASSUME NEW s \in JWindowStates, NEW p, NEW c, NEW now, NEW r \in JWindowStates,
         NEW o, NEW d, NEW queue, queue # <<>>, QueueFits(queue, s, p, c, now),
         IsHedge(Head(queue)), r.hedge = s.hedge + Head(queue).amount,
         r.primary = s.primary
  PROVE  QueueFits(Tail(queue), r, o, d, now)
  <1> DEFINE rest == Tail(queue)
  <1>1. /\ queue \in Seq(Orders) /\ rest \in Seq(Orders) /\ Len(queue) = Len(rest) + 1
        /\ Head(queue) = queue[1] /\ queue[1] \in Orders /\ 1 \in DOMAIN queue
        /\ \A i \in DOMAIN rest : /\ i \in Nat /\ i + 1 \in DOMAIN queue
                                 /\ rest[i] = queue[i + 1]
    BY TailOfQueue DEF QueueFits
  <1>2. \A i \in DOMAIN rest : ~IsSale(rest[i])
    BY <1>1, NoSaleInTail
  <1>3. HedgesFit(queue, s)!(1)!2
    BY <1>1 DEF QueueFits, HedgesFit
  <1>4. \A i \in DOMAIN rest : rest[i] = queue[1]
    BY <1>1, <1>2, <1>3
  <1> DEFINE a == queue[1].amount
  <1>5. a \in Nat /\ s.hedge \in Nat
    BY <1>1, StateType DEF Orders
  <1> HIDE DEF rest
  <1>6. SalesCovered(rest, r, o)
    BY <1>2 DEF SalesCovered
  <1>7. PrimaryAffordable(rest, d) /\ PrimaryFits(rest, r, o, now)
    BY <1>1, <1>4 DEF PrimaryAffordable, PrimaryFits, IsPrimary, IsHedge, PrimaryTiers
  <1>8. HedgesFit(rest, r)
    <2> SUFFICES ASSUME NEW i \in DOMAIN rest
                 PROVE  r.hedge + ((Len(rest) + 1) - i) * rest[i].amount <= J.flip_tier_max
      BY <1>3, <1>4 DEF HedgesFit
    <2>1. s.hedge + Len(queue) * a <= J.flip_tier_max
      <3>1. (Len(queue) + 1) - 1 = Len(queue)
        BY <1>1
      <3> QED BY <1>3, <3>1
    <2> DEFINE k == (Len(rest) + 1) - i
    <2>2. k + 1 \in Nat /\ k \in Nat /\ k + 1 <= Len(queue) /\ Len(queue) \in Nat
      BY <1>1
    <2>3. J.flip_tier_max \in Nat
      BY Amounts
    <2> HIDE DEF k, a
    <2>4. s.hedge + (k + 1) * a <= J.flip_tier_max
      BY <1>5, <2>1, <2>2, <2>3, RestFits
    <2>5. (k + 1) * a = a + k * a /\ k * a \in Nat
      BY <1>5, <2>2
    <2>6. (s.hedge + a) + k * a <= J.flip_tier_max
      BY <1>5, <2>3, <2>4, <2>5
    <2> QED BY <1>1, <1>4, <2>6 DEF k, a
  <1> QED BY <1>1, <1>6, <1>7, <1>8 DEF QueueFits, rest

\* A directional buy is the last signal of its tick.
LEMMA NothingAfterPrimary ==
  ASSUME NEW s, NEW p, NEW c, NEW now, NEW queue, queue # <<>>,
         QueueFits(queue, s, p, c, now), IsPrimary(Head(queue))
  PROVE  Tail(queue) = <<>>
  <1>1. /\ Tail(queue) \in Seq(Orders)
        /\ Head(queue) = queue[1] /\ 1 \in DOMAIN queue
        /\ \A i \in DOMAIN Tail(queue) : i + 1 # 1 /\ i + 1 \in DOMAIN queue
    BY TailOfQueue DEF QueueFits
  <1>2. \A i \in DOMAIN Tail(queue) : IsSale(queue[i + 1])
    BY <1>1 DEF QueueFits, PrimaryFits
  <1>3. \A i \in DOMAIN Tail(queue) : FALSE
    BY <1>2, NoSaleInTail
  <1> QED BY <1>1, <1>3

-----------------------------------------------------------------------------
(* The invariant                                                            *)

\* The three checked properties together are inductive: the bound on the risk needs
\* that a clip still fits when it is executed, which needs the shape of the queue.
JInv == JTypeOK /\ RiskBounded /\ PlannedFits

\* The queue of execute_strategy_signals, before a step, in the terms of the lemmas.
LEMMA QueueOfWindow ==
  (JTypeOK /\ PlannedFits) <=> (JTypeOK /\ QueueFits(signals, jw, pos, cash, secs))
  BY DEF PlannedFits, QueueFits, JTypeOK

\* The same queue after a step.
LEMMA QueueOfWindowNext ==
  QueueFits(signals', jw', pos', cash', secs') => PlannedFits'
  BY DEF PlannedFits, QueueFits

\* Nothing is left to execute once execute_strategy_signals has returned.
LEMMA EmptyQueueFits ==
  ASSUME NEW s, NEW p, NEW c, NEW now
  PROVE  QueueFits(<<>>, s, p, c, now)
  BY DEF QueueFits, SalesCovered, PrimaryAffordable, PrimaryFits, HedgesFit

\* A window that has just gone LIVE: nothing is bought and nothing is planned.
LEMMA JInitInv == JInit => JInv
  <1> SUFFICES ASSUME JInit PROVE JInv
    OBVIOUS
  <1>1. JTypeOK
    <2>1. jw \in JWindowStates
      BY Amounts, JStrategyAssumption DEF JInit, NewState, JWindowStates
    <2>2. pos \in [spent : Nat, returned : Nat, shares : [Sides -> Nat]]
      BY DEF JInit, EmptyWindow
    <2>3. crosses \in Crosses /\ signals \in Seq(Orders) /\ unmet \in Nat
      BY DEF JInit, Crosses
    <2>4. cash \in Nat /\ secs \in 0..WindowSecs
      BY JStrategyAssumption DEF JInit
    <2> QED BY <2>1, <2>2, <2>3, <2>4 DEF JTypeOK
  <1>2. RiskBounded
    <2>1. /\ pos.spent = 0 /\ pos.returned = 0 /\ jw.rescue = 0 /\ jw.hedge = 0
          /\ unmet = 0
      BY DEF JInit, EmptyWindow, NewState
    <2> QED BY <2>1, Amounts DEF RiskBounded, NetRiskBounded, BucketsCoverRisk, NetRisk, Greater
  <1>3. PlannedFits
    BY EmptyQueueFits DEF JInit, PlannedFits, QueueFits
  <1> QED BY <1>1, <1>2, <1>3 DEF JInv

\* The seconds, the crosses and other windows come between ticks, when nothing is
\* planned; none of them touches the window.
LEMMA EnvironmentInv ==
  ASSUME JInv, Second \/ Cross \/ OtherWindowSettles
  PROVE  JInv'
  <1>1. /\ signals' = <<>> /\ UNCHANGED <<jw, pos, signals, unmet>>
    BY DEF Second, Cross, OtherWindowSettles, trading, history
  <1>2. JTypeOK'
    <2>1. secs' \in 0..WindowSecs
      BY JStrategyAssumption DEF JInv, JTypeOK, Second, Cross, OtherWindowSettles
    <2>2. cash' \in Nat
      BY JStrategyAssumption DEF JInv, JTypeOK, Second, Cross, OtherWindowSettles, trading
    <2>3. crosses' \in Crosses
      <3>1. crosses \in Crosses
        BY DEF JInv, JTypeOK
      <3>2. CASE Cross
        <4>1. PICK sig \in {0, 1} :
                crosses' = [cross |-> crosses.cross + 1, sig |-> crosses.sig + sig,
                            last |-> sig = 1]
          BY <3>2 DEF Cross
        <4>2. crosses.cross + 1 \in Nat /\ crosses.sig + sig \in Nat
          BY <3>1 DEF Crosses
        <4>3. (sig = 1) \in BOOLEAN
          OBVIOUS
        <4> QED BY <4>1, <4>2, <4>3, Zenon DEF Crosses
      <3>3. CASE Second \/ OtherWindowSettles
        BY <3>1, <3>3 DEF Second, OtherWindowSettles
      <3> QED BY <3>2, <3>3
    <2> QED BY <1>1, <2>1, <2>2, <2>3 DEF JInv, JTypeOK
  <1>3. RiskBounded'
    BY <1>1 DEF JInv, RiskBounded, NetRiskBounded, BucketsCoverRisk, NetRisk
  <1>4. PlannedFits'
    BY <1>1, EmptyQueueFits, QueueOfWindowNext
  <1> QED BY <1>2, <1>3, <1>4 DEF JInv

\* The halt and the snapshot of the crosses are fields of their own.
LEMMA HaltedState ==
  ASSUME NEW s \in JWindowStates, NEW b \in BOOLEAN
  PROVE  /\ [s EXCEPT !.blocked = b] \in JWindowStates
         /\ [s EXCEPT !.blocked = b].rescue = s.rescue
         /\ [s EXCEPT !.blocked = b].hedge = s.hedge
         /\ [s EXCEPT !.blocked = b].primary = s.primary
         /\ [s EXCEPT !.blocked = b].sell_done = s.sell_done
         /\ [s EXCEPT !.blocked = b].blocked = b
  BY DEF JWindowStates

\* So is the snapshot of the crosses.
LEMMA SnapshotState ==
  ASSUME NEW s \in JWindowStates, NEW q \in Seq(Counts)
  PROVE  /\ [s EXCEPT !.snapshot = q] \in JWindowStates
         /\ [s EXCEPT !.snapshot = q].rescue = s.rescue
         /\ [s EXCEPT !.snapshot = q].hedge = s.hedge
         /\ [s EXCEPT !.snapshot = q].primary = s.primary
         /\ [s EXCEPT !.snapshot = q].sell_done = s.sell_done
         /\ [s EXCEPT !.snapshot = q].blocked = s.blocked
  BY DEF JWindowStates

\* What a tick leaves in the window state: the snapshot and the latch of the halt.
LEMMA SeenState ==
  ASSUME JTypeOK, NEW t \in Ticks
  PROVE  /\ Seen(t) \in JWindowStates
         /\ Seen(t).rescue = jw.rescue /\ Seen(t).hedge = jw.hedge
         /\ Seen(t).primary = jw.primary /\ Seen(t).sell_done = jw.sell_done
         /\ jw.blocked => Seen(t).blocked
  <1> DEFINE taken == Snapshot(jw, crosses, InEndgame(Phase(secs, Armed)))
  <1>1. jw \in JWindowStates /\ CountsOf(crosses) \in Counts
    BY DEF JTypeOK, CountsOf, Counts, Crosses
  <1>2. HardChop(crosses) \in BOOLEAN
    BY DEF HardChop
  <1>3. /\ taken \in JWindowStates
        /\ taken.rescue = jw.rescue /\ taken.hedge = jw.hedge
        /\ taken.primary = jw.primary /\ taken.sell_done = jw.sell_done
        /\ jw.blocked => taken.blocked
    <2> DEFINE q    == <<CountsOf(crosses)>>
               halt == jw.blocked \/ HardChop(crosses)
               shot == [jw EXCEPT !.snapshot = q]
    <2>1. q \in Seq(Counts) /\ halt \in BOOLEAN /\ (jw.blocked => halt)
      BY <1>1, <1>2, StateType
    <2>2. \/ taken = jw
          \/ taken = [jw EXCEPT !.snapshot = q, !.blocked = halt]
      BY DEF Snapshot
    <2>3. [jw EXCEPT !.snapshot = q, !.blocked = halt] = [shot EXCEPT !.blocked = halt]
      BY <1>1 DEF JWindowStates
    <2> HIDE DEF q, halt, taken
    <2>4. /\ shot \in JWindowStates
          /\ shot.rescue = jw.rescue /\ shot.hedge = jw.hedge
          /\ shot.primary = jw.primary /\ shot.sell_done = jw.sell_done
      BY <1>1, <2>1, SnapshotState
    <2> HIDE DEF shot
    <2> DEFINE both == [shot EXCEPT !.blocked = halt]
    <2>5. /\ both \in JWindowStates
          /\ both.rescue = shot.rescue /\ both.hedge = shot.hedge
          /\ both.primary = shot.primary /\ both.sell_done = shot.sell_done
          /\ both.blocked = halt
      BY <2>1, <2>4, HaltedState
    <2> HIDE DEF both
    <2>6. taken = jw \/ taken = both
      BY <2>2, <2>3 DEF both
    <2> QED BY <1>1, <2>1, <2>4, <2>5, <2>6
  <1>4. LiveChop(taken, crosses) \in BOOLEAN /\ (taken.blocked => LiveChop(taken, crosses))
    BY DEF LiveChop
  <1> HIDE DEF taken
  <1>5. /\ Latched(taken, crosses) \in JWindowStates
        /\ Latched(taken, crosses).rescue = jw.rescue
        /\ Latched(taken, crosses).hedge = jw.hedge
        /\ Latched(taken, crosses).primary = jw.primary
        /\ Latched(taken, crosses).sell_done = jw.sell_done
        /\ jw.blocked => Latched(taken, crosses).blocked
    <2> DEFINE halt == LiveChop(taken, crosses)
    <2>1. Latched(taken, crosses) = [taken EXCEPT !.blocked = halt]
      BY DEF Latched
    <2>2. halt \in BOOLEAN /\ (jw.blocked => halt)
      BY <1>3, <1>4
    <2> HIDE DEF halt
    <2> QED BY <1>3, <2>1, <2>2, HaltedState
  <1> QED BY <1>3, <1>5 DEF Seen, taken

\* process_live_tick plans only what fits, and buys nothing itself.
LEMMA TickInv ==
  ASSUME JInv, Tick
  PROVE  JInv'
  <1>1. PICK t \in Ticks :
          /\ jw' = Seen(t)
          /\ signals' = IF WinnerSide(t) = "NONE" THEN <<>>
                        ELSE Signals(Seen(t), pos, t, crosses, secs, Armed, cash)
    BY DEF Tick
  <1>2. UNCHANGED <<pos, cash, secs, crosses, unmet>>
    BY DEF Tick, history
  <1>3. JTypeOK
    BY DEF JInv
  <1>4. /\ jw' \in JWindowStates /\ jw'.rescue = jw.rescue /\ jw'.hedge = jw.hedge
    BY <1>1, <1>3, SeenState
  <1>5. QueueFits(signals', jw', pos', cash', secs')
    <2>1. CASE WinnerSide(t) = "NONE"
      BY <1>1, <2>1, EmptyQueueFits
    <2>2. CASE WinnerSide(t) # "NONE"
      <3>1. pos \in Positions /\ cash \in Nat /\ secs \in Nat
        BY <1>3, JStrategyAssumption DEF JTypeOK, Positions
      <3>2. QueueFits(Signals(jw', pos, t, crosses, secs, Armed, cash), jw', pos, cash, secs)
        BY <1>4, <3>1, <2>2, SignalsFit
      <3> QED BY <1>1, <1>2, <2>2, <3>2
    <2> QED BY <2>1, <2>2
  <1>6. JTypeOK'
    BY <1>2, <1>3, <1>4, <1>5 DEF JTypeOK, QueueFits
  <1>7. RiskBounded'
    BY <1>2, <1>4 DEF JInv, RiskBounded, NetRiskBounded, BucketsCoverRisk, NetRisk
  <1> QED BY <1>5, <1>6, <1>7, QueueOfWindowNext DEF JInv

\* mark_sell_rescue_executed: the buckets give back what the sale recovered.
LEMMA ReleasedState ==
  ASSUME NEW s \in JWindowStates, NEW usd \in Nat
  PROVE  LET r == Released(s, usd)
         IN  /\ r \in JWindowStates /\ r.sell_done
             /\ r.rescue <= s.rescue /\ r.reload <= s.reload
             /\ r.rescue >= s.rescue - usd
             /\ r.hedge = s.hedge /\ r.reload_clips = s.reload_clips
             /\ r.blocked = s.blocked /\ r.primary = s.primary
             /\ r.last_buy = s.last_buy
  <1> DEFINE rescue == s.rescue - Lesser(s.rescue, usd)
             reload == s.reload - Lesser(s.reload, usd)
  <1>1. /\ s.rescue \in Nat /\ s.rescue <= J.max_rescue
        /\ s.reload \in Nat /\ s.reload <= J.discount_reload_max
    BY StateType
  <1>2. /\ rescue \in 0..J.max_rescue /\ rescue <= s.rescue
        /\ rescue >= s.rescue - usd
    BY <1>1, Amounts DEF Lesser
  <1>3. reload \in 0..J.discount_reload_max /\ reload <= s.reload
    BY <1>1, Amounts DEF Lesser
  <1>4. Released(s, usd)
          = [s EXCEPT !.sell_done = TRUE, !.rescue = rescue, !.reload = reload]
    BY DEF Released, JWindowStates
  <1> HIDE DEF rescue, reload
  <1> QED BY <1>2, <1>3, <1>4, ZenonT(40) DEF JWindowStates

\* mark_buy_executed for a clip on the thesis: the reload bucket grows with it.
LEMMA BookedPrimary ==
  ASSUME NEW s \in JWindowStates, NEW sig \in Orders, NEW now \in -1..WindowSecs,
         IsPrimary(sig), s.rescue + sig.amount <= J.max_rescue,
         sig.tier = "DiscountReload" =>
           /\ s.reload + sig.amount <= J.discount_reload_max
           /\ s.reload_clips < J.discount_reload_max_clips
  PROVE  LET r == Booked(s, sig, now)
         IN  /\ r \in JWindowStates
             /\ r.rescue = s.rescue + sig.amount /\ r.hedge = s.hedge
             /\ r.primary # "NONE" /\ r.sell_done = s.sell_done /\ r.blocked = s.blocked
  <1> DEFINE rescue  == s.rescue + sig.amount
             reload  == s.reload + sig.amount
             rclips  == s.reload_clips + 1
             clips   == s.clips + 1
             primary == IF s.primary = "NONE" THEN sig.side ELSE s.primary
             seal    == [s EXCEPT !.clips = clips, !.rescue = rescue, !.primary = primary,
                                  !.last_buy = now]
  <1>1. /\ s.rescue \in Nat /\ s.reload \in Nat /\ s.reload_clips \in Nat
        /\ s.clips \in Nat /\ s.primary \in Sides \cup {"NONE"}
    BY StateType
  <1>2. sig.amount \in Nat /\ sig.side \in Sides
    BY DEF Orders
  <1>3. rescue \in 0..J.max_rescue /\ clips \in Nat
    BY <1>1, <1>2, Amounts
  <1>4. primary \in Sides /\ primary \in Sides \cup {"NONE"} /\ primary # "NONE"
    BY <1>1, <1>2 DEF Sides
  <1>5. CASE sig.tier = "FinalSeal"
    <2>1. Booked(s, sig, now) = seal
      BY <1>5 DEF Booked, JWindowStates
    <2> HIDE DEF rescue, clips, primary
    <2>2. /\ seal \in JWindowStates
          /\ seal.rescue = rescue /\ seal.hedge = s.hedge /\ seal.primary = primary
          /\ seal.sell_done = s.sell_done /\ seal.blocked = s.blocked
      BY <1>3, <1>4 DEF JWindowStates
    <2> HIDE DEF seal
    <2> QED BY <1>4, <2>1, <2>2 DEF rescue
  <1>6. CASE sig.tier = "DiscountReload"
    <2> DEFINE more == [s EXCEPT !.clips = clips, !.rescue = rescue, !.primary = primary,
                                 !.last_buy = now, !.reload = reload,
                                 !.reload_clips = rclips]
    <2>1. Booked(s, sig, now) = more
      BY <1>6 DEF Booked, JWindowStates
    <2>2. reload \in 0..J.discount_reload_max
      BY <1>1, <1>2, <1>6, Amounts
    <2>3. rclips \in 0..J.discount_reload_max_clips
      BY <1>1, <1>6, Amounts
    <2> HIDE DEF rescue, clips, primary, reload, rclips
    <2>4. /\ more \in JWindowStates
          /\ more.rescue = rescue /\ more.hedge = s.hedge /\ more.primary = primary
          /\ more.sell_done = s.sell_done /\ more.blocked = s.blocked
      BY <1>3, <1>4, <2>2, <2>3 DEF JWindowStates
    <2> HIDE DEF more
    <2> QED BY <1>4, <2>1, <2>4 DEF rescue
  <1> QED BY <1>5, <1>6 DEF IsPrimary, PrimaryTiers

\* mark_buy_executed for a clip of the hedge: nothing else than its bucket grows.
LEMMA BookedHedge ==
  ASSUME NEW s \in JWindowStates, NEW sig \in Orders, NEW now,
         IsHedge(sig), s.hedge + sig.amount <= J.flip_tier_max
  PROVE  LET r == Booked(s, sig, now)
         IN  /\ r \in JWindowStates
             /\ r.rescue = s.rescue /\ r.hedge = s.hedge + sig.amount
             /\ r.primary = s.primary /\ r.sell_done = s.sell_done
             /\ r.blocked = s.blocked
  <1> DEFINE hedge == s.hedge + sig.amount
             clips == s.clips + 1
  <1>1. hedge \in 0..J.flip_tier_max
    <2>1. s.hedge \in Nat
      BY StateType
    <2>2. sig.amount \in Nat
      BY DEF Orders
    <2> QED BY <2>1, <2>2, Amounts
  <1>2. clips \in Nat
    BY StateType
  <1>3. Booked(s, sig, now) = [s EXCEPT !.clips = clips, !.hedge = hedge]
    BY DEF Booked, IsHedge, JWindowStates
  <1> HIDE DEF hedge, clips
  <1>4. /\ [s EXCEPT !.clips = clips, !.hedge = hedge] \in JWindowStates
        /\ [s EXCEPT !.clips = clips, !.hedge = hedge].rescue = s.rescue
        /\ [s EXCEPT !.clips = clips, !.hedge = hedge].hedge = hedge
        /\ [s EXCEPT !.clips = clips, !.hedge = hedge].primary = s.primary
        /\ [s EXCEPT !.clips = clips, !.hedge = hedge].sell_done = s.sell_done
        /\ [s EXCEPT !.clips = clips, !.hedge = hedge].blocked = s.blocked
    BY <1>1, <1>2 DEF JWindowStates
  <1> QED BY <1>3, <1>4 DEF hedge

\* What a fill leaves in the window of the ledger.
LEMMA SoldPosition ==
  ASSUME NEW p \in Positions, NEW side \in Sides, NEW v \in Nat, NEW n \in Nat
  PROVE  LET o == [p EXCEPT !.returned = @ + v, !.shares[side] = n]
         IN  o \in Positions /\ o.spent = p.spent /\ o.returned = p.returned + v
  <1> DEFINE returned == p.returned + v
  <1>1. returned \in Nat
    BY DEF Positions
  <1> QED BY <1>1 DEF Positions

\* What a filled buy leaves there.
LEMMA BoughtPosition ==
  ASSUME NEW p \in Positions, NEW side \in Sides, NEW v \in Nat, NEW n \in Nat
  PROVE  LET o == [p EXCEPT !.spent = @ + v, !.shares[side] = n]
         IN  o \in Positions /\ o.spent = p.spent + v /\ o.returned = p.returned
  <1> DEFINE spent == p.spent + v
  <1>1. spent \in Nat
    BY DEF Positions
  <1> QED BY <1>1 DEF Positions

\* A signal turned down leaves the books alone and the rest of the queue in place.
LEMMA RejectedInv ==
  ASSUME JInv, Execute, Rejected(Head(signals))
  PROVE  JInv'
  <1>1. /\ signals # <<>> /\ signals' = Tail(signals)
        /\ UNCHANGED <<jw, pos, cash, secs, crosses, unmet>>
    BY DEF Execute, Rejected
  <1>2. JTypeOK /\ QueueFits(signals, jw, pos, cash, secs)
    BY QueueOfWindow DEF JInv
  <1>3. /\ jw \in JWindowStates /\ cash \in Nat /\ NetRisk(pos) \in Int
        /\ jw.rescue <= jw.rescue /\ jw.reload <= jw.reload /\ cash <= cash
        /\ NetRisk(pos) <= NetRisk(pos)
    <2>1. jw \in JWindowStates /\ cash \in Nat
      BY <1>2 DEF JTypeOK
    <2>2. NetRisk(pos) \in Int
      BY <1>2 DEF JTypeOK, NetRisk, Greater
    <2>3. jw.rescue \in Int /\ jw.reload \in Int
      BY <2>1, StateType
    <2> QED BY <2>1, <2>2, <2>3
  <1>4. QueueFits(Tail(signals), jw, pos, cash, secs)
    BY <1>1, <1>2, <1>3, RestOfQueueFits
  <1>5. QueueFits(signals', jw', pos', cash', secs')
    BY <1>1, <1>4
  <1>6. JTypeOK'
    BY <1>1, <1>2, <1>5 DEF JTypeOK, QueueFits
  <1>7. RiskBounded'
    BY <1>1 DEF JInv, RiskBounded, NetRiskBounded, BucketsCoverRisk, NetRisk
  <1> QED BY <1>5, <1>6, <1>7, QueueOfWindowNext DEF JInv

\* The sale gives the cash what the best bid pays and takes what the quote promised
\* from the exposure: the buckets fall by no more than the ledger's risk does and
\* what the quote promised beyond the bid.
LEMMA FillSellInv ==
  ASSUME JInv, Execute, FillSell(Head(signals))
  PROVE  /\ JInv'
         /\ jw.primary # "NONE" /\ ~jw.sell_done
         /\ jw'.sell_done /\ jw'.rescue \in 0..jw.rescue
         /\ jw'.hedge = jw.hedge /\ jw'.primary = jw.primary
         /\ jw'.blocked = jw.blocked
  <1> DEFINE sig   == Head(signals)
             sold  == Lesser(sig.amount, pos.shares[sig.side])
             value == sig.amount * sig.best
             quoted == sig.amount * sig.price
             short  == Greater(quoted - value, 0)
  <1>1. /\ signals # <<>> /\ signals' = Tail(signals) /\ sig.op = "SELL"
        /\ cash' = cash + sold * sig.best
        /\ pos' = [pos EXCEPT !.returned = @ + sold * sig.best, !.shares[sig.side] = @ - sold]
        /\ jw' = Released(jw, quoted)
        /\ unmet' = unmet + Greater(quoted - sold * sig.best, 0)
        /\ UNCHANGED <<secs, crosses>>
    BY DEF Execute, FillSell
  <1>2. JTypeOK /\ QueueFits(signals, jw, pos, cash, secs)
    BY QueueOfWindow DEF JInv
  <1>3. /\ sig = signals[1] /\ sig \in Orders /\ 1 \in DOMAIN signals
    BY <1>1, <1>2, TailOfQueue DEF JTypeOK
  <1>4. sig.amount \in Nat /\ sig.price \in Nat /\ sig.best \in Nat /\ sig.side \in Sides
    BY <1>3 DEF Orders
  <1>5. /\ pos.spent \in Nat /\ pos.returned \in Nat /\ pos.shares \in [Sides -> Nat]
        /\ pos.shares[sig.side] \in Nat
    BY <1>2, <1>4 DEF JTypeOK
  <1>6. sold = sig.amount /\ sig.amount <= pos.shares[sig.side]
    <2>1. sig.amount <= pos.shares[sig.side]
      BY <1>1, <1>2, <1>3 DEF QueueFits, SalesCovered, IsSale
    <2> QED BY <2>1, <1>4, <1>5 DEF Lesser
  <1>7. value \in Nat /\ quoted \in Nat
    BY <1>4, TimesNat
  <1> DEFINE left == pos.shares[sig.side] - sig.amount
  <1>8. left \in Nat
    BY <1>4, <1>5, <1>6
  <1>9. /\ cash' = cash + value
        /\ pos' = [pos EXCEPT !.returned = @ + value, !.shares[sig.side] = left]
    BY <1>1, <1>2, <1>6 DEF JTypeOK
  <1>21. unmet' = unmet + short
    BY <1>1, <1>6
  <1> HIDE DEF sig, sold, value, quoted, left
  <1>22. short \in Nat /\ short >= quoted - value
    BY <1>7 DEF Greater
  <1> HIDE DEF short
  <1>23. unmet \in Nat /\ unmet' \in Nat
    BY <1>2, <1>21, <1>22 DEF JTypeOK
  <1>10. /\ cash \in Nat /\ cash' \in Nat /\ cash <= cash'
    BY <1>2, <1>7, <1>9 DEF JTypeOK
  <1>11. /\ pos' \in [spent : Nat, returned : Nat, shares : [Sides -> Nat]]
         /\ pos'.spent = pos.spent /\ pos'.returned = pos.returned + value
    <2>1. pos \in Positions
      BY <1>2 DEF JTypeOK, Positions
    <2> QED BY <2>1, <1>4, <1>7, <1>8, <1>9, SoldPosition DEF Positions
  <1>12. jw \in JWindowStates
    BY <1>2 DEF JTypeOK
  <1>13. /\ jw' \in JWindowStates
         /\ jw'.rescue <= jw.rescue /\ jw'.reload <= jw.reload
         /\ jw'.rescue >= jw.rescue - quoted
         /\ jw'.hedge = jw.hedge /\ jw'.reload_clips = jw.reload_clips
         /\ jw'.blocked = jw.blocked /\ jw'.primary = jw.primary
         /\ jw'.last_buy = jw.last_buy /\ jw'.sell_done
    BY <1>1, <1>7, <1>12, ReleasedState
  <1>14. /\ NetRisk(pos) \in Int /\ NetRisk(pos') \in Int
         /\ NetRisk(pos') <= NetRisk(pos)
    BY <1>5, <1>7, <1>11 DEF NetRisk, Greater
  <1>15. QueueFits(Tail(signals), jw', pos', cash', secs)
    BY <1>1, <1>2, <1>10, <1>12, <1>13, <1>14, RestOfQueueFits
  <1>16. QueueFits(signals', jw', pos', cash', secs')
    BY <1>1, <1>15
  <1>17. JTypeOK'
    BY <1>1, <1>2, <1>10, <1>11, <1>13, <1>16, <1>23 DEF JTypeOK, QueueFits
  <1>18. RiskBounded'
    <2>1. /\ jw.rescue \in Nat /\ jw.hedge \in Nat /\ jw'.rescue \in Nat
      BY <1>12, <1>13, StateType
    <2>2. /\ NetRisk(pos) <= J.max_window + jw.hedge
          /\ pos.spent - pos.returned <= jw.rescue + jw.hedge + unmet
      BY DEF JInv, RiskBounded, NetRiskBounded, BucketsCoverRisk
    <2>3. NetRisk(pos') <= J.max_window + jw.hedge
      BY <1>14, <2>1, <2>2, Amounts
    <2>4. pos'.spent - pos'.returned <= jw'.rescue + jw.hedge + unmet'
      BY <1>5, <1>7, <1>11, <1>13, <1>21, <1>22, <1>23, <2>1, <2>2
    <2> QED BY <1>13, <2>3, <2>4 DEF RiskBounded, NetRiskBounded, BucketsCoverRisk, NetRisk
  <1>19. jw.primary # "NONE" /\ ~jw.sell_done
    <2>1. jw.primary = signals[1].side /\ ~jw.sell_done
      BY <1>1, <1>2, <1>3 DEF QueueFits, SalesCovered, IsSale, sig
    <2> QED BY <2>1, <1>3, <1>4 DEF Sides, sig
  <1>20. jw'.rescue \in 0..jw.rescue
    BY <1>12, <1>13, StateType
  <1> QED BY <1>13, <1>16, <1>17, <1>18, <1>19, <1>20, QueueOfWindowNext DEF JInv

\* What every filled buy does to the money: the cash pays it, the position holds it.
LEMMA FillBuyMoney ==
  ASSUME JInv, Execute, FillBuy(Head(signals))
  PROVE  LET sig == Head(signals)
         IN  /\ signals # <<>> /\ signals' = Tail(signals) /\ UNCHANGED <<secs, crosses>>
             /\ sig = signals[1] /\ 1 \in DOMAIN signals
             /\ sig \in Orders /\ sig.op = "BUY" /\ sig.amount \in Nat
             /\ jw' = Booked(jw, sig, secs)
             /\ cash' \in Nat /\ unmet \in Nat /\ unmet' = unmet
             /\ pos \in Positions /\ pos' \in Positions
             /\ pos'.spent = pos.spent + sig.amount /\ pos'.returned = pos.returned
  <1> DEFINE sig == Head(signals)
  <1>1. /\ signals # <<>> /\ signals' = Tail(signals) /\ sig.op = "BUY"
        /\ PaperBuys(sig)
        /\ cash' = cash - sig.amount
        /\ pos' = [pos EXCEPT !.spent = @ + sig.amount, !.shares[sig.side] = @ + Bought(sig)]
        /\ jw' = Booked(jw, sig, secs)
        /\ UNCHANGED <<secs, crosses, unmet>>
    BY DEF Execute, FillBuy
  <1>2. JTypeOK
    BY DEF JInv
  <1>3. sig = signals[1] /\ sig \in Orders /\ 1 \in DOMAIN signals
    BY <1>1, <1>2, TailOfQueue DEF JTypeOK
  <1>4. sig.amount \in Nat /\ sig.best \in Nat /\ sig.side \in Sides
    BY <1>3 DEF Orders
  <1> HIDE DEF sig
  <1>5. Bought(sig) \in Nat
    BY <1>1, <1>4, DivNat DEF Bought, PaperBuys
  <1>6. cash' \in Nat /\ unmet \in Nat /\ unmet' = unmet
    BY <1>1, <1>2, <1>4 DEF JTypeOK, PaperBuys
  <1>7. pos \in Positions
    BY <1>2 DEF JTypeOK, Positions
  <1>8. /\ pos' \in Positions
        /\ pos'.spent = pos.spent + sig.amount /\ pos'.returned = pos.returned
    <2> DEFINE v == sig.amount
               n == pos.shares[sig.side] + Bought(sig)
               side == sig.side
    <2>1. pos' = [pos EXCEPT !.spent = @ + v, !.shares[side] = n]
      BY <1>1, <1>7 DEF Positions
    <2>2. v \in Nat /\ n \in Nat /\ side \in Sides
      BY <1>4, <1>5, <1>7 DEF Positions
    <2> HIDE DEF v, n, side
    <2>3. pos' \in Positions /\ pos'.spent = pos.spent + v /\ pos'.returned = pos.returned
      BY <1>7, <2>1, <2>2, BoughtPosition DEF Positions
    <2> QED BY <2>3 DEF v
  <1> QED BY <1>1, <1>3, <1>4, <1>6, <1>7, <1>8 DEF sig

\* A purchase raises the net risk by no more than it costs.
LEMMA RiskOfBuy ==
  ASSUME NEW p \in Positions, NEW o \in Positions, NEW a \in Nat,
         o.spent = p.spent + a, o.returned = p.returned
  PROVE  /\ NetRisk(p) \in Int /\ NetRisk(o) \in Int
         /\ NetRisk(o) <= NetRisk(p) + a
         /\ o.spent - o.returned = (p.spent - p.returned) + a
  BY DEF NetRisk, Greater, Positions

\* A clip on the thesis: its own fit bounds the risk, and nothing follows it.
LEMMA FillPrimaryInv ==
  ASSUME JInv, Execute, FillBuy(Head(signals)), IsPrimary(Head(signals))
  PROVE  /\ JInv'
         /\ ~jw.blocked /\ jw'.rescue = jw.rescue + Head(signals).amount
         /\ jw'.hedge = jw.hedge /\ jw'.primary # "NONE"
         /\ jw'.sell_done = jw.sell_done /\ jw'.blocked = jw.blocked
         /\ jw'.rescue <= J.tail_cap[Head(signals).price]
         /\ jw.last_buy >= 0 => jw.last_buy - secs >= J.min_buy_interval
  <1> DEFINE sig == Head(signals)
             a   == sig.amount
  <1>1. /\ signals # <<>> /\ signals' = Tail(signals) /\ UNCHANGED <<secs, crosses>>
        /\ sig = signals[1] /\ 1 \in DOMAIN signals
        /\ sig \in Orders /\ a \in Nat
        /\ jw' = Booked(jw, sig, secs) /\ cash' \in Nat
        /\ unmet \in Nat /\ unmet' = unmet
        /\ pos \in Positions /\ pos' \in Positions
        /\ pos'.spent = pos.spent + a /\ pos'.returned = pos.returned
    BY FillBuyMoney
  <1>2. JTypeOK /\ QueueFits(signals, jw, pos, cash, secs)
    BY QueueOfWindow DEF JInv
  <1>3. PrimaryFits(signals, jw, pos, secs)!(1)!2
    BY <1>1, <1>2 DEF QueueFits, PrimaryFits
  <1>4. /\ jw \in JWindowStates /\ secs \in -1..WindowSecs
    BY <1>2, JStrategyAssumption DEF JTypeOK
  <1>5. /\ jw.rescue + a <= J.max_rescue /\ NetRisk(pos) + a <= J.max_window
        /\ ~jw.blocked
        /\ jw.rescue + a <= J.tail_cap[sig.price]
        /\ jw.last_buy >= 0 => jw.last_buy - secs >= J.min_buy_interval
        /\ sig.tier = "DiscountReload" =>
             /\ jw.reload + a <= J.discount_reload_max
             /\ jw.reload_clips < J.discount_reload_max_clips
    BY <1>1, <1>3
  <1>6. /\ jw' \in JWindowStates
        /\ jw'.rescue = jw.rescue + a /\ jw'.hedge = jw.hedge
        /\ jw'.primary # "NONE" /\ jw'.sell_done = jw.sell_done
        /\ jw'.blocked = jw.blocked
    BY <1>1, <1>4, <1>5, BookedPrimary
  <1>7. signals' = <<>>
    BY <1>1, <1>2, NothingAfterPrimary
  <1>8. JTypeOK'
    <2>1. pos' \in [spent : Nat, returned : Nat, shares : [Sides -> Nat]]
      BY <1>1 DEF Positions
    <2> QED BY <1>1, <1>2, <1>6, <1>7, <2>1 DEF JTypeOK
  <1>9. /\ NetRisk(pos) \in Int /\ NetRisk(pos') \in Int
        /\ NetRisk(pos') <= NetRisk(pos) + a
        /\ pos'.spent - pos'.returned = (pos.spent - pos.returned) + a
    BY <1>1, RiskOfBuy
  <1>10. RiskBounded'
    <2>1. jw.rescue \in Nat /\ jw.hedge \in Nat
      BY <1>4, StateType
    <2>2. /\ pos.spent - pos.returned <= jw.rescue + jw.hedge + unmet
          /\ pos.spent - pos.returned \in Int /\ unmet \in Nat /\ unmet' = unmet
      BY <1>1 DEF JInv, RiskBounded, BucketsCoverRisk, Positions
    <2> HIDE DEF a, sig
    <2>3. a \in Nat
      BY <1>1
    <2>4. NetRisk(pos') <= J.max_window + jw.hedge
      BY <1>5, <1>9, <2>1, <2>3, Amounts
    <2>5. pos'.spent - pos'.returned <= (jw.rescue + a) + jw.hedge + unmet'
      BY <1>9, <2>1, <2>2, <2>3
    <2> QED BY <1>6, <2>4, <2>5 DEF RiskBounded, NetRiskBounded, BucketsCoverRisk, NetRisk
  <1>11. PlannedFits'
    BY <1>7, EmptyQueueFits, QueueOfWindowNext
  <1> QED BY <1>5, <1>6, <1>8, <1>10, <1>11 DEF JInv

\* A clip of the hedge: it raises both sides of the bounds alike.
LEMMA FillHedgeInv ==
  ASSUME JInv, Execute, FillBuy(Head(signals)), IsHedge(Head(signals))
  PROVE  /\ JInv'
         /\ jw.primary # "NONE" /\ jw'.rescue = jw.rescue
         /\ jw'.hedge = jw.hedge + Head(signals).amount
         /\ jw'.primary = jw.primary
         /\ jw'.sell_done = jw.sell_done /\ jw'.blocked = jw.blocked
  <1> DEFINE sig == Head(signals)
             a   == sig.amount
  <1>1. /\ signals # <<>> /\ signals' = Tail(signals) /\ UNCHANGED <<secs, crosses>>
        /\ sig = signals[1] /\ 1 \in DOMAIN signals
        /\ sig \in Orders /\ a \in Nat
        /\ jw' = Booked(jw, sig, secs) /\ cash' \in Nat
        /\ unmet \in Nat /\ unmet' = unmet
        /\ pos \in Positions /\ pos' \in Positions
        /\ pos'.spent = pos.spent + a /\ pos'.returned = pos.returned
    BY FillBuyMoney
  <1>2. JTypeOK /\ QueueFits(signals, jw, pos, cash, secs)
    BY QueueOfWindow DEF JInv
  <1>3. HedgesFit(signals, jw)!(1)!2
    BY <1>1, <1>2 DEF QueueFits, HedgesFit
  <1>4. jw \in JWindowStates /\ jw.hedge \in Nat /\ jw.rescue \in Nat
    BY <1>2, StateType DEF JTypeOK
  <1>5. jw.hedge + a <= J.flip_tier_max
    <2>1. /\ (Len(signals) + 1) - 1 = Len(signals) /\ Len(signals) \in Nat /\ 1 <= Len(signals)
      BY <1>1, <1>2 DEF JTypeOK
    <2>2. jw.hedge + Len(signals) * a <= J.flip_tier_max
      BY <1>1, <1>3, <2>1
    <2>3. J.flip_tier_max \in Nat /\ 1 \in Nat
      BY Amounts
    <2>4. a \in Nat
      BY <1>1
    <2> HIDE DEF a
    <2>5. jw.hedge + 1 * a <= J.flip_tier_max
      BY <1>4, <2>1, <2>2, <2>3, <2>4, RestFits
    <2> QED BY <2>4, <2>5
  <1>6. /\ jw' \in JWindowStates
        /\ jw'.rescue = jw.rescue /\ jw'.hedge = jw.hedge + a
        /\ jw'.primary = jw.primary /\ jw'.sell_done = jw.sell_done
        /\ jw'.blocked = jw.blocked
    BY <1>1, <1>4, <1>5, BookedHedge
  <1>7. QueueFits(Tail(signals), jw', pos', cash', secs)
    BY <1>1, <1>2, <1>4, <1>6, RestOfHedgeFits
  <1>8. QueueFits(signals', jw', pos', cash', secs')
    BY <1>1, <1>7
  <1>9. JTypeOK'
    <2>1. pos' \in [spent : Nat, returned : Nat, shares : [Sides -> Nat]]
      BY <1>1 DEF Positions
    <2> QED BY <1>1, <1>2, <1>6, <1>8, <2>1 DEF JTypeOK, QueueFits
  <1>10. /\ NetRisk(pos) \in Int /\ NetRisk(pos') \in Int
         /\ NetRisk(pos') <= NetRisk(pos) + a
         /\ pos'.spent - pos'.returned = (pos.spent - pos.returned) + a
    BY <1>1, RiskOfBuy
  <1>11. RiskBounded'
    <2>1. /\ pos.spent - pos.returned <= jw.rescue + jw.hedge + unmet
          /\ pos.spent - pos.returned \in Int /\ unmet \in Nat /\ unmet' = unmet
          /\ NetRisk(pos) <= J.max_window + jw.hedge
      BY <1>1 DEF JInv, RiskBounded, BucketsCoverRisk, NetRiskBounded, Positions
    <2>2. a \in Nat
      BY <1>1
    <2> HIDE DEF a, sig
    <2>3. NetRisk(pos') <= J.max_window + (jw.hedge + a)
      BY <1>4, <1>10, <2>1, <2>2, Amounts
    <2>4. pos'.spent - pos'.returned <= jw.rescue + (jw.hedge + a) + unmet'
      BY <1>4, <1>10, <2>1, <2>2
    <2> QED BY <1>6, <2>3, <2>4 DEF RiskBounded, NetRiskBounded, BucketsCoverRisk, NetRisk
  <1> QED BY <1>3, <1>6, <1>8, <1>9, <1>11, QueueOfWindowNext DEF JInv

-----------------------------------------------------------------------------
(* The theorems                                                             *)

\* execute_strategy_signals: the signal at the head of the queue is turned down or
\* filled as a sale, as a clip on the thesis or as a clip of the hedge.
LEMMA ExecuteCases ==
  ASSUME JInv, Execute
  PROVE  LET sig == Head(signals)
         IN  \/ Rejected(sig)
             \/ FillSell(sig)
             \/ FillBuy(sig) /\ IsPrimary(sig)
             \/ FillBuy(sig) /\ IsHedge(sig)
  <1> DEFINE sig == Head(signals)
  <1>1. FillBuy(sig) \/ FillSell(sig) \/ Rejected(sig)
    BY DEF Execute
  <1>2. sig \in Orders
    BY TailOfQueue DEF JInv, JTypeOK, Execute
  <1>3. FillBuy(sig) => sig.op = "BUY"
    BY DEF FillBuy
  <1>4. sig.op = "BUY" => IsPrimary(sig) \/ IsHedge(sig)
    BY <1>2 DEF Orders, IsPrimary, IsHedge
  <1> QED BY <1>1, <1>3, <1>4

\* Every step keeps the invariant.
LEMMA JNextInv == JInv /\ [JNext]_vars => JInv'
  <1> SUFFICES ASSUME JInv, [JNext]_vars PROVE JInv'
    OBVIOUS
  <1>1. CASE Second \/ Cross \/ OtherWindowSettles
    BY <1>1, EnvironmentInv
  <1>2. CASE Tick
    BY <1>2, TickInv
  <1>3. CASE Execute
    BY <1>3, ExecuteCases, RejectedInv, FillSellInv, FillPrimaryInv, FillHedgeInv
  <1>4. CASE UNCHANGED vars
    BY <1>4 DEF vars, history, JInv, JTypeOK, RiskBounded, NetRiskBounded, BucketsCoverRisk,
             NetRisk, PlannedFits
  <1> QED BY <1>1, <1>2, <1>3, <1>4 DEF JNext

\* The invariant holds in every reachable state.
THEOREM WindowInvariant == JSpec => []JInv
  <1> QED BY JInitInv, JNextInv, PTL DEF JSpec

\* The range of the window: the buckets stay below their caps, the cash above zero.
THEOREM WindowTyped == JSpec => []JTypeOK
  <1>1. JInv => JTypeOK
    BY DEF JInv
  <1> QED BY <1>1, WindowInvariant, PTL

\* One window never loses more than its budget and its hedge, and the strategy's
\* buckets miss of what the ledger has at risk no more than what its sale was filled
\* under its quote (JWindowState, booked at fills and released at the signal's price,
\* against the ledger, which gets the best bid).
THEOREM WindowRisk == JSpec => []RiskBounded
  <1>1. JInv => RiskBounded
    BY DEF JInv
  <1> QED BY <1>1, WindowInvariant, PTL

\* A signal waiting for its turn still fits the caps and the cash it was planned under.
THEOREM WindowPlans == JSpec => []PlannedFits
  <1>1. JInv => PlannedFits
    BY DEF JInv
  <1> QED BY <1>1, WindowInvariant, PTL

\* What is not a clip on the thesis deploys nothing.
LEMMA OnlyPrimaryDeploys ==
  ASSUME JInv, [JNext]_vars,
         ~(Execute /\ FillBuy(Head(signals)) /\ IsPrimary(Head(signals)))
  PROVE  jw'.rescue <= jw.rescue
  <1>1. JTypeOK /\ jw \in JWindowStates /\ jw.rescue \in Nat
    BY StateType DEF JInv, JTypeOK
  <1>2. CASE UNCHANGED vars \/ Second \/ Cross \/ OtherWindowSettles
    BY <1>1, <1>2 DEF vars, Second, Cross, OtherWindowSettles, trading
  <1>3. CASE Tick
    BY <1>1, <1>3, SeenState DEF Tick
  <1>4. CASE Execute /\ Rejected(Head(signals))
    BY <1>1, <1>4 DEF Rejected
  <1>5. CASE Execute /\ FillSell(Head(signals))
    <2>1. jw'.rescue \in 0..jw.rescue
      BY <1>5, FillSellInv
    <2> QED BY <1>1, <2>1
  <1>6. CASE Execute /\ FillBuy(Head(signals)) /\ IsHedge(Head(signals))
    BY <1>1, <1>6, FillHedgeInv
  <1> QED BY <1>2, <1>3, <1>4, <1>5, <1>6, ExecuteCases DEF JNext

\* Every filled clip on the thesis leaves the exposure within the tail cap of its
\* ask and keeps its distance to the one before, in plan_j_window's words
\* tail_risk_cap_usd and min_buy_interval_ms, although both were tested a tick ago.
THEOREM WindowRules == JSpec => BuysKeepRules
  <1>1. JInv /\ [JNext]_vars =>
          [PrimaryBuy =>
             /\ jw'.rescue <= J.tail_cap[Head(signals).price]
             /\ jw.last_buy >= 0 => jw.last_buy - secs >= J.min_buy_interval]_vars
    <2> SUFFICES ASSUME JInv, [JNext]_vars, PrimaryBuy
                 PROVE  /\ jw'.rescue <= J.tail_cap[Head(signals).price]
                        /\ jw.last_buy >= 0 => jw.last_buy - secs >= J.min_buy_interval
      OBVIOUS
    <2>1. jw.rescue \in Nat /\ jw'.rescue \in Nat
      <3>1. jw \in JWindowStates /\ jw' \in JWindowStates
        BY JNextInv DEF JInv, JTypeOK
      <3> QED BY <3>1, StateType
    <2>2. Execute /\ FillBuy(Head(signals)) /\ IsPrimary(Head(signals))
      BY <2>1, OnlyPrimaryDeploys DEF PrimaryBuy
    <2> QED BY <2>2, FillPrimaryInv
  <1> QED BY <1>1, WindowInvariant, PTL DEF JSpec, BuysKeepRules

\* Each step of the window is a step of its budget, or none.
LEMMA StepKeepsBudget ==
  ASSUME JInv, [JNext]_vars
  PROVE  [Budget!Next]_(Budget!budget)
  <1>1. /\ JTypeOK /\ jw \in JWindowStates
        /\ jw.rescue \in Nat /\ jw.hedge \in Nat /\ jw.blocked \in BOOLEAN
    BY StateType DEF JInv, JTypeOK
  <1>2. /\ jw' \in JWindowStates
        /\ jw'.rescue \in Nat /\ jw'.hedge \in Nat /\ jw'.blocked \in BOOLEAN
        /\ jw'.rescue <= J.max_rescue /\ jw'.hedge <= J.flip_tier_max
    <2>1. jw' \in JWindowStates
      BY JNextInv DEF JInv, JTypeOK
    <2> QED BY <2>1, StateType
  <1>3. CASE \/ UNCHANGED vars \/ Second \/ Cross \/ OtherWindowSettles
             \/ Execute /\ Rejected(Head(signals))
    <2>1. jw' = jw
      BY <1>3 DEF vars, Second, Cross, OtherWindowSettles, trading, Rejected
    <2> QED BY <2>1 DEF Budget!budget
  <1>4. CASE Tick
    <2>1. /\ jw'.rescue = jw.rescue /\ jw'.hedge = jw.hedge
          /\ jw'.primary = jw.primary /\ jw'.sell_done = jw.sell_done
          /\ jw.blocked => jw'.blocked
      BY <1>1, <1>4, SeenState DEF Tick
    <2>2. CASE jw'.blocked = jw.blocked
      BY <2>1, <2>2 DEF Budget!budget
    <2>3. CASE jw'.blocked = TRUE
      BY <2>1, <2>3 DEF Budget!Next, Budget!Halt
    <2> QED BY <1>1, <1>2, <2>1, <2>2, <2>3
  <1>5. CASE Execute /\ FillSell(Head(signals))
    <2>1. Budget!CutLoss
      BY <1>5, FillSellInv DEF Budget!CutLoss
    <2> QED BY <2>1 DEF Budget!Next
  <1>6. CASE Execute /\ FillBuy(Head(signals)) /\ IsPrimary(Head(signals))
    <2>1. /\ ~jw.blocked /\ jw'.rescue = jw.rescue + Head(signals).amount
          /\ jw'.hedge = jw.hedge /\ jw'.primary # "NONE"
          /\ jw'.sell_done = jw.sell_done /\ jw'.blocked = jw.blocked
      BY <1>6, FillPrimaryInv
    <2>2. Head(signals).amount \in Nat
      BY <1>6, FillBuyMoney
    <2>3. jw'.rescue \in jw.rescue..J.max_rescue
      BY <1>1, <1>2, <2>1, <2>2, Amounts
    <2> QED BY <2>1, <2>3 DEF Budget!Next, Budget!Deploy
  <1>7. CASE Execute /\ FillBuy(Head(signals)) /\ IsHedge(Head(signals))
    <2>1. /\ jw.primary # "NONE" /\ jw'.rescue = jw.rescue
          /\ jw'.hedge = jw.hedge + Head(signals).amount
          /\ jw'.primary = jw.primary
          /\ jw'.sell_done = jw.sell_done /\ jw'.blocked = jw.blocked
      BY <1>7, FillHedgeInv
    <2>2. Head(signals).amount \in Nat
      BY <1>7, FillBuyMoney
    <2>3. jw'.hedge \in jw.hedge..J.flip_tier_max
      BY <1>1, <1>2, <2>1, <2>2, Amounts
    <2> QED BY <2>1, <2>3 DEF Budget!Next, Budget!Hedge
  <1> QED BY <1>3, <1>4, <1>5, <1>6, <1>7, ExecuteCases DEF JNext

\* Strategy J with its planner and the paper executor implements WindowBudget:
\* capped deployments on one thesis, capped hedges once it is bought, one sale
\* that cuts it, none deployed after the halt for chop.
THEOREM WindowKeepsBudget == JSpec => KeepsBudget
  <1>1. JInit => Budget!Init
    BY DEF JInit, NewState, Budget!Init
  <1>2. JInv /\ [JNext]_vars => [Budget!Next]_(Budget!budget)
    BY StepKeepsBudget
  <1> QED BY <1>1, <1>2, WindowInvariant, PTL DEF JSpec, KeepsBudget, Budget!Spec

=============================================================================
