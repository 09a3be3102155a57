------------------------------ MODULE JPlanner ------------------------------
(***************************************************************************)
(* The decisions of strategy J in the endgame of one window: the operators *)
(* of src/src/j_controller.rs and the gates of src/src/strategy/           *)
(* strategy_j.rs, over a JWindowState s, the window p in the ledger and    *)
(* what one market tick t shows.                                           *)
(*                                                                         *)
(* Money is counted in units, Unit of them to a dollar; prices in units    *)
(* per share.  The gap between spot and PTB is a signed number of steps on *)
(* the gap_z scale (its sign names the winner); the confidence blend is    *)
(* what it leads to, the exposure t.want the signals argue for.  Buckets   *)
(* of tiers that plan_j_window never returns (scout, pair lock, mid value, *)
(* insurance, impulse, cheap, late) are left out, and so are the fees.     *)
(***************************************************************************)
EXTENDS Integers, Sequences

CONSTANTS
  Unit,   \* units in one dollar, and what a winning share redeems for
  J,      \* record: config.j_endgame, its effective sizes, and maxWindowBudget
  Ticks   \* what a market tick may show

Sides       == {"UP", "DOWN"}
Opposite(a) == IF a = "UP" THEN "DOWN" ELSE "UP"
Lesser(a, b)  == IF a <= b THEN a ELSE b
Greater(a, b) == IF a >= b THEN a ELSE b

\* The configured amounts and caps are not negative, the probe clip is positive;
\* the expensive tail is capped at least as hard as the cheap one; the code clamps
\* the fraction of a sale to 0..1.
ASSUME PlannerAssumption ==
  /\ Unit \in Nat \ {0} /\ J.probe_clip \in Nat \ {0}
  /\ {J.first_clip, J.max_clip, J.flip_clip, J.discount_reload_clip} \subseteq Nat
  /\ {J.max_rescue, J.max_window, J.session_max, J.target_profit} \subseteq Nat
  /\ {J.flip_tier, J.flip_ratio, J.flip_tier_max, J.flip_sweep} \subseteq Nat
  /\ {J.discount_reload_max, J.discount_reload_max_clips} \subseteq Nat
  /\ {J.limit_ask_offset, J.taker_max_ask, J.min_winner_ask} \subseteq Nat
  /\ J.min_buy_interval \in Nat /\ J.sell_percent \in 0..100
  /\ J.tail_cap \in [DOMAIN J.tail_cap -> Nat] /\ DOMAIN J.tail_cap \subseteq Nat
  /\ \A a, b \in DOMAIN J.tail_cap : a <= b => J.tail_cap[b] <= J.tail_cap[a]

\* What a tick shows of the market.  A side nobody offers has an ask of zero; the
\* best levels of its book (zero when it has none) and its top quotes may differ,
\* for a print moves the quotes and not the levels.  t.depth is what is offered up
\* to the price a buy may pay, t.deeper whether there are levels behind it.
ASSUME TicksAssumption ==
  \A t \in Ticks : /\ t.gap \in Int /\ t.vel \in Int /\ t.want \in Int
                   /\ t.ask \in [Sides -> Nat] /\ t.bid \in [Sides -> Nat]
                   /\ t.book_ask \in [Sides -> Nat] /\ t.book_bid \in [Sides -> Nat]
                   /\ t.depth \in Nat /\ t.deeper \in BOOLEAN

NewState ==
  [rescue |-> 0, reload |-> 0, reload_clips |-> 0, hedge |-> 0,
   clips |-> 0, primary |-> "NONE", last_buy |-> -1, sell_done |-> FALSE,
   snapshot |-> <<>>, blocked |-> FALSE]

-----------------------------------------------------------------------------
(* Reading a tick                                                          *)

\* No winner while spot stands on the PTB.
WinnerSide(t) == IF t.gap > 0 THEN "UP" ELSE IF t.gap < 0 THEN "DOWN" ELSE "NONE"
Strength(t)       == IF t.gap >= 0 THEN t.gap ELSE -t.gap
GapToward(side, t) == IF side = "UP" THEN t.gap ELSE -t.gap
VelToward(side, t) == IF side = "UP" THEN t.vel ELSE -t.vel

\* The price the executor finds: the best level, or the top quote when it has none.
Best(level, top) == IF level > 0 THEN level ELSE top

\* aggressive_buy_limit_price.
MaxPay(ask) ==
  Greater(Lesser(ask + J.limit_ask_offset, J.taker_max_ask), J.min_winner_ask)

\* The phase, of which only `before or in the endgame` matters to the planner.
Phase(secs, armed) ==
  CASE secs <= J.final_seal_secs                 -> "FinalSeal"
    [] secs > J.final_seal_secs /\ secs > J.arm_secs /\ ~armed -> "Warmup"
    [] OTHER ->
         IF secs <= J.rescue_zone_secs THEN "Rescue"
         ELSE IF secs <= J.late_max_secs THEN "Late"
         ELSE IF secs <= J.endgame_secs /\ secs <= J.cheap_secs THEN "Accumulate"
         ELSE "MidWindow"
InEndgame(phase) == phase \notin {"Warmup", "MidWindow"}

-----------------------------------------------------------------------------
(* Exposure of a window                                                    *)

Exposure(s)   == s.rescue
HasPrimary(s) == s.primary # "NONE" /\ s.rescue > 0
NetRisk(p)    == Greater(p.spent - p.returned, 0)
Redeem(p, side) == p.returned + p.shares[side] * Unit - p.spent

\* Faulty variants of Released: below zero, and everything at once.
ReleasedInFull(s, usd) ==
  [s EXCEPT !.sell_done = TRUE, !.rescue = @ - usd, !.reload = @ - usd]

\* A sale releases what it recovered, from the primary and the reload bucket.
Released(s, usd) ==
  [s EXCEPT !.sell_done = TRUE,
            !.rescue = @ - Lesser(@, usd),
            !.reload = @ - Lesser(@, usd)]

\* A buy is booked once its execution is confirmed.
Booked(s, sig, secs) ==
  LET counted == [s EXCEPT !.clips = @ + 1]
      primary == IF s.primary = "NONE" THEN sig.side ELSE s.primary
  IN  CASE sig.tier = "FlipHedge" -> [counted EXCEPT !.hedge = @ + sig.amount]
        [] sig.tier = "FinalSeal" ->
             [counted EXCEPT !.rescue = @ + sig.amount, !.primary = primary,
                             !.last_buy = secs]
        [] sig.tier = "DiscountReload" ->
             [counted EXCEPT !.rescue = @ + sig.amount, !.primary = primary,
                             !.last_buy = secs, !.reload = @ + sig.amount,
                             !.reload_clips = @ + 1]

-----------------------------------------------------------------------------
(* Chop                                                                    *)

AtLimit(n, limit) == limit > 0 /\ n >= limit
HardChop(x) == AtLimit(x.cross, J.max_crosses) \/ AtLimit(x.sig, J.max_sig_crosses)

\* Three crosses, or two significant ones, short of the limit.
SoftLimit(limit, backoff) == IF limit = 0 THEN 0 ELSE Greater(limit - backoff, 1)
SoftChop(x) == \/ HardChop(x)
               \/ AtLimit(x.cross, SoftLimit(J.max_crosses, 3))
               \/ AtLimit(x.sig, SoftLimit(J.max_sig_crosses, 2))

\* The counts at the first tick of the endgame.
CountsOf(x) == [cross |-> x.cross, sig |-> x.sig]
Snapshot(s, x, endgame) ==
  IF endgame /\ s.snapshot = <<>>
  THEN [s EXCEPT !.snapshot = <<CountsOf(x)>>, !.blocked = @ \/ HardChop(x)]
  ELSE s

\* The live counts, and their growth since the snapshot, latch the block too.
LiveChop(s, x) ==
  LET base == IF s.snapshot = <<>> THEN [cross |-> 0, sig |-> 0] ELSE s.snapshot[1]
  IN  \/ s.blocked
      \/ HardChop(x)
      \/ AtLimit(x.cross - base.cross, J.max_crosses)
      \/ AtLimit(x.sig - base.sig, J.max_sig_crosses)
Latched(s, x) == [s EXCEPT !.blocked = LiveChop(s, x)]

\* t.calm: enough ATR, spot away from the PTB, no cross a few seconds ago.
Quiet(s, t) == t.calm
DirectionalAllowed(s, t) == ~s.blocked /\ Quiet(s, t)

-----------------------------------------------------------------------------
(* Cutting a loss                                                          *)

SpotAgainst(side, t) == GapToward(side, t) < 0
MidAgainst(side, t)  == t.mid \in Sides /\ t.mid # side

FlipTriggered(s, t, x) ==
  /\ J.flip_enabled /\ HasPrimary(s)
  /\ J.flip_require_spot_cross => SpotAgainst(s.primary, t)
  /\ SpotAgainst(s.primary, t) \/ MidAgainst(s.primary, t)
  /\ IF SpotAgainst(s.primary, t)
     THEN -GapToward(s.primary, t) >= J.flip_min_gap
     ELSE x.cross >= J.flip_min_crosses \/ x.sig >= J.flip_min_sig_crosses \/ x.last

SoldShares(s, p, percent) == (p.shares[s.primary] * percent) \div 100
TailPercent == Lesser(J.sell_percent, 50)

\* What the three plans for a sale have in common; the value of a full sale
\* improves the result of a side that would redeem for nothing.
SalePays(s, p, t, percent) ==
  /\ J.sell_enabled /\ HasPrimary(s)
  /\ t.bid[s.primary] >= J.sell_min_bid
  /\ SoldShares(s, p, percent) > 0
  /\ SoldShares(s, p, percent) * t.bid[s.primary] >= J.sell_min_value
MaySell(s, p, t, percent) == ~s.sell_done /\ SalePays(s, p, t, percent)

\* A market order: planned and released at the quote, filled at the best bid.
SellOrder(s, p, t, percent) ==
  [op |-> "SELL", tier |-> "SellRescue", side |-> s.primary,
   amount |-> SoldShares(s, p, percent), price |-> t.bid[s.primary],
   best |-> Best(t.book_bid[s.primary], t.bid[s.primary])]

TailSecs(zone) == Greater(Greater(zone, J.final_seal_secs),
                          Greater(J.sell_market_secs, 1))

RescueSells(s, p, t) ==
  /\ MaySell(s, p, t, J.sell_percent)
  /\ s.primary # WinnerSide(t)
  /\ -GapToward(s.primary, t) >= J.sell_min_gap

FlipSells(s, p, t, x) ==
  /\ MaySell(s, p, t, TailPercent)
  /\ s.primary # WinnerSide(t)
  /\ FlipTriggered(s, t, x)

\* Near the end, next to the PTB and against the velocity a winner is sold too.
TailSells(s, p, t, secs) ==
  /\ MaySell(s, p, t, TailPercent)
  /\ s.primary = WinnerSide(t)
  /\ 0 < secs /\ secs <= TailSecs(J.rescue_zone_secs)
  /\ t.near_ptb
  /\ VelToward(s.primary, t) <= -2

\* At most one of them, the first that applies.
SellPlan(s, p, t, x, secs) ==
  IF RescueSells(s, p, t) THEN <<SellOrder(s, p, t, J.sell_percent)>>
  ELSE IF FlipSells(s, p, t, x) \/ TailSells(s, p, t, secs)
       THEN <<SellOrder(s, p, t, TailPercent)>>
       ELSE <<>>

-----------------------------------------------------------------------------
(* Sizes                                                                   *)

\* maxWindowBudget bounds what is left, not what the window has at risk.
WholeWindow(p) == J.max_window   \* faulty variant of WindowLeft
WindowLeft(p)  == Greater(J.max_window - NetRisk(p), 0)
BudgetOf(s, p, cash) ==
  LET capped == IF J.session_max > 0 THEN Lesser(WindowLeft(p), J.session_max)
                                     ELSE WindowLeft(p)
  IN  Lesser(capped, J.max_rescue - s.rescue)
RescueBudget(s, p, cash) == Lesser(BudgetOf(s, p, cash), cash)

TailCap(ask) == IF ask \in DOMAIN J.tail_cap THEN J.tail_cap[ask] ELSE 0

ExposureCap(ask, x, base) ==
  LET clip == Greater(Greater(J.first_clip, J.probe_clip), Unit)
  IN  IF ask <= J.cheap_max_ask THEN base
      ELSE IF HardChop(x) THEN Lesser(base, clip)
      ELSE IF SoftChop(x) THEN Lesser(base, 2 * clip)
      ELSE base

\* The first clip is small, later ones grow with the gap up to the largest.
MaxClip(s, t) ==
  LET first == Greater(J.first_clip, J.probe_clip)
  IN  IF s.rescue = 0 \/ Strength(t) < J.full_gap
      THEN first ELSE Greater(Greater(J.max_clip, J.probe_clip), first)

\* Dollars on the winner at this ask that lift the redemption to the target.
ToTarget(p, side, ask) ==
  IF Redeem(p, side) >= J.target_profit \/ ask >= Unit THEN 0
  ELSE ((J.target_profit - Redeem(p, side)) * ask) \div (Unit - ask)

\* An order buys a whole number of shares: the model rounds the clip down.
Whole(usd, ask) == usd - (usd % ask)

-----------------------------------------------------------------------------
(* Plans: a sequence, empty or of one [tier, side, ask, budget, clip, sweep] *)

NoPlan == <<>>

HedgeCap(s) ==
  Lesser(Greater(J.flip_tier, (Exposure(s) * J.flip_ratio) \div 100), J.flip_tier_max)

HedgeLeft(s) == HedgeCap(s) - s.hedge

FlipHedge(s, t, x) ==
  LET side == Opposite(s.primary)
      left == HedgeLeft(s)
  IN  IF /\ FlipTriggered(s, t, x)
         /\ s.hedge < HedgeCap(s)
         /\ t.ask[side] <= J.flip_max_ask
         /\ left >= J.probe_clip
      THEN <<[tier |-> "FlipHedge", side |-> side, ask |-> t.ask[side],
              budget |-> left, sweep |-> J.flip_sweep,
              clip |-> Lesser(Greater(J.flip_clip, J.probe_clip), left)]>>
      ELSE NoPlan

\* The price the exposure on the primary side was built at, as the code sees it.
Average(s, p) == s.rescue \div p.shares[s.primary]

DiscountReload(s, p, t, x, cash) ==
  LET ask  == t.ask[s.primary]
      left == Lesser(Lesser(RescueBudget(s, p, cash),
                            ExposureCap(ask, x, TailCap(ask)) - s.rescue),
                     J.discount_reload_max - s.reload)
  IN  IF /\ J.reload_enabled /\ HasPrimary(s)
         /\ s.primary = WinnerSide(t)
         /\ 0 < ask /\ ask <= J.discount_reload_max_ask
         /\ s.reload_clips < J.discount_reload_max_clips
         /\ p.shares[s.primary] > 0
         /\ s.rescue >= (ask + J.discount_reload_min_drop) * p.shares[s.primary]
         /\ GapToward(s.primary, t) >= J.discount_reload_min_gap
         /\ left >= J.probe_clip
      THEN <<[tier |-> "DiscountReload", side |-> s.primary, ask |-> ask,
              budget |-> left, sweep |-> 1,
              clip |-> Lesser(Greater(J.discount_reload_clip, J.probe_clip), left)]>>
      ELSE NoPlan

\* Confidence is zero on a coin flip and when the book firmly leads the other
\* side; a strong gap argues for at least half of the rescue budget.
Confident(t) ==
  /\ t.want >= 0
  /\ Strength(t) > J.final_seal_min_gap
  /\ ~(MidAgainst(WinnerSide(t), t) /\ t.firm)
Wanted(t) ==
  IF Strength(t) >= J.full_gap
  THEN Greater(t.want, (J.max_rescue * 55) \div 100) ELSE t.want

Composite(s, p, t, x, cash) ==
  LET side == WinnerSide(t)
      ask  == t.ask[side]
      cap  == ExposureCap(ask, x, Lesser(TailCap(ask), J.max_rescue))
      left == RescueBudget(s, p, cash)
      deployed == p.spent > 0 \/ \E a \in Sides : p.shares[a] > 0
      gain == IF deployed /\ (s.primary = side \/ p.shares[side] > 0)
              THEN ToTarget(p, side, ask) ELSE 0
      target == Lesser(Greater(Wanted(t), s.rescue + gain), cap)
      increment == Lesser(Greater(target - s.rescue, 0), left)
  IN  IF /\ 0 < ask /\ ask <= J.final_seal_max_ask
         /\ ask > J.expensive_ask =>
              s.rescue = 0 /\ Strength(t) >= J.expensive_min_gap
         /\ Confident(t)
         /\ s.rescue < cap
         /\ gain > 0 => /\ ask <= J.abort_ask
                        /\ gain <= left
                        /\ s.rescue + gain <= cap
         /\ increment >= J.probe_clip
         /\ s.rescue > 0 => increment >= J.min_increment
      THEN <<[tier |-> "FinalSeal", side |-> side, ask |-> ask, sweep |-> 1,
              budget |-> Lesser(increment, MaxClip(s, t)),
              clip |-> Lesser(increment, MaxClip(s, t))]>>
      ELSE NoPlan

\* Hedge first, then the reload, then the composite.
Plan(s, p, t, x, secs, armed, cash) ==
  IF ~InEndgame(Phase(secs, armed)) THEN NoPlan
  ELSE IF FlipHedge(s, t, x) # NoPlan THEN FlipHedge(s, t, x)
  ELSE IF ~DirectionalAllowed(s, t) THEN NoPlan
  ELSE IF DiscountReload(s, p, t, x, cash) # NoPlan
       THEN DiscountReload(s, p, t, x, cash)
       ELSE Composite(s, p, t, x, cash)

-----------------------------------------------------------------------------
(* Gates on a buy that is planned                                          *)

PrimaryTiers == {"FinalSeal", "DiscountReload"}
AddsToPrimary(s, plan) ==
  plan.tier \in PrimaryTiers /\ HasPrimary(s) /\ s.primary = plan.side
StrongMove(side, t) == GapToward(side, t) >= J.full_gap /\ VelToward(side, t) > 0

ReloadVelocityBlocks(plan, t) ==
  /\ plan.tier = "DiscountReload"
  /\ GapToward(plan.side, t) < J.full_gap
  /\ VelToward(plan.side, t) <= -2

LowAtrBlocks(s, plan, t) ==
  /\ t.low_atr
  /\ AddsToPrimary(s, plan)
  /\ plan.ask > J.deep_value_ask
  /\ ~StrongMove(plan.side, t)
  /\ Exposure(s) + plan.clip > J.low_atr_cap

PostTargetBlocks(s, p, plan, t) ==
  /\ J.target_profit > 0
  /\ Redeem(p, plan.side) >= J.target_profit
  /\ AddsToPrimary(s, plan)
  /\ plan.ask > J.deep_value_ask
  /\ ~(plan.ask <= J.expensive_ask /\ StrongMove(plan.side, t))

ChopVelocityBlocks(s, plan, t, x) ==
  SoftChop(x) /\ AddsToPrimary(s, plan) /\ VelToward(plan.side, t) <= 0

TailBlocks(s, plan, t, secs) ==
  /\ 0 < secs /\ secs <= TailSecs(J.rescue_zone_secs \div 2)
  /\ AddsToPrimary(s, plan)
  /\ WinnerSide(t) = plan.side
  /\ t.near_ptb

Gated(s, p, plan, sell, t, x, secs) ==
  \/ \E i \in DOMAIN sell : sell[i].side = plan.side
  \/ ReloadVelocityBlocks(plan, t)
  \/ LowAtrBlocks(s, plan, t)
  \/ PostTargetBlocks(s, p, plan, t)
  \/ ChopVelocityBlocks(s, plan, t, x)
  \/ TailBlocks(s, plan, t, secs)

NeverTooSoon(s, plan, secs) == FALSE   \* faulty variant of TooSoon
TooSoon(s, plan, secs) ==
  /\ plan.tier \in PrimaryTiers
  /\ s.last_buy >= 0
  /\ s.last_buy - secs < J.min_buy_interval

\* A hedge may want a hot tape; every buy wants a quote it may pay when the book
\* has no levels, and half a clip of depth when it has.
NoTape(plan, t)   == plan.tier = "FlipHedge" /\ J.flip_require_tape /\ ~t.tape
NoLevels(plan, t) == t.book_ask[plan.side] = 0
Thin(plan, t)     == IF NoLevels(plan, t) THEN plan.ask > MaxPay(plan.ask)
                                          ELSE 2 * t.depth < plan.clip

\* sweep_endgame_clips: clips of one size as long as the budget and the offers cover
\* one.  A side without levels, from the start or because the clips before took the
\* last of them exactly, offers every further clip whole at its top ask.
TakesLastLevel(plan, t) == ~t.deeper /\ t.depth % plan.clip = 0
Endless(plan, t) == /\ NoLevels(plan, t) \/ TakesLastLevel(plan, t)
                    /\ plan.ask <= MaxPay(plan.ask)
Payable(plan) == Lesser(plan.sweep, plan.budget \div plan.clip)
SweepCount(plan, t) ==
  IF Endless(plan, t) THEN Payable(plan)
  ELSE Lesser(Payable(plan), t.depth \div plan.clip)

\* None at an ask of zero; clips below the dollar are dropped after the sweep.  The
\* order is a market order: of its limit price the ask it was planned at is kept.
Clips(plan, t) ==
  LET best == Best(t.book_ask[plan.side], plan.ask)
      usd  == Whole(plan.clip, best)
      buy  == [op |-> "BUY", tier |-> plan.tier, side |-> plan.side,
               amount |-> usd, price |-> plan.ask, best |-> best]
  IN  IF plan.ask > 0 /\ usd >= Greater(J.probe_clip, Unit)
      THEN [i \in 1..SweepCount(plan, t) |-> buy] ELSE <<>>

\* process_live_tick from the plan on: a plan that is too soon, without tape or
\* without depth returns before the sale is pushed.
Signals(s, p, t, x, secs, armed, cash) ==
  LET sell == SellPlan(s, p, t, x, secs)
      plan == Plan(s, p, t, x, secs, armed, cash)
  IN  IF plan = NoPlan THEN sell
      ELSE IF TooSoon(s, plan[1], secs) THEN <<>>
      ELSE IF Gated(s, p, plan[1], sell, t, x, secs) THEN sell
      ELSE IF NoTape(plan[1], t) \/ Thin(plan[1], t) THEN <<>>
      ELSE sell \o Clips(plan[1], t)
=============================================================================
