------------------------------ MODULE FairValue ------------------------------
(***************************************************************************)
(* Strategy Dx (dynamic_grid_dx) of src/src/strategy/strategy_dx.rs on the *)
(* CURRENT window: one entry on the side whose ask is below its modelled   *)
(* chance, a hedge on the other side in steps, and four ways out.          *)
(*                                                                         *)
(* Time is in quarters of a minute, prices and dollars in cents, shares in *)
(* hundredths, the gap of the spot to the price to beat in hundredths of   *)
(* the move expected to the end, edges in tenths of a cent.                *)
(***************************************************************************)
EXTENDS Integers

CONSTANTS
  Duration,   \* of a window
  Moments,    \* times at which ticks come
  Books,      \* books a tick may show: [ask : [Sides -> cents], bid : ...]
  Gaps,       \* gaps a tick may show
  Micros,     \* what runs to a side or "none": the spot, at a strength, the price of UP
              \* itself, and the trades of the other exchange, at the strength of a veto
  MinBudget,  \* session: of a window, before the parts for the regime
  MaxBudgets  \* session: at most this, one of these in the configuration

FairValueAssumption ==
  /\ Duration \in Nat \ {0} /\ Moments \subseteq 0 .. Duration /\ 0 \in Moments
  /\ Books \subseteq [bid : [{"UP", "DOWN"} -> 0 .. 100], ask : [{"UP", "DOWN"} -> 0 .. 100]]
  /\ Gaps \subseteq Int
  /\ Micros \subseteq [spot : {"UP", "DOWN", "none"}, strength : 0 .. 2,
                      prob : {"UP", "DOWN", "none"}, cex : {"UP", "DOWN", "none"}]
  /\ MinBudget \in Nat /\ MaxBudgets \subseteq Nat

VARIABLES
  now,
  shares, bought, cost, returned,    \* of the window in the ledger, by side
  primary_side, primary_entry_price, \* of the strategy
  sell_steps, ptb_baseline, ptb_crossed,
  max_budget, panicked,
  salvaging, dumped                  \* history: see below

ledger  == <<shares, bought, cost, returned>>
thesis  == <<primary_side, primary_entry_price>>
history == <<salvaging, dumped>>
vars    == <<now, ledger, thesis, sell_steps, ptb_baseline, ptb_crossed, max_budget, panicked, history>>

Sides == {"UP", "DOWN"}
Other(side) == IF side = "UP" THEN "DOWN" ELSE "UP"
SignOf(side) == IF side = "UP" THEN 1 ELSE -1

Least(a, b) == IF a <= b THEN a ELSE b
Most(a, b)  == IF a >= b THEN a ELSE b

Spent    == cost["UP"] + cost["DOWN"]
Returned == returned["UP"] + returned["DOWN"]
Pair     == Least(shares["UP"], shares["DOWN"])
Hedging  == Other(primary_side)

\* salvaging: the last tick fired the salvage; dumped: the salvage sold.
Init ==
  /\ now = 0
  /\ shares = [side \in Sides |-> 0]
  /\ bought = shares /\ cost = shares /\ returned = shares
  /\ primary_side = "none" /\ primary_entry_price = 0 /\ sell_steps = 0
  /\ ptb_baseline = "none" /\ ptb_crossed = FALSE
  /\ max_budget \in MaxBudgets /\ panicked = FALSE
  /\ salvaging = FALSE /\ dumped = FALSE

Pass ==
  /\ ~panicked
  /\ now' \in Moments /\ now' > now
  /\ salvaging' = FALSE
  /\ UNCHANGED <<ledger, thesis, sell_steps, ptb_baseline, ptb_crossed, panicked, max_budget, dumped>>

-----------------------------------------------------------------------------
(* What a tick shows                                                       *)

TimePct == (now * 100) \div Duration
SecondsLeft == 15 * (Duration - now)

\* DxPhase::from_time_pct
Phase ==
  IF TimePct < 3 THEN "observe" ELSE IF TimePct < 47 THEN "entry"
  ELSE IF TimePct < 76 THEN "manage" ELSE IF TimePct < 90 THEN "late" ELSE "final"

\* The chance of UP, by the distribution of the gap at the end.
NormalCdf(z) ==
  IF z < 0 THEN 100 - (IF z > -10 THEN 50 ELSE IF z > -30 THEN 54 ELSE IF z > -60 THEN 62
                       ELSE IF z > -100 THEN 73 ELSE IF z > -150 THEN 84 ELSE 93)
  ELSE IF z < 10 THEN 50 ELSE IF z < 30 THEN 54 ELSE IF z < 60 THEN 62
       ELSE IF z < 100 THEN 73 ELSE IF z < 150 THEN 84 ELSE 93

\* A spot that moves takes the gap with it, at most by 65% of the expected move.
FairUp(gap, micro) ==
  NormalCdf(gap + (IF micro.strength < 2 THEN 0 ELSE 30 * SignOf(micro.spot)))

Ticks ==
  {[bid |-> book.bid, ask |-> book.ask, gap |-> gap, micro |-> micro,
    fair |-> [side \in Sides |-> IF side = "UP" THEN FairUp(gap, micro)
                                 ELSE 100 - FairUp(gap, micro)]] :
     book \in Books, gap \in Gaps, micro \in Micros}

Mid(side, t)  == (t.bid[side] + t.ask[side]) \div 2
Edge(side, t) == 10 * (t.fair[side] - t.ask[side])
Relation(t)   == IF t.gap > 0 THEN "UP" ELSE IF t.gap < 0 THEN "DOWN" ELSE "none"
Favors(side, t) == Relation(t) = side

\* update_ptb_cross_state: the first relation is the baseline, any other a cross.
Crossed(t) ==
  ptb_crossed \/ (ptb_baseline # "none" /\ Relation(t) \notin {"none", ptb_baseline})
SeeSpot(t) ==
  /\ ptb_baseline' = IF ptb_baseline = "none" THEN Relation(t) ELSE ptb_baseline
  /\ ptb_crossed' = Crossed(t)

\* The spot, and the price of UP itself, may confirm a side or speak against it.
SpotConfirms(side, t) == IF t.micro.spot = side THEN t.micro.strength ELSE 0
Counters(side, t)     == t.micro.spot = Other(side) /\ t.micro.strength = 2
ProbConfirms(side, t) == t.micro.prob = side
ProbBlocks(side, t)   == t.micro.prob = Other(side)

-----------------------------------------------------------------------------
(* The ledger                                                              *)

Buy(side, amount, price) ==
  /\ shares' = [shares EXCEPT ![side] = @ + (amount * 100) \div price]
  /\ bought' = [bought EXCEPT ![side] = @ + (amount * 100) \div price]
  /\ cost' = [cost EXCEPT ![side] = @ + amount]
  /\ UNCHANGED returned

Sell(side, amount, price) ==
  /\ shares' = [shares EXCEPT ![side] = @ - amount]
  /\ returned' = [returned EXCEPT ![side] = @ + (amount * price) \div 100]
  /\ UNCHANGED <<bought, cost>>

\* At least `above` tenths of a cent over the average paid.
Clears(side, price, above) ==
  10 * price * bought[side] >= 1000 * cost[side] + above * bought[side]

-----------------------------------------------------------------------------
(* The entry                                                               *)

IsLate == Phase = "late" \/ TimePct > 72
MinEdge == IF IsLate THEN 40 ELSE IF Phase = "manage" THEN 28 ELSE 20
MinProb == IF IsLate THEN 58 ELSE IF Phase = "manage" THEN 56 ELSE 54
MinGap  == IF IsLate THEN 48 ELSE IF Phase = "manage" THEN 26 ELSE 28

GapSide(t)  == IF t.gap >= 0 THEN "UP" ELSE "DOWN"
FairSide(t) == IF Edge("UP", t) >= Edge("DOWN", t) THEN "UP" ELSE "DOWN"
Verdict(t)  == {side \in Sides : TimePct >= 70 /\ Mid(side, t) >= 60
                                 /\ Mid(side, t) >= Mid(Other(side), t) + 8}

\* The verdict of the market late in the window, else the side of the gap, else
\* the side with the better edge.
EntrySource(t) ==
  IF Verdict(t) # {} THEN "verdict"
  ELSE IF Edge(GapSide(t), t) >= MinEdge THEN "gap"
  ELSE IF SignOf(FairSide(t)) * t.gap >= 10 /\ Edge(FairSide(t), t) >= MinEdge + 15 THEN "fair"
  ELSE "none"
EntrySide(t) ==
  CASE EntrySource(t) = "verdict" -> CHOOSE side \in Sides : side \in Verdict(t)
    [] EntrySource(t) = "fair" -> FairSide(t)
    [] OTHER -> GapSide(t)

HasMicro(side, t) == SpotConfirms(side, t) > 0 \/ ProbConfirms(side, t)

\* entry_has_sufficient_confirmation
Confirmed(side, t) ==
  LET spot == SpotConfirms(side, t) gap == SignOf(side) * t.gap IN
  \/ ProbConfirms(side, t) \/ spot >= 2
  \/ spot >= 1 /\ (Edge(side, t) >= 120 \/ gap >= 45 \/ Mid(side, t) >= 55)
  \/ Mid(side, t) >= 55 /\ gap >= 18 /\ Edge(side, t) >= 30

\* The price is not dear and the side not doubtful, by what the tick shows.
Passes(t) ==
  LET side == EntrySide(t)
      verdict == EntrySource(t) = "verdict"
      gap == SignOf(side) * t.gap
      ask == t.ask[side]
      edge == MinEdge + (IF HasMicro(side, t) THEN 0 ELSE 10)
  IN
  /\ ask > 0 /\ t.bid[side] > 0 /\ ask <= 78
  /\ verdict \/ TimePct >= 70 \/ ask <= 66
  /\ ask - t.bid[side] <= IF Phase = "late" THEN 7 ELSE 9
  /\ Edge(side, t) >= edge /\ t.fair[side] >= MinProb /\ gap >= MinGap
  /\ ~Counters(side, t) /\ ~ProbBlocks(side, t)
  /\ verdict => (gap >= 5 \/ HasMicro(side, t))
  /\ verdict \/ Confirmed(side, t)
  /\ ask > 60 => (gap >= 45 /\ (HasMicro(side, t) \/ verdict))
  /\ ask >= 62 => (verdict \/ SpotConfirms(side, t) >= 2 \/ ProbConfirms(side, t))
  /\ (~verdict /\ (Phase \in {"manage", "late"} \/ TimePct > 47)) => gap >= 40

EntryDue(t) ==
  /\ Spent = 0
  /\ Phase \in {"entry", "manage", "late"} /\ TimePct <= 88
  /\ EntrySource(t) # "none" /\ Passes(t)

\* A budget clamped between a dollar and a maximum below it stops the program;
\* part: of the budget, by the regime of the ATR.
EntryPanics(t) ==
  /\ EntryDue(t) /\ max_budget < 100
  /\ panicked' = TRUE
  /\ UNCHANGED <<now, ledger, thesis, sell_steps, ptb_baseline, ptb_crossed, max_budget, history>>

\* faulty variant of Thesis: the first signal is kept, bought or not
ThesisOfTheFirst(t) ==
  /\ primary_side' = IF primary_side = "none" THEN EntrySide(t) ELSE primary_side
  /\ primary_entry_price' = IF primary_side = "none" THEN t.ask[EntrySide(t)]
                            ELSE primary_entry_price
Thesis(t) ==
  /\ primary_side' = EntrySide(t)
  /\ primary_entry_price' = t.ask[EntrySide(t)]

\* The thesis is set before the ledger accepts the buy, or refuses it.
Enter(t, part) ==
  /\ EntryDue(t) /\ max_budget >= 100
  /\ Thesis(t)
  /\ \/ Buy(EntrySide(t), Most(100, Least((MinBudget * part) \div 100, max_budget)), t.ask[EntrySide(t)])
     \/ UNCHANGED ledger
  /\ salvaging' = FALSE
  /\ SeeSpot(t)
  /\ UNCHANGED <<now, sell_steps, max_budget, panicked, dumped>>

-----------------------------------------------------------------------------
(* The hedge                                                               *)

Adverse(t) == Crossed(t) /\ ~Favors(primary_side, t)
Doubtful(t) == Counters(primary_side, t) \/ ProbBlocks(primary_side, t)
Wrong(t)   == t.fair[primary_side] <= 42 /\ Adverse(t) /\ Doubtful(t)

\* How much of the primary is to be covered, in percent.
HedgeTarget(t) ==
  LET pair_cost == primary_entry_price + t.ask[Hedging] IN
  IF Wrong(t) /\ pair_cost <= 112 THEN 55
  ELSE IF Edge(Hedging, t) >= 35 /\ pair_cost <= 105 /\ (Adverse(t) \/ Doubtful(t))
       THEN IF Adverse(t) THEN 35 ELSE 18
  ELSE 0

\* What is missing to the target, at most 12% of what was spent in one step and
\* 35% of it in all.
HedgeAmount(t) ==
  LET ratio == Least((shares[Hedging] * 100) \div shares[primary_side], 100)
      desired == (shares[primary_side] * Most(HedgeTarget(t) - ratio, 0) * t.ask[Hedging]) \div 10000
      room == Most((Spent * 35) \div 100 - cost[Hedging], 0)
  IN Least(Least(desired, (Spent * 12) \div 100), room)

HedgeDue(t) ==
  /\ shares[primary_side] > 0
  /\ t.ask[Hedging] > 0 /\ t.ask[Hedging] <= IF Wrong(t) THEN 52 ELSE 42
  /\ TimePct < 90
  /\ HedgeTarget(t) > 0 /\ HedgeAmount(t) >= 100

\* The hedge goes whole when its bid is over the average paid and over its chance.
UnwindDue(t) ==
  /\ shares[Hedging] > 0
  /\ Clears(Hedging, t.bid[Hedging], 55)
  /\ 10 * (t.bid[Hedging] - t.fair[Hedging]) >= 15

-----------------------------------------------------------------------------
(* The primary                                                             *)

Bid(t) == t.bid[primary_side]
BidEdge(t) == 10 * (Bid(t) - t.fair[primary_side])
Recovered == 100 * Returned >= 95 * Spent

\* evaluate_redeem_hold: late, deep in the money, likely to win, not running back.
RedeemHolds(t) ==
  /\ SecondsLeft <= 180 \/ TimePct >= 75
  /\ (IF t.gap < 0 THEN -t.gap ELSE t.gap) >= 100
  /\ t.fair[primary_side] >= 65 /\ Bid(t) < 95
  /\ ~Counters(primary_side, t) /\ t.micro.cex # Other(primary_side)
\* primary_should_hold_for_redeem
Holds(t) ==
  /\ Favors(primary_side, t) /\ ~Crossed(t)
  /\ \/ RedeemHolds(t)
     \/ /\ Recovered /\ (SecondsLeft <= 55 \/ TimePct >= 70)
        /\ t.fair[primary_side] >= 70 /\ Bid(t) >= 70
     \/ /\ TimePct >= 65 \/ SecondsLeft <= 120
        /\ Bid(t) >= 72 /\ t.fair[primary_side] >= 58

\* A winner bid well over its cost but at its fair value is sold whole.
ProfitDue(t) ==
  /\ shares[primary_side] > 0
  /\ Favors(primary_side, t)
  /\ Clears(primary_side, Bid(t), 120)
  /\ BidEdge(t) < 35 /\ BidEdge(t) >= -30

\* primary_ptb_target: lower near the end.
Target ==
  LET late == Phase \in {"late", "final"} IN
  CASE sell_steps = 0 -> IF late THEN 48 ELSE 60
    [] sell_steps = 1 -> IF late THEN 100 ELSE 125
    [] OTHER -> IF late THEN 176 ELSE 220

LadderPart(t) ==
  IF sell_steps = 0 THEN 35 ELSE IF sell_steps = 1 \/ Favors(primary_side, t) THEN 25 ELSE 100
RunnerFloor(t) ==
  IF Favors(primary_side, t) /\ t.fair[primary_side] >= 60 /\ Recovered
  THEN (bought[primary_side] * 45) \div 100 ELSE 0

\* A part of the primary, out of what the hedge does not cover and above the
\* runner; not worth an order below 75 cents.
LadderAmount(t) ==
  LET held == shares[primary_side]
      surplus == held - Pair
      part == (held * LadderPart(t)) \div 100
      uncovered == IF surplus > 0 THEN Least(part, surplus)
                   ELSE IF Bid(t) < 80 /\ Phase # "final" THEN 0 ELSE part
      amount == IF RunnerFloor(t) > 0 THEN Least(uncovered, Most(held - RunnerFloor(t), 0))
                ELSE uncovered
  IN IF amount * Bid(t) < 7500 THEN 0 ELSE amount

LadderAnywhere(t) == \* faulty variant of LadderDue: the target is not asked
  /\ shares[primary_side] > 0 /\ ~Holds(t) /\ sell_steps < 3
  /\ BidEdge(t) >= 50 /\ (Recovered \/ ~Favors(primary_side, t)) /\ LadderAmount(t) > 0
LadderDue(t) ==
  /\ shares[primary_side] > 0
  /\ ~Holds(t)
  /\ sell_steps < 3
  /\ Clears(primary_side, Bid(t), Target)
  /\ BidEdge(t) >= 50
  /\ Recovered \/ ~Favors(primary_side, t)
  /\ LadderAmount(t) > 0

SurplusOf(side) == shares[side] - Pair

\* What is over the pair and losing is sold for what is left of it.
Salvaged(t) ==
  {side \in Sides : /\ side # primary_side \/ Pair > 0
                    /\ SurplusOf(side) > 0
                    /\ ~Favors(side, t)
                    /\ t.bid[side] >= 5 /\ t.bid[side] >= t.fair[side] + 2}

-----------------------------------------------------------------------------
(* A tick fires the first rule that applies                                *)

Rule(t) ==
  IF primary_side = "none" \/ Spent = 0 THEN "none"
  ELSE IF HedgeDue(t) THEN "hedge"
  ELSE IF UnwindDue(t) THEN "unwind"
  ELSE IF ProfitDue(t) THEN "profit"
  ELSE IF LadderDue(t) THEN "ladder"
  ELSE IF Phase = "final" /\ Salvaged(t) # {} THEN "salvage"
  ELSE "none"

Fires(name, t) == Rule(t) = name /\ salvaging' = (name = "salvage") /\ SeeSpot(t)
Kept == <<now, thesis, max_budget, panicked>>

Hedge(t) ==
  /\ Fires("hedge", t)
  /\ Buy(Hedging, HedgeAmount(t), t.ask[Hedging]) \/ UNCHANGED ledger
  /\ UNCHANGED <<Kept, sell_steps, dumped>>

Unwind(t) ==
  /\ Fires("unwind", t)
  /\ Sell(Hedging, shares[Hedging], t.bid[Hedging])
  /\ UNCHANGED <<Kept, sell_steps, dumped>>

TakeProfit(t) ==
  /\ Fires("profit", t)
  /\ Sell(primary_side, shares[primary_side], Bid(t))
  /\ UNCHANGED <<Kept, sell_steps, dumped>>

Ladder(t) ==
  /\ Fires("ladder", t)
  /\ Sell(primary_side, LadderAmount(t), Bid(t))
  /\ sell_steps' = sell_steps + 1
  /\ UNCHANGED <<Kept, dumped>>

\* UP is looked at before DOWN.
Salvage(t) ==
  /\ Fires("salvage", t)
  /\ LET side == IF "UP" \in Salvaged(t) THEN "UP" ELSE "DOWN" IN
       Sell(side, SurplusOf(side), t.bid[side])
  /\ dumped' = TRUE
  /\ UNCHANGED <<Kept, sell_steps>>

Watch(t) ==
  /\ ~EntryDue(t) /\ Fires("none", t)
  /\ UNCHANGED <<Kept, ledger, sell_steps, dumped>>

\* Without a valid ATR only the cross is noted.
WatchQuiet(t) ==
  /\ salvaging' = FALSE /\ SeeSpot(t)
  /\ UNCHANGED <<Kept, ledger, sell_steps, dumped>>

Tick(t) ==
  /\ ~panicked
  /\ \/ EntryPanics(t) \/ (\E part \in {14, 22, 30} : Enter(t, part))
     \/ Hedge(t) \/ Unwind(t) \/ TakeProfit(t) \/ Ladder(t) \/ Salvage(t)
     \/ Watch(t) \/ WatchQuiet(t)

Next == Pass \/ \E t \in Ticks : Tick(t)
Spec == Init /\ [][Next]_vars

-----------------------------------------------------------------------------
(* Properties                                                              *)

TypeOK ==
  /\ now \in Moments /\ max_budget \in MaxBudgets /\ panicked \in BOOLEAN /\ dumped \in BOOLEAN
  /\ salvaging \in BOOLEAN
  /\ shares \in [Sides -> Nat] /\ bought \in [Sides -> Nat]
  /\ cost \in [Sides -> Nat] /\ returned \in [Sides -> Nat]
  /\ primary_side \in Sides \cup {"none"} /\ primary_entry_price \in 0 .. 100
  /\ sell_steps \in 0 .. 3
  /\ ptb_baseline \in Sides \cup {"none"} /\ ptb_crossed \in BOOLEAN

\* "Hedge buys are optional and capped": over all steps, unwound and bought again
\* included, they cost at most 35% of what the window cost.
HedgeCapped ==
  primary_side # "none" => 100 * cost[Hedging] <= 35 * Spent

\* The side that is managed is the one that was bought, though the thesis is set
\* at the signal and an entry may be refused and signalled again on the other side.
PrimaryWasBought ==
  Spent > 0 => bought[primary_side] > 0

\* As long as the salvage sold nothing, what the ladder and the profit sold of
\* the primary returned what it had cost (a cent of rounding for each sale).
PrimaryPays ==
  (Spent > 0 /\ ~dumped) =>
    cost[primary_side] * (bought[primary_side] - shares[primary_side])
      <= (returned[primary_side] + 4) * bought[primary_side]

\* A step of the salvage never breaks a pair that redeems for a dollar.
SalvageKeepsPair == salvaging' => Pair' = Pair

-----------------------------------------------------------------------------
(* What the steps preserve together                                        *)

\* What is held was bought, and what was bought was paid for.
HeldWasPaid ==
  /\ Spent > 0 => primary_side \in Sides
  /\ \A side \in Sides : shares[side] <= bought[side] /\ (cost[side] = 0 => bought[side] = 0)

\* PrimaryPays, with the cents of rounding counted: one for each step of the ladder,
\* and one for the sale that leaves nothing.
SalesPay ==
  (Spent > 0 /\ ~dumped) =>
    cost[primary_side] * (bought[primary_side] - shares[primary_side])
      <= (returned[primary_side] + sell_steps + (IF shares[primary_side] = 0 THEN 1 ELSE 0))
           * bought[primary_side]

ValueInv == TypeOK /\ HedgeCapped /\ PrimaryWasBought /\ HeldWasPaid /\ SalesPay
=============================================================================
