------------------------------- MODULE PairGrid -------------------------------
(***************************************************************************)
(* Strategy D (dynamic_grid) of src/src/strategy/strategy_d.rs on a window *)
(* entered on both sides: a grid sells the leading side in three steps, a  *)
(* reserve of the other side is kept as insurance, and small scalps are    *)
(* bought on it.  Several rules may sell on one tick, each off what the    *)
(* rules before it have left (`plan`); the ledger executes their signals.  *)
(*                                                                         *)
(* Time is in quarters of a minute, prices and dollars in cents, shares in *)
(* hundredths; gap is that of the spot to the price to beat in hundredths  *)
(* of the move expected to the end.  The cross of the price to beat is     *)
(* recorded for display only, and left out.                                *)
(***************************************************************************)
EXTENDS Integers

CONSTANTS
  Duration,   \* of a window
  Moments,    \* times of the ticks: the first of them, and any of the later ones
  Books,      \* books a tick may show: [ask : [Sides -> cents], bid : ...]
  Spots,      \* [known, gap, zone, close]: of the spot and the price to beat
  Atrs,       \* dollars
  Velocities, \* of the spot toward UP: 1 beyond the limit of a bias, 2 of the hold
  Entries,    \* [shares : [Sides -> hundredths], spent : cents] before the start
  MinTrade    \* MIN_TRADE_USD

Sides == {"UP", "DOWN"}
Other(side) == IF side = "UP" THEN "DOWN" ELSE "UP"

\* Shares bought: for a dollar at least (MIN_TRADE_USD), at less than a dollar each;
\* none when the side was too small to be bought.
Bought == Nat \ (0 .. 99)

PairGridAssumption ==
  /\ Duration \in Nat \ {0} /\ Moments \subseteq 0 .. Duration /\ 0 \in Moments
  /\ Atrs \subseteq Nat /\ Velocities \subseteq -2 .. 2 /\ MinTrade \in Nat \ {0}
  /\ \A e \in Entries : e.spent \in Nat \ {0} /\ e.shares \in [Sides -> {0} \cup Bought]
  /\ \A b \in Books : b.bid \in [Sides -> 0 .. 100] /\ b.ask \in [Sides -> 0 .. 100]
  /\ \A s \in Spots : /\ s.known \in BOOLEAN /\ s.close \in BOOLEAN /\ s.gap \in Int
                      /\ ~s.known => s.gap = 0 /\ s.zone = "unknown" /\ ~s.close

VARIABLES
  now,
  shares, initial_shares, spent, cash_returned, \* of the window in the ledger
  sold, first_sold_side, steps_hit,             \* of the strategy
  scalp,        \* tranches and active shares and cost of the scalps, by side
  reserve,      \* weak_exit_insurance_reserve
  released      \* history: a rule waived the insurance, or a scalp was signalled

ledger == <<shares, initial_shares, spent, cash_returned>>
state  == <<sold, first_sold_side, steps_hit, scalp, reserve>>
vars   == <<now, ledger, state, released>>

Least(a, b) == IF a <= b THEN a ELSE b
Most(a, b)  == IF a >= b THEN a ELSE b
Clamp(a, low, high) == Most(low, Least(a, high))
Part(percent, amount) == (amount * percent) \div 100

NoScalp == [tranches |-> 0, shares |-> 0, cost |-> 0]

Init ==
  /\ now = 0
  /\ \E e \in Entries : shares = e.shares /\ spent = e.spent
  /\ initial_shares = shares /\ cash_returned = 0
  /\ sold = [side \in Sides |-> FALSE] /\ first_sold_side = "none"
  /\ steps_hit = [side \in Sides |-> 0]
  /\ scalp = [side \in Sides |-> NoScalp]
  /\ reserve = [side \in Sides |-> 0]
  /\ released = FALSE

TimePct == (now * 100) \div Duration
SecondsLeft == 15 * (Duration - now)

-----------------------------------------------------------------------------
(* What a tick shows                                                       *)

Ticks == [book : Books, spot : Spots, atr : Atrs, velocity : Velocities]

Bid(side, t) == t.book.bid[side]
Ask(side, t) == t.book.ask[side]
Itm(side, t) == t.spot.known /\ IF side = "UP" THEN t.spot.gap > 0 ELSE t.spot.gap < 0
Bias(side, t) ==
  LET toward == IF side = "UP" THEN t.velocity ELSE -t.velocity
  IN  IF toward > 0 THEN 1 ELSE IF toward < 0 THEN -1 ELSE 0

\* normal_cdf of the gap, the drift of the velocity left out.
FairUp(gap) ==
  IF gap >= 150 THEN 93 ELSE IF gap >= 100 THEN 84 ELSE IF gap >= 20 THEN 62
  ELSE IF gap > 0 THEN 53 ELSE IF gap = 0 THEN 50 ELSE IF gap > -20 THEN 47
  ELSE IF gap > -100 THEN 38 ELSE IF gap > -150 THEN 16 ELSE 7
Fair(side, t) == IF side = "UP" THEN FairUp(t.spot.gap) ELSE 100 - FairUp(t.spot.gap)
Edge(side, t) == Bid(side, t) - Fair(side, t)
Overpaid(side, t) == Edge(side, t) >= 1

Leader(t) ==
  IF Bid("UP", t) >= Bid("DOWN", t) + 2 THEN "UP"
  ELSE IF Bid("DOWN", t) >= Bid("UP", t) + 2 THEN "DOWN"
  ELSE IF initial_shares["UP"] >= initial_shares["DOWN"] THEN "UP" ELSE "DOWN"

\* should_hold_winner_for_redeem
Holds(t) ==
  /\ Bid(Leader(t), t) >= 66 /\ Itm(Leader(t), t)
  /\ t.velocity # IF Leader(t) = "UP" THEN -2 ELSE 2
  /\ \/ t.spot.zone = "runaway"
     \/ t.spot.zone = "far" /\ t.atr >= 18
     \/ t.spot.zone = "moderate" /\ TimePct >= 70
  /\ TimePct >= 45 \/ SecondsLeft <= 240

\* recovered_ratio, of the window as the tick finds it
Recovered(percent) == 100 * cash_returned >= percent * spent
CapitalProtected == Recovered(70)

-----------------------------------------------------------------------------
(* A plan: what the rules of a tick have sold so far                       *)

Plan == [shares |-> shares, returned |-> cash_returned, sold |-> sold,
         first |-> first_sold_side, steps |-> steps_hit, scalp |-> scalp,
         reserve |-> reserve, buys |-> 0, scalped |-> FALSE, waived |-> FALSE]

Sells(p, side, amount, t) ==
  [p EXCEPT !.shares[side] = @ - amount,
            !.returned = @ + (amount * Bid(side, t)) \div 100]

-----------------------------------------------------------------------------
(* The last 15%: the surplus of a losing side                              *)

Late == SecondsLeft <= (15 * Duration * 15) \div 100

Surplus(p, side, t) ==
  IF Itm(side, t) \/ ~Overpaid(side, t) THEN 0
  ELSE Most(p.shares[side] - p.shares[Other(side)], 0)

Emergency(p, side, t) ==
  LET amount == Surplus(p, side, t)
      after  == Sells(p, side, amount, t)
  IN  IF /\ Late /\ amount > 0 /\ Bid(side, t) >= 20 /\ ~p.sold[side]
         /\ ~(Holds(t) /\ Leader(t) = side)
      THEN IF after.shares[side] = 0
           THEN [after EXCEPT !.sold[side] = TRUE, !.reserve[side] = 0, !.waived = TRUE,
                              !.scalp[side].shares = 0, !.scalp[side].cost = 0]
           ELSE [after EXCEPT !.waived = TRUE]
      ELSE p

-----------------------------------------------------------------------------
(* The grid of the leading side                                            *)

\* The targets of the three steps: earlier in a dull or an old window, later
\* where the spot ran away, moved by the velocity.
BaseTarget(step, t) ==
  LET weary == t.atr < 15
      ran   == t.spot.zone \in {"far", "runaway"} /\ t.atr >= 30
      cheap == initial_shares[Leader(t)] > initial_shares[Other(Leader(t))]
  IN CASE step = 0 -> IF TimePct < 30 /\ t.atr >= 30 THEN 62
                      ELSE IF TimePct >= 60 \/ weary THEN 54 ELSE 58
       [] step = 1 -> IF TimePct < 60 /\ t.atr >= 30 THEN 72
                      ELSE IF TimePct >= 80 \/ weary THEN 60 ELSE 66
       [] step = 2 -> IF ran THEN (IF cheap THEN 92 ELSE 85)
                      ELSE IF TimePct >= 80 \/ weary THEN 68 ELSE 75
Push(step, t) ==
  CASE Bias(Leader(t), t) = 1  -> IF TimePct < <<70, 80, 90>>[step + 1]
                                  THEN <<1, 3, 4>>[step + 1] ELSE 0
    [] Bias(Leader(t), t) = -1 -> -(<<2, 3, 5>>[step + 1])
    [] OTHER -> 0
Target(step, t) == Clamp(BaseTarget(step, t) + Push(step, t), 8, 94)

StepAllowed(step, t) ==
  \/ TimePct >= <<20, 45, 75>>[step + 1] /\ Edge(Leader(t), t) >= <<2, 4, 6>>[step + 1]
  \/ Edge(Leader(t), t) >= <<12, 18, 24>>[step + 1]

\* What the window is worth at least: the cash and the pairs.
Floor(returned, mine, others) == returned + Least(mine, others)
MaxSacrifice(returned) == Part(IF 100 * returned >= 70 * spent THEN 12 ELSE 8, spent)

\* The last step keeps a runner, and sells of the pairs only what the floor spares.
LastStep(p, side, t) ==
  LET mine     == p.shares[side]
      others   == p.shares[Other(side)]
      proposed == Most(mine - Part(35, initial_shares[side]), 0)
      surplus  == Least(proposed, Most(mine - others, 0))
      after    == Floor(p.returned + (proposed * Bid(side, t)) \div 100,
                        mine - proposed, others)
      spared   == (100 * MaxSacrifice(p.returned)) \div Most(100 - Bid(side, t), 1)
  IN  IF proposed = surplus \/ after >= spent \/ after >= Floor(p.returned, mine, others)
      THEN proposed
      ELSE Least(surplus + Least(proposed - surplus, spared), proposed)

GridAmount(p, side, step, t) ==
  IF Holds(t) /\ step >= 1 THEN Least(Part(20, initial_shares[side]), p.shares[side])
  ELSE IF step < 2 THEN Least(Part(25, initial_shares[side]), p.shares[side])
  ELSE IF Bid(side, t) >= 90 THEN p.shares[side]
  ELSE LastStep(p, side, t)

\* insurance_tail_release_allowed
Releases(side, t) ==
  ~Itm(side, t) /\ (Bid(side, t) >= 90 \/ (TimePct >= 90 /\ Overpaid(side, t)))

\* cap_sell_by_insurance_tail
Capped(p, side, amount, t) ==
  IF p.reserve[side] = 0 \/ Releases(side, t) THEN amount
  ELSE Least(amount, Most(p.shares[side] - p.reserve[side], 0))

StrongGrid(p, t) ==
  LET side   == Leader(t)
      step   == p.steps[side]
      amount == Capped(p, side, GridAmount(p, side, step, t), t)
      climbed == IF Holds(t) /\ step >= 1 THEN 3 ELSE step + 1
      after  == Sells(p, side, amount, t)
  IN  IF /\ ~p.sold[side] /\ p.shares[side] > 0 /\ step < 3
         /\ Bid(side, t) >= Target(step, t) /\ StepAllowed(step, t)
         /\ ~(Holds(t) /\ step >= 1 /\ Bid(side, t) < 90)
         /\ amount > 0
      THEN [after EXCEPT
              !.steps[side] = climbed,
              !.sold[side] = @ \/ (~Holds(t) /\ climbed = 3 /\ after.shares[side] = 0),
              !.first = IF @ = "none" THEN side ELSE @,
              !.waived = @ \/ Bid(side, t) >= 90 \/ Releases(side, t)]
      ELSE p

-----------------------------------------------------------------------------
(* Scalps of the other side                                                *)

ScalpTarget(s, t) == Clamp(s.cost * 100 + (IF t.atr >= 45 THEN 8 ELSE 6) * s.shares,
                           14 * s.shares, 42 * s.shares)
ScalpCap(t) == IF t.atr >= 90 THEN 18 ELSE IF t.atr >= 45 THEN 20 ELSE IF t.atr >= 18 THEN 22 ELSE 12
ScalpUsd == (spent * 35) \div 1000

ScalpDue(p, side, t) ==
  /\ TimePct <= 55 /\ Recovered(40) /\ ~CapitalProtected
  /\ t.spot.zone \in {"near", "moderate"} /\ t.spot.close
  /\ Ask(side, t) > 0 /\ Ask(side, t) <= ScalpCap(t)
  /\ 5 * p.shares[Other(side)] >= initial_shares[Other(side)]
  /\ Bias(side, t) = 1
  /\ p.scalp[side].tranches < 2
  /\ ScalpUsd >= 35

\* A scalp is held from its signal on; its sale takes what is there of it.
Scalp(p, t) ==
  LET side   == Other(Leader(t))
      s      == p.scalp[side]
      active == s.shares > 0 /\ s.cost > 0
  IN  IF active
      THEN IF Bid(side, t) * s.shares >= ScalpTarget(s, t)
           THEN [Sells(p, side, Least(s.shares, p.shares[side]), t) EXCEPT
                   !.scalp[side].shares = 0, !.scalp[side].cost = 0, !.scalped = TRUE]
           ELSE p
      ELSE IF ScalpDue(p, side, t)
           THEN [p EXCEPT !.buys = ScalpUsd,
                          !.scalp[side] = [tranches |-> s.tranches + 1,
                                           shares |-> (ScalpUsd * 100) \div Ask(side, t),
                                           cost |-> ScalpUsd]]
           ELSE p

-----------------------------------------------------------------------------
(* The exit of the other side, once the first was sold                     *)

WeakBase(t) ==
  LET zone == t.spot.zone IN
  IF TimePct < 30 THEN (IF t.atr >= 30 THEN 65 ELSE IF t.atr < 15 THEN 40 ELSE 50)
  ELSE IF TimePct < 60
  THEN IF zone = "near" THEN 65 ELSE IF zone = "moderate" THEN 30
       ELSE IF t.atr >= 30 THEN 22 ELSE IF t.atr < 15 THEN 17 ELSE 20
  ELSE IF TimePct < 80
  THEN IF zone = "near" THEN 45 ELSE IF zone \in {"moderate", "far"} THEN 20 ELSE 12
  ELSE IF TimePct < 90 THEN (IF zone = "near" THEN 30 ELSE 10)
  ELSE 8
WeakPush(side, t) ==
  CASE Bias(side, t) = 1  -> IF TimePct < 60 THEN 4 ELSE IF TimePct < 80 THEN 2 ELSE 0
    [] Bias(side, t) = -1 -> IF TimePct < 60 THEN -3 ELSE -4
    [] OTHER -> 0
WeakTarget(side, t) ==
  LET target == Clamp(WeakBase(t) + WeakPush(side, t), 6, 70)
  IN  IF CapitalProtected
      THEN Least(target, IF TimePct < 30 THEN 42 ELSE IF TimePct < 60 THEN 28 ELSE 18)
      ELSE target

\* Late, a bid that covers what the window still owes will do.
PaysBack(p, side, t) ==
  /\ TimePct >= 60 /\ TimePct < 80
  /\ spent > p.returned
  /\ 100 * (spent - p.returned) < 65 * p.shares[side]
  /\ Bid(side, t) * p.shares[side] >= 100 * (spent - p.returned)

\* Percent of the entry that stays as insurance.
InsurancePct(t) ==
  IF TimePct >= 90 \/ t.spot.zone = "runaway" THEN 0
  ELSE LET zone == CASE t.spot.zone = "near" -> 30 [] t.spot.zone = "far" -> 14 [] OTHER -> 25
           time == IF TimePct < 30 THEN 35 ELSE IF TimePct < 60 THEN 30
                   ELSE IF TimePct < 80 THEN 18 ELSE 10
       IN  Most(8, Least(zone, Least(time, IF CapitalProtected THEN 18 ELSE 35)))
Insurance(p, side, t) ==
  Least(Part(InsurancePct(t), IF initial_shares[side] > 0 THEN initial_shares[side]
                              ELSE p.shares[side]), p.shares[side])

\* Percent of the pairs that may go with the surplus.
CorePct(side, t) ==
  IF Edge(side, t) >= 24 \/ (TimePct >= 80 /\ Fair(side, t) <= 10) THEN 35
  ELSE IF TimePct >= 60 /\ Edge(side, t) >= 8 THEN 20
  ELSE IF TimePct >= 80 /\ Edge(side, t) >= 4 THEN 12 ELSE 0

ExitAmount(p, side, t) ==
  LET core    == Least(p.shares[side], p.shares[Other(side)])
      owed    == Most(spent - p.returned, 0)
      ofCore  == Least(Least(core, (100 * owed) \div Most(Bid(side, t), 1)),
                       Part(CorePct(side, t), core))
      planned == p.shares[side] - core + ofCore
  IN  Least(planned, Most(p.shares[side] - Insurance(p, side, t), 0))

ExitDue(p, side, t) ==
  /\ p.shares[side] > 0 /\ ~p.sold[side]
  /\ side # Leader(t) /\ ~Itm(side, t)
  /\ ~p.scalped
  /\ Bid(side, t) >= WeakTarget(side, t) \/ PaysBack(p, side, t)
  /\ Overpaid(side, t)
  /\ ExitAmount(p, side, t) > 0

\* Scalped shares go with the others, in proportion; what is left is the reserve.
WeakExit(p, t) ==
  IF p.first = "none" THEN p
  ELSE LET side   == Other(p.first)
           amount == ExitAmount(p, side, t)
           left   == p.shares[side] - amount
           s      == p.scalp[side]
           kept   == Least(Most(s.shares - amount, 0), left)
       IN  IF ExitDue(p, side, t)
           THEN [Sells(p, side, amount, t) EXCEPT
                   !.sold[side] = left = 0,
                   !.scalp[side] = IF s.shares = 0 THEN s
                                   ELSE [s EXCEPT !.shares = kept,
                                                  !.cost = (s.cost * kept) \div s.shares],
                   !.reserve[side] = left,
                   !.waived = @ \/ InsurancePct(t) = 0]
           ELSE p

-----------------------------------------------------------------------------

\* process_live_tick: every rule off the plan of the rules before it (a set of one
\* plan, each of whose stages TLC evaluates once).
Planned(t) ==
  {WeakExit(q, t) : q \in {Scalp(g, t) : g \in
    {StrongGrid(e, t) : e \in {Emergency(Emergency(Plan, "UP", t), "DOWN", t)}}}}

\* The ledger makes the sales, and the buy if it is large enough and the bank covers it.
Tick(t) == \E p \in Planned(t) :
  /\ LET side   == Other(Leader(t))
         bought == (p.buys * 100) \div Ask(side, t)
     IN  \/ /\ p.buys >= MinTrade
            /\ shares' = [p.shares EXCEPT ![side] = @ + bought]
            /\ initial_shares' = [initial_shares EXCEPT ![side] = @ + bought]
            /\ spent' = spent + p.buys
         \/ /\ shares' = p.shares
            /\ UNCHANGED <<initial_shares, spent>>
  /\ cash_returned' = p.returned
  /\ sold' = p.sold /\ first_sold_side' = p.first /\ steps_hit' = p.steps
  /\ scalp' = p.scalp /\ reserve' = p.reserve
  /\ released' = (released \/ p.waived \/ p.buys > 0)
  /\ now' \in Moments /\ now' > now

Next == \E t \in Ticks : Tick(t)
Spec == Init /\ [][Next]_vars

-----------------------------------------------------------------------------
(* Properties                                                              *)

\* The range of the variables: no rule sells what an earlier one of the tick has
\* sold already.
TypeOK ==
  /\ now \in Moments
  /\ shares \in [Sides -> Nat] /\ initial_shares \in [Sides -> Nat]
  /\ spent \in Nat /\ cash_returned \in Nat
  /\ sold \in [Sides -> BOOLEAN] /\ first_sold_side \in Sides \cup {"none"}
  /\ steps_hit \in [Sides -> 0 .. 3]
  /\ scalp \in [Sides -> [tranches : 0 .. 2, shares : Nat, cost : Nat]]
  /\ reserve \in [Sides -> Nat]

\* However the lead changes between the grid and the exits, either side keeps the
\* reserve of its last exit and the insurance of 8% of its entry (to the rounding),
\* until a rule that may waives it: a bid of 90, the last tenth, a runaway spot, the
\* emergency.  A scalp ends it too: the exit of the scalp ignores the reserve, and
\* what it bought stays in the base of the grid's steps after it is sold.
InsuranceKept ==
  released \/ \A side \in Sides : /\ shares[side] >= reserve[side]
                                  /\ 100 * shares[side] >= 7 * initial_shares[side]

\* A side marked as sold is never looked at again by the grid, the exit and the
\* emergency: it holds nothing but a scalp, which has an exit of its own.
SoldIsScalpOnly == \A side \in Sides : sold[side] => shares[side] <= scalp[side].shares
=============================================================================
