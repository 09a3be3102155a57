------------------------------ MODULE PairExits ------------------------------
(***************************************************************************)
(* How strategies A (simple_both), B (asymmetric_ladder) and C             *)
(* (dynamic_breakeven) of src/src/strategy/ leave a window entered on both *)
(* sides: the rules of a live tick, the state the strategy keeps of the    *)
(* window, and the sales the ledger makes of its signals.                  *)
(*                                                                         *)
(* Prices are in cents, so is money; thresholds that decay are in cents a  *)
(* hundred times over.                                                     *)
(***************************************************************************)
EXTENDS Integers, Sequences, FiniteSets

CONSTANTS
  Strategies,        \* which of the three the engine may have been built with
  Duration,          \* seconds of a window
  Moments,           \* seconds to the end at which ticks come
  Bids,              \* bids a book may show
  Shares,            \* shares an entry may give a side
  EntryAsk,          \* ask of either side at the entry
  ExitBid,           \* sellStrategy.exitBid
  StrongSteps, WeakSteps, \* asymmetricLadder
  SlippageBuffer,    \* dynamicBreakeven.slippageBuffer
  Ladders            \* decayEnabled, true or false or either

ExitAssumption ==
  /\ Duration \in Nat \ {0} /\ Moments \subseteq 0 .. Duration /\ Duration \in Moments
  /\ Bids \subseteq 0 .. 100 /\ Shares \subseteq Nat \ {0}
  /\ Strategies \subseteq {"simple_both", "asymmetric_ladder", "dynamic_breakeven"}
  /\ Ladders \subseteq BOOLEAN
  /\ EntryAsk \in Nat /\ ExitBid \in Nat /\ SlippageBuffer \in Nat
  /\ \A n \in Shares : n % 2 = 0
  /\ StrongSteps \in Seq(0 .. 100) /\ WeakSteps \in Seq(0 .. 100)

VARIABLES
  strategy,      \* StrategyEngine::active_strategy
  decay,         \* decay_enabled
  left,          \* secs_to_end
  bid,           \* bids of the last tick
  shares, initial_shares, spent, cash_returned, \* the window in the ledger
  sold,          \* up_sold, down_sold
  first_sold_side,
  ptb_baseline, ptb_crossed,
  steps_hit      \* up_steps_hit, dn_steps_hit

ledger == <<shares, initial_shares, spent, cash_returned>>
state  == <<sold, first_sold_side, ptb_baseline, ptb_crossed, steps_hit>>
vars   == <<strategy, decay, left, bid, ledger, state>>

Sides == {"UP", "DOWN"}
Other(side) == CHOOSE s \in Sides : s # side

\* Where the spot is to the price to beat, "none" when either is not known.
Places == {"none", "below", "at", "above"}

Init ==
  /\ strategy \in Strategies
  /\ decay \in IF strategy = "asymmetric_ladder" THEN Ladders ELSE {FALSE}
  /\ left = Duration
  /\ bid = [side \in Sides |-> 0]
  /\ shares \in [Sides -> Shares]
  /\ initial_shares = shares
  /\ spent = EntryAsk * (shares["UP"] + shares["DOWN"])
  /\ cash_returned = 0
  /\ sold = [side \in Sides |-> FALSE]
  /\ first_sold_side = "none"
  /\ ptb_baseline = "none" /\ ptb_crossed = FALSE
  /\ steps_hit = [side \in Sides |-> 0]

Pass ==
  /\ left' \in Moments /\ left' < left
  /\ UNCHANGED <<strategy, decay, bid, ledger, state>>

-----------------------------------------------------------------------------
(* The rule common to the three                                            *)

\* The last 15% of the window: whatever is left goes, at a bid of 20 or more.
Emergency == left <= (Duration * 15) \div 100
Salvaged(bids) ==
  IF Emergency THEN {side \in Sides : shares[side] > 0 /\ bids[side] >= 20 /\ ~sold[side]}
  ELSE {}

\* The ledger sells what a signal names, as far as the window has it.
Sold(amounts, bids) ==
  LET taken == [side \in Sides |-> IF amounts[side] < shares[side] THEN amounts[side] ELSE shares[side]]
  IN  /\ shares' = [side \in Sides |-> shares[side] - taken[side]]
      /\ cash_returned' = cash_returned + taken["UP"] * bids["UP"] + taken["DOWN"] * bids["DOWN"]
      /\ UNCHANGED <<initial_shares, spent>>

WholeOf(set) == [side \in Sides |-> IF side \in set THEN shares[side] ELSE 0]

\* The first side sold by a rule, UP looked at before DOWN.
FirstOf(set) ==
  IF first_sold_side # "none" \/ set = {} THEN first_sold_side
  ELSE IF "UP" \in set THEN "UP" ELSE "DOWN"

-----------------------------------------------------------------------------
(* Strategy A: any side that reaches the target                            *)

SimpleExits(bids) ==
  {side \in Sides \ Salvaged(bids) : bids[side] >= ExitBid /\ ~sold[side] /\ shares[side] > 0}

SimpleTick(bids) ==
  LET leaving == Salvaged(bids) \cup SimpleExits(bids) IN
  /\ strategy = "simple_both"
  /\ Sold(WholeOf(leaving), bids)
  /\ sold' = [side \in Sides |-> sold[side] \/ side \in leaving]
  /\ first_sold_side' = FirstOf(SimpleExits(bids))
  /\ UNCHANGED <<ptb_baseline, ptb_crossed, steps_hit>>

-----------------------------------------------------------------------------
(* Strategy B: a ladder of targets, lower as the window grows old          *)

DecayMult ==
  LET elapsed == Duration - left IN
  IF ~decay \/ 2 * elapsed < Duration THEN 100
  ELSE IF 10 * elapsed < 8 * Duration THEN 90 ELSE 80

\* The stronger side is the one with more shares at the entry, UP on a tie.
Strong(side) ==
  IF side = "UP" THEN initial_shares["UP"] >= initial_shares["DOWN"]
  ELSE initial_shares["UP"] < initial_shares["DOWN"]
StepsOf(side) == IF Strong(side) THEN StrongSteps ELSE WeakSteps

StepReached(side, bids) ==
  /\ shares[side] > 0 /\ ~sold[side] /\ side \notin Salvaged(bids)
  /\ steps_hit[side] < Len(StepsOf(side))
  /\ bids[side] * 100 >= StepsOf(side)[steps_hit[side] + 1] * DecayMult

\* Half of the entry on the first of several steps, then the rest.
StepAmount(side) ==
  IF steps_hit[side] = 0 /\ Len(StepsOf(side)) > 1
  THEN initial_shares[side] \div 2 ELSE shares[side]

LastStep(side) == steps_hit[side] + 1 >= Len(StepsOf(side))

LadderTick(bids) ==
  LET climbing == {side \in Sides : StepReached(side, bids)}
      amounts  == [side \in Sides |->
                     IF side \in Salvaged(bids) THEN shares[side]
                     ELSE IF side \in climbing THEN StepAmount(side) ELSE 0]
  IN
  /\ strategy = "asymmetric_ladder"
  /\ Sold(amounts, bids)
  /\ steps_hit' = [side \in Sides |-> steps_hit[side] + (IF side \in climbing THEN 1 ELSE 0)]
  /\ sold' = [side \in Sides |-> sold[side] \/ side \in Salvaged(bids)
                                   \/ (side \in climbing /\ LastStep(side))]
  /\ first_sold_side' = FirstOf(climbing)
  /\ UNCHANGED <<ptb_baseline, ptb_crossed>>

-----------------------------------------------------------------------------
(* Strategy C: one side at the target, the other after the spot came back, *)
(* at what makes the window even                                           *)

FirstExits(bids) ==
  LET ready == {side \in Sides \ Salvaged(bids) : bids[side] >= ExitBid /\ ~sold[side] /\ shares[side] > 0}
  IN  IF first_sold_side # "none" \/ ready = {} THEN {} ELSE {FirstOf(ready)}

\* faulty variant of EvenAt: what is owed is shared by all the shares bought
EvenByAll(second, bids) ==
  bids[second] * (initial_shares["UP"] + initial_shares["DOWN"])
    >= (spent - cash_returned) + SlippageBuffer * shares[second]

\* The bid covers what the window still owes, a share, and the slippage.
EvenAt(second, bids) ==
  bids[second] * shares[second] >= (spent - cash_returned) + SlippageBuffer * shares[second]

\* The side of the spot when the second leg was first looked at, and from then
\* on the side of the thesis sold; crossed when it came back from there.
Favoured(first) == IF first = "UP" THEN "above" ELSE "below"
Against(first)  == IF first = "UP" THEN "below" ELSE "above"
Baseline(first, spot) ==
  IF ptb_crossed
  THEN IF ptb_baseline = "none" /\ spot # "none"
       THEN IF spot = "below" THEN "below" ELSE "above" ELSE ptb_baseline
  ELSE IF spot = Favoured(first) THEN spot
  ELSE IF ptb_baseline = "none" /\ spot # "none"
       THEN IF spot = "below" THEN "below" ELSE "above"
  ELSE ptb_baseline
CameBack(first, spot) ==
  ptb_crossed \/ (ptb_baseline = Favoured(first) /\ spot = Against(first))

BreakEvenTick(bids, spot) ==
  LET out    == Salvaged(bids) \cup FirstExits(bids)
      first  == FirstOf(FirstExits(bids))
      second == Other(first)
      open   == first # "none" /\ shares[second] > 0 /\ ~sold[second] /\ second \notin out
      back   == open /\ CameBack(first, spot)
      even   == IF back /\ EvenAt(second, bids) THEN {second} ELSE {}
  IN
  /\ strategy = "dynamic_breakeven"
  /\ Sold(WholeOf(out \cup even), bids)
  /\ sold' = [side \in Sides |-> sold[side] \/ side \in out \cup even]
  /\ first_sold_side' = first
  /\ ptb_baseline' = IF open THEN Baseline(first, spot) ELSE ptb_baseline
  /\ ptb_crossed' = (ptb_crossed \/ back)
  /\ UNCHANGED steps_hit

Tick ==
  \E bids \in [Sides -> Bids] :
    /\ \/ SimpleTick(bids) \/ LadderTick(bids)
       \/ \E spot \in Places : BreakEvenTick(bids, spot)
    /\ bid' = bids
    /\ UNCHANGED <<strategy, decay, left>>

Next == Pass \/ Tick

Spec == Init /\ [][Next]_vars

-----------------------------------------------------------------------------
(* Properties                                                              *)

TypeOK ==
  /\ strategy \in {"simple_both", "asymmetric_ladder", "dynamic_breakeven"}
  /\ left \in Moments
  /\ shares \in [Sides -> Nat] /\ initial_shares \in [Sides -> Shares]
  /\ spent \in Nat /\ cash_returned \in Nat
  /\ sold \in [Sides -> BOOLEAN]
  /\ first_sold_side \in Sides \cup {"none"}
  /\ ptb_baseline \in {"none", "below", "above"} /\ ptb_crossed \in BOOLEAN
  /\ \A side \in Sides : steps_hit[side] \in 0 .. Len(StepsOf(side))

\* The strategy marks a side as sold when it signals the sale, before the ledger
\* has made it, and never looks at it again: no share may then be left.
SoldLeavesNothing ==
  \A side \in Sides : sold[side] => shares[side] = 0

\* Between the first two steps of a ladder half of the entry is kept, however the
\* thresholds decay meanwhile and whatever the other side does.
LadderKeepsHalf ==
  strategy = "asymmetric_ladder" =>
    \A side \in Sides :
      (~sold[side] /\ Len(StepsOf(side)) > 1 /\ steps_hit[side] = 1)
        => 2 * shares[side] = initial_shares[side]

\* A step of strategy C outside the last 15% of the window sells its second leg
\* only if the window has then made no loss.
SecondLegBreaksEven ==
  (strategy = "dynamic_breakeven" /\ ~Emergency /\ first_sold_side # "none"
     /\ shares' # shares) => cash_returned' >= spent

\* A tick in the last 15% leaves no share of a side it bids 20 cents for, whatever
\* of the side was sold before and by which rule.
LastTicksSellOut ==
  (left' = left /\ Emergency) =>
     \A side \in Sides : bid'[side] >= 20 => shares'[side] = 0
=============================================================================
