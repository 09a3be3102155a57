------------------------------- MODULE PreStart -------------------------------
(***************************************************************************)
(* The entry into the NEXT window before it starts, from monitor_time of   *)
(* src/src/main.rs: once a second, inside the corridor, the strategy is    *)
(* asked for an entry, the budget is cut to the bank and split over the    *)
(* two sides, and the window is promoted at its start.  An LLM forecast    *)
(* may be awaited in the middle.                                           *)
(*                                                                         *)
(* Money and prices are in cents.  Other windows move the bank meanwhile.  *)
(***************************************************************************)
EXTENDS Integers, FiniteSets

CONSTANTS
  Earliest, Latest,       \* preStartEntry: max and min seconds before start
  MinAsk, MaxAsk,         \* preStartEntry: range of the asks
  MinBudget, MaxBudget, BudgetPct, \* session
  MinTrade,               \* MIN_TRADE_USD
  LlmEnabled, LlmTimeout, \* llm.enabled, the 8 seconds of a request
  Asks,                   \* asks the book shows, 0 for none
  Banks,                  \* cash and equity the other windows leave
  Multipliers, Ratios     \* percents a strategy may put in its signal; no strategy
                          \* asks for more than the whole share

PreStartAssumption ==
  /\ Latest \in Nat /\ Earliest \in Nat /\ Latest <= Earliest
  /\ MinBudget \in Nat /\ MaxBudget \in Nat /\ MinBudget <= MaxBudget
  /\ MinTrade \in Nat \ {0} /\ LlmTimeout \in Nat /\ LlmEnabled \in BOOLEAN
  /\ MinAsk \in Nat /\ MaxAsk \in Nat /\ BudgetPct \in Nat
  /\ Asks \subseteq 0 .. 100 /\ 0 \in Asks /\ Banks \subseteq Nat
  /\ Multipliers \subseteq 0 .. 100 /\ Ratios \subseteq Nat

VARIABLES
  secs,            \* seconds to the start of NEXT
  ask,             \* cached asks of NEXT
  volatile,        \* the ATR is at least the minimum of the asset
  shutdown_pending,
  cash, equity,    \* of the portfolio
  spent, cost,     \* of the window in the ledger, in all and by side
  status,          \* of the window in the ledger
  next_status,     \* of app.next_window, the loop's copy
  entered,         \* the window is in entered_windows of the strategy
  attempted,       \* the window is in llm_forecast_attempted
  requests,        \* requests sent to the model
  entry            \* the entry made, for the properties

vars == <<secs, ask, volatile, shutdown_pending, cash, equity, spent, cost,
          status, next_status, entered, attempted, requests, entry>>

Sides == {"UP", "DOWN"}
NoEntry == [budget |-> 0, ask |-> [side \in Sides |-> 0], mode |-> "none"]

Init ==
  /\ secs = Earliest + 1
  /\ ask = [side \in Sides |-> 0]
  /\ volatile \in BOOLEAN
  /\ shutdown_pending = FALSE
  /\ cash \in Banks /\ equity \in Banks /\ cash <= equity
  /\ spent = 0
  /\ cost = [side \in Sides |-> 0]
  /\ status = "WAITING_ENTRY" /\ next_status = "WAITING_ENTRY"
  /\ entered = FALSE /\ attempted = FALSE
  /\ requests = 0
  /\ entry = NoEntry

-----------------------------------------------------------------------------
(* Budget and split                                                        *)

Least(a, b) == IF a <= b THEN a ELSE b
Most(a, b)  == IF a >= b THEN a ELSE b

\* A share of the equity inside the limits, by the multiplier of the signal, and
\* no more than the cash; nothing when the cash is below the minimum.
Budget(multiplier) ==
  LET clamped == Least(Most((equity * BudgetPct) \div 100, MinBudget), MaxBudget)
      wanted  == (clamped * Least(Most(multiplier, 10), 150)) \div 100
  IN  IF cash >= wanted THEN wanted
      ELSE IF cash >= MinBudget THEN cash ELSE 0

Cheaper(asks) == IF asks["UP"] < asks["DOWN"] THEN "UP" ELSE "DOWN"
Dearer(asks)  == CHOOSE side \in Sides : side # Cheaper(asks)

\* allocate_entry_usd: a core of as many shares on either side, the rest on the
\* cheaper one.
Split(budget, asks, ratio) ==
  LET surplus == Least((Least(Most(ratio, 50), 70) - 50) * 2, 20)
      core    == (budget * (100 - surplus)) \div 100
      dear    == (core * asks[Dearer(asks)]) \div (asks["UP"] + asks["DOWN"])
  IN  IF asks["UP"] = asks["DOWN"]
      THEN [side \in Sides |-> budget \div 2]
      ELSE [side \in Sides |-> IF side = Dearer(asks) THEN dear ELSE budget - dear]

Legs(budget, asks, signal) ==
  IF budget = 0 THEN [side \in Sides |-> 0]
  ELSE IF signal.mode = "both" THEN Split(budget, asks, signal.ratio)
  ELSE [side \in Sides |-> IF side = signal.mode THEN budget ELSE 0]

-----------------------------------------------------------------------------
(* The event loop around it                                                *)

\* Seconds go by, the loop being busy with something else.
PassTime ==
  /\ next_status \in {"WAITING_ENTRY", "ENTERED_PRE_START"}
  /\ secs > -1
  /\ secs' = secs - 1
  /\ UNCHANGED <<ask, volatile, shutdown_pending, cash, equity, spent, cost,
                 status, next_status, entered, attempted, requests, entry>>

Quote ==
  /\ next_status = "WAITING_ENTRY"
  /\ \E up \in Asks, down \in Asks : ask' = [side \in Sides |-> IF side = "UP" THEN up ELSE down]
  /\ UNCHANGED <<secs, volatile, shutdown_pending, cash, equity, spent, cost,
                 status, next_status, entered, attempted, requests, entry>>

\* Fills and settlements of the other windows, the ATR, a request to stop.
Elsewhere ==
  /\ next_status = "WAITING_ENTRY"
  /\ \/ /\ cash' \in Banks /\ equity' \in Banks /\ cash' <= equity'
        /\ UNCHANGED <<volatile, shutdown_pending>>
     \/ volatile' = ~volatile /\ UNCHANGED <<shutdown_pending, cash, equity>>
     \/ /\ ~shutdown_pending /\ shutdown_pending' = TRUE
        /\ UNCHANGED <<volatile, cash, equity>>
  /\ UNCHANGED <<secs, ask, spent, cost, status, next_status, entered,
                 attempted, requests, entry>>

-----------------------------------------------------------------------------
(* monitor_time, the part of the NEXT window                               *)

InCorridor == secs >= Latest /\ secs <= Earliest
Asked      == next_status = "WAITING_ENTRY" /\ secs > 0 /\ InCorridor
              /\ ~shutdown_pending /\ volatile

\* get_or_request_llm_forecast asks the model once per window, and the loop waits
\* for the answer, an error or the timeout.
ForecastDue == LlmEnabled /\ ~attempted

\* check_pre_start_entry of strategies A, B and C (D asks the same and chooses
\* multiplier and ratio by the ATR, D1 one side): not before, at least five
\* seconds, both asks in range.
Accepts ==
  /\ ~entered
  /\ secs >= 5
  /\ \A side \in Sides : ask[side] > 0 /\ ask[side] >= MinAsk /\ ask[side] <= MaxAsk

Signals == [multiplier : Multipliers, ratio : Ratios, mode : {"both"} \cup Sides]

\* execute_buy on UP, then on DOWN: too little, or more than the cash, is refused.
Bought(legs, side, money) == legs[side] >= MinTrade /\ money >= legs[side]
AfterBuys(legs) ==
  LET up   == IF Bought(legs, "UP", cash) THEN legs["UP"] ELSE 0
      down == IF Bought(legs, "DOWN", cash - up) THEN legs["DOWN"] ELSE 0
  IN  [side \in Sides |-> IF side = "UP" THEN up ELSE down]

CopyStale(new) == next_status \* faulty variant of CopyOf: not refreshed

\* app.next_window is a copy of the ledger's window, taken after the buys.
CopyOf(new) == new

\* The buys of an accepted entry, at the asks seen before the forecast.
Enter(signal) ==
  LET budget == Budget(signal.multiplier)
      legs   == Legs(budget, ask, signal)
      paid   == AfterBuys(legs)
      total  == paid["UP"] + paid["DOWN"]
  IN  IF legs["UP"] + legs["DOWN"] > 0 /\ cash >= legs["UP"] + legs["DOWN"]
      THEN /\ cash' = cash - total
           /\ equity' = equity
           /\ spent' = spent + total
           /\ cost' = [side \in Sides |-> cost[side] + paid[side]]
           /\ status' = IF total > 0 THEN "ENTERED_PRE_START" ELSE status
           /\ next_status' = CopyOf(status')
           /\ entry' = [budget |-> budget, ask |-> ask, mode |-> signal.mode]
      ELSE UNCHANGED <<cash, equity, spent, cost, status, next_status, entry>>

Monitor ==
  /\ Asked
  /\ ForecastDue \/ Accepts
  /\ attempted' = (attempted \/ ForecastDue)
  /\ requests' = requests + (IF ForecastDue THEN 1 ELSE 0)
  /\ \E took \in IF ForecastDue THEN 0 .. LlmTimeout ELSE {0} :
       /\ secs' = secs - took
       /\ IF Accepts
          THEN entered' = TRUE /\ \E signal \in Signals : Enter(signal)
          ELSE UNCHANGED <<cash, equity, spent, cost, status, next_status, entered, entry>>
  /\ UNCHANGED <<ask, volatile, shutdown_pending>>

\* promote_next_to_current, from the loop's copy.
Promote ==
  /\ next_status \in {"WAITING_ENTRY", "ENTERED_PRE_START"}
  /\ secs <= 0
  /\ status' = IF next_status = "ENTERED_PRE_START" THEN "LIVE" ELSE "SKIPPED"
  /\ next_status' = "none"
  /\ UNCHANGED <<secs, ask, volatile, shutdown_pending, cash, equity, spent,
                 cost, entered, attempted, requests, entry>>

Next == PassTime \/ Quote \/ Elsewhere \/ Monitor \/ Promote

Spec == Init /\ [][Next]_vars

-----------------------------------------------------------------------------
(* Properties                                                              *)

\* A budget of which either side gets MIN_TRADE_USD, whatever the asks in range.
EitherSideTrades(budget) ==
  budget * MinAsk >= MinTrade * (MinAsk + MaxAsk) /\ 2 * budget >= 5 * MinTrade

TypeOK ==
  /\ secs \in Least(-1, Latest - LlmTimeout) .. (Earliest + 1)
  /\ ask \in [Sides -> Asks]
  /\ volatile \in BOOLEAN /\ shutdown_pending \in BOOLEAN
  /\ cash \in Nat /\ equity \in Nat /\ spent \in Nat
  /\ cost \in [Sides -> Nat]
  /\ status \in {"WAITING_ENTRY", "ENTERED_PRE_START", "LIVE", "SKIPPED"}
  /\ next_status \in {"WAITING_ENTRY", "ENTERED_PRE_START", "none"}
  /\ entered \in BOOLEAN /\ attempted \in BOOLEAN
  /\ requests \in Nat

\* A window is LIVE, and so traded and watched, exactly when money was put into
\* it: the loop's copy, the ledger and the promotion never disagree on that.
LiveMeansPaid ==
  next_status = "none" => (status = "LIVE") = (spent > 0)

\* Whatever the other windows leave in the bank, the entry spends at most its
\* budget and the budget at most the maximum of a window.
EntryWithinBudget == spent <= entry.budget /\ entry.budget <= MaxBudget

\* An entry on both sides keeps a core of as many shares on either, worth four
\* fifths of the budget: the dollars on a side, at its ask, buy that many (to the
\* cent the model rounds to).  A small share of a small budget is the exception: the
\* leg below MIN_TRADE_USD is refused, and the other one bought alone.
PairedFloor ==
  (entry.mode = "both" /\ spent > 0 /\ EitherSideTrades(entry.budget)) =>
     \A side \in Sides :
        (cost[side] + 2) * (entry.ask["UP"] + entry.ask["DOWN"])
          >= (entry.budget * 80 * entry.ask[side]) \div 100

\* One request to the model per window: one that failed or timed out is not sent
\* again a second later.
OneRequest == requests <= 1
=============================================================================
