----------------------------- MODULE LastSeconds -----------------------------
(***************************************************************************)
(* Strategy x_last of src/src/strategy/strategy_x_last.rs on the CURRENT   *)
(* window in paper mode: in the last seconds one clip on the side the spot *)
(* is on. Time is in seconds to the end, prices and dollars in cents,      *)
(* shares in hundredths.                                                   *)
(***************************************************************************)
EXTENDS Integers

CONSTANTS
  Asks,        \* asks of the side the spot is on, 0 when the book is empty
  Lefts,       \* seconds to the end at which ticks come
  Banks,       \* cash of the session when the window comes near its end
  EntrySecs, MaxAsk, ClipUsd, MinOrderUsd \* configuration

LastSecondsAssumption ==
  /\ Asks \subseteq 0 .. 100 /\ Lefts \subseteq Nat /\ Banks \subseteq Nat
  /\ EntrySecs \in Nat /\ MaxAsk \in 1 .. 100
  /\ ClipUsd \in Nat /\ MinOrderUsd \in Nat

VARIABLES
  left,                      \* seconds to the end
  cash, shares, cost,        \* of the ledger
  runtime_cash, entry_side, entry_done, \* of the strategy
  executed                   \* history: clips the ledger booked

vars == <<left, cash, shares, cost, runtime_cash, entry_side, entry_done, executed>>

Sides == {"UP", "DOWN"}
Least(a, b) == IF a <= b THEN a ELSE b
Most(a, b)  == IF a >= b THEN a ELSE b

Init ==
  /\ left \in Lefts
  /\ cash \in Banks /\ shares = [side \in Sides |-> 0] /\ cost = shares
  /\ runtime_cash = 0 /\ entry_side = "none" /\ entry_done = FALSE
  /\ executed = 0

Pass ==
  /\ left' \in Lefts /\ left' < left
  /\ UNCHANGED <<cash, shares, cost, runtime_cash, entry_side, entry_done, executed>>

\* Before the tick the strategy is told the cash of the ledger.
Told == runtime_cash' = cash
Clip == Least(ClipUsd, cash)

Due(ask) ==
  /\ left > 0 /\ left <= EntrySecs
  /\ ~entry_done /\ shares["UP"] = 0 /\ shares["DOWN"] = 0
  /\ ask > 0 /\ ask <= MaxAsk
  /\ Clip >= Most(MinOrderUsd, 100)

\* The clip is booked, and only then the strategy is notified.
Notified(side) == entry_side' = side /\ entry_done' = TRUE
Buy(side, ask) ==
  /\ Due(ask) /\ Told
  /\ shares' = [shares EXCEPT ![side] = @ + (Clip * 100) \div ask]
  /\ cost' = [cost EXCEPT ![side] = @ + Clip]
  /\ cash' = cash - Clip
  /\ executed' = executed + 1
  /\ Notified(side)
  /\ UNCHANGED left

\* The spot stands at the price to beat, or depth does not carry the clip, which is
\* then signalled again.
Refused(ask) ==
  /\ Due(ask) /\ Told
  /\ UNCHANGED <<left, cash, shares, cost, entry_side, entry_done, executed>>

Watch(ask) ==
  /\ ~Due(ask) /\ Told
  /\ UNCHANGED <<left, cash, shares, cost, entry_side, entry_done, executed>>

Next == Pass \/ \E ask \in Asks : (\E side \in Sides : Buy(side, ask)) \/ Refused(ask) \/ Watch(ask)

Spec == Init /\ [][Next]_vars

-----------------------------------------------------------------------------
(* Properties                                                              *)

TypeOK ==
  /\ left \in Lefts /\ cash \in Nat /\ runtime_cash \in Nat
  /\ shares \in [Sides -> Nat] /\ cost \in [Sides -> Nat]
  /\ entry_side \in Sides \cup {"none"} /\ entry_done \in BOOLEAN
  /\ executed \in Nat

\* One clip at most, though it is signalled on every tick until one is booked and
\* the spot may change sides between: what was booked is what is remembered.
OneClip ==
  /\ executed <= 1 /\ cost["UP"] + cost["DOWN"] <= ClipUsd
  /\ entry_done => entry_side \in Sides /\ cost[entry_side] > 0

-----------------------------------------------------------------------------
(* What the steps preserve together                                        *)

\* Nothing is booked before the strategy is notified.
NoClipYet == ~entry_done => executed = 0 /\ cost["UP"] = 0 /\ cost["DOWN"] = 0

LastInv == TypeOK /\ OneClip /\ NoClipYet
=============================================================================
