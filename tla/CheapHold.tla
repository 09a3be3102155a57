------------------------------ MODULE CheapHold ------------------------------
(***************************************************************************)
(* Strategy H (cheap_hold_h) of src/src/strategy/strategy_h.rs on the      *)
(* CURRENT window: one entry on the cheap side in the first third, held to *)
(* the end unless a salvage late in the window sells all of it.            *)
(*                                                                         *)
(* Time is in quarters of a minute, prices and dollars in cents, shares in *)
(* hundredths, the gap of the spot to the price to beat in hundredths of   *)
(* the move expected to the end.                                           *)
(***************************************************************************)
EXTENDS Integers

CONSTANTS
  Duration,   \* of a window
  Moments,    \* times at which ticks come
  Books,      \* books a tick may show: [ask : [Sides -> cents], bid : ...]
  Gaps,       \* gaps a tick may show
  MinBudget, MaxBudget \* session: of a window

CheapHoldAssumption ==
  /\ Duration \in Nat \ {0} /\ Moments \subseteq 0 .. Duration /\ 0 \in Moments
  /\ Books \subseteq [bid : [{"UP", "DOWN"} -> 0 .. 100], ask : [{"UP", "DOWN"} -> 0 .. 100]]
  /\ Gaps \subseteq Int
  /\ MinBudget \in Nat /\ MaxBudget \in Nat /\ MaxBudget >= 100

VARIABLES
  now,
  shares, bought, cost,             \* of the window in the ledger, by side
  entry_side, entry_done, salvage_done

ledger == <<shares, bought, cost>>
vars   == <<now, ledger, entry_side, entry_done, salvage_done>>

Sides == {"UP", "DOWN"}
Other(side) == IF side = "UP" THEN "DOWN" ELSE "UP"

Least(a, b) == IF a <= b THEN a ELSE b
Most(a, b)  == IF a >= b THEN a ELSE b
Clamp(a, low, high) == Most(low, Least(a, high))

Init ==
  /\ now = 0
  /\ shares = [side \in Sides |-> 0] /\ bought = shares /\ cost = shares
  /\ entry_side = "none" /\ entry_done = FALSE /\ salvage_done = FALSE

Pass ==
  /\ now' \in Moments /\ now' > now
  /\ UNCHANGED <<ledger, entry_side, entry_done, salvage_done>>

TimePct == (now * 100) \div Duration

\* crossed: the lead changed at least once; sleeps: an hour without entries, for its
\* ATR; vol: a volatile ATR. Ticks without a spot return at once.
Ticks == [book : Books, gap : Gaps, crossed : BOOLEAN, sleeps : BOOLEAN, vol : BOOLEAN]

Abs(n) == IF n < 0 THEN -n ELSE n
Itm(side, t) == IF side = "UP" THEN t.gap > 0 ELSE t.gap < 0

-----------------------------------------------------------------------------
(* The entry                                                               *)

InBand(side, t) == t.book.ask[side] >= 36 /\ t.book.ask[side] <= 39
CheapSide(t) ==
  IF InBand("UP", t) /\ (InBand("DOWN", t) => t.book.ask["UP"] <= t.book.ask["DOWN"])
  THEN "UP" ELSE IF InBand("DOWN", t) THEN "DOWN" ELSE "none"

\* Rather the side the spot is not on.
Contrarian(side, t) == IF side = "UP" THEN t.gap < 0 ELSE t.gap > 0
EntrySide(t) ==
  IF CheapSide(t) = "none" \/ ~t.crossed THEN "none"
  ELSE IF ~Contrarian(CheapSide(t), t) /\ InBand(Other(CheapSide(t)), t)
          /\ Contrarian(Other(CheapSide(t)), t)
       THEN Other(CheapSide(t)) ELSE CheapSide(t)

Budget    == Clamp((MinBudget * 90) \div 100, 100, MaxBudget)
Spent     == cost["UP"] + cost["DOWN"]
Remaining == Most(Budget - Spent, 0)

HeldSide ==
  IF shares["UP"] = 0 /\ shares["DOWN"] = 0 THEN "none"
  ELSE IF shares["UP"] >= shares["DOWN"] THEN "UP" ELSE "DOWN"

Entering == HeldSide = "none" /\ ~entry_done /\ TimePct <= 33
EntryDue(t) ==
  /\ Entering
  /\ ~t.sleeps /\ Abs(t.gap) <= 20
  /\ EntrySide(t) # "none" /\ Remaining >= 100

\* The ledger may refuse the buy; the entry counts as done at the signal.
Enter(t) ==
  /\ EntryDue(t)
  /\ LET side == EntrySide(t) IN
       /\ \/ /\ shares' = [shares EXCEPT ![side] = @ + (Remaining * 100) \div t.book.ask[side]]
             /\ bought' = [bought EXCEPT ![side] = @ + (Remaining * 100) \div t.book.ask[side]]
             /\ cost' = [cost EXCEPT ![side] = @ + Remaining]
          \/ UNCHANGED ledger
       /\ entry_side' = side
  /\ entry_done' = TRUE
  /\ UNCHANGED <<now, salvage_done>>

-----------------------------------------------------------------------------
(* The salvage                                                             *)

SalvageAllows(t, bid) ==
  /\ bid >= 5
  /\ \/ Abs(t.gap) >= 120 \/ bid <= 12
     \/ ~t.vol /\ Abs(t.gap) >= 80 /\ bid <= 30

SalvageDue(t) ==
  /\ ~Entering /\ ~salvage_done /\ TimePct >= 80
  /\ entry_side # "none" /\ shares[entry_side] > 0
  /\ ~Itm(entry_side, t)
  /\ SalvageAllows(t, t.book.bid[entry_side])

Salvage(t) ==
  /\ SalvageDue(t)
  /\ shares' = [shares EXCEPT ![entry_side] = 0]
  /\ salvage_done' = TRUE
  /\ UNCHANGED <<now, bought, cost, entry_side, entry_done>>

Watch(t) == ~EntryDue(t) /\ ~SalvageDue(t) /\ UNCHANGED vars

Next == Pass \/ \E t \in Ticks : Enter(t) \/ Salvage(t) \/ Watch(t)

Spec == Init /\ [][Next]_vars

-----------------------------------------------------------------------------
(* Properties                                                              *)

TypeOK ==
  /\ now \in Moments
  /\ shares \in [Sides -> Nat] /\ bought \in [Sides -> Nat] /\ cost \in [Sides -> Nat]
  /\ entry_side \in Sides \cup {"none"}
  /\ entry_done \in BOOLEAN /\ salvage_done \in BOOLEAN

\* One entry at most, sold again or not, and all of it held or nothing.
OneEntry ==
  /\ Spent <= Budget
  /\ \A side \in Sides : shares[side] \in {0, bought[side]}
  /\ salvage_done => shares["UP"] = 0 /\ shares["DOWN"] = 0

\* The side the salvage looks at is the one the ledger bought, though it is set
\* at the signal.
EntryWasBought == Spent > 0 => cost[entry_side] = Spent

-----------------------------------------------------------------------------
(* What the steps preserve together                                        *)

\* The entry is of one side, and nothing is bought before it is done.
OneSide ==
  /\ entry_done <=> entry_side \in Sides
  /\ salvage_done => entry_done
  /\ \A side \in Sides : (~entry_done \/ side # entry_side) => bought[side] = 0 /\ cost[side] = 0

HoldInv == TypeOK /\ OneEntry /\ EntryWasBought /\ OneSide
=============================================================================
