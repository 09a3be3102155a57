----------------------- MODULE ConvictionWindows_proofs -----------------------
(***************************************************************************)
(* The safety properties of module ConvictionWindows, for windows of every *)
(* length, every budget, and every set of books, moments and moves of the  *)
(* spot that a tick may show.                                              *)
(***************************************************************************)
EXTENDS ConvictionWindows, Sequences, TLAPS

-----------------------------------------------------------------------------
(* Arithmetic                                                              *)

\* What a division leaves.
LEMMA Division ==
  ASSUME NEW a \in Nat, NEW b \in Nat \ {0}
  PROVE  /\ a \div b \in Nat
         /\ (a \div b) * b <= a
         /\ a < (a \div b) * b + b
  OBVIOUS

\* The shares an amount buys.
LEMMA LotOf ==
  ASSUME NEW amount \in Nat, NEW price \in Nat \ {0}
  PROVE  (amount * 100) \div price \in Nat
  <1>1. amount * 100 \in Nat
    OBVIOUS
  <1> QED BY <1>1, Division

\* A part is not more than the whole.
LEMMA PartOf ==
  ASSUME NEW a \in Nat, NEW p \in 0 .. 100
  PROVE  /\ a * p \in Nat /\ (a * p) \div 100 \in Nat /\ (a * p) \div 100 <= a
  <1>1. a * p \in Nat /\ a * p <= a * 100
    OBVIOUS
  <1> DEFINE n == a * p
  <1>2. n \in Nat /\ n <= a * 100
    BY <1>1
  <1> HIDE DEF n
  <1>3. n \div 100 \in Nat /\ n \div 100 <= a
    BY <1>2
  <1> QED BY <1>1, <1>3 DEF n

-----------------------------------------------------------------------------
(* Strategy x_last                                                         *)

LEMMA LastStart == Last!Init => Last!LastInv
  <1> SUFFICES ASSUME Last!Init PROVE Last!LastInv
    OBVIOUS
  <1>1. /\ Lefts \subseteq Nat /\ Banks \subseteq Nat /\ ClipUsd \in Nat
    BY InstancesSound DEF Last!LastSecondsAssumption
  <1>2. /\ cost["UP"] = 0 /\ cost["DOWN"] = 0 /\ shares = cost
        /\ cost \in [Last!Sides -> Nat]
    BY DEF Last!Init, Last!Sides
  <1>3. /\ left \in Lefts /\ cash \in Nat /\ runtime_cash = 0 /\ entry_side = "none"
        /\ ~entry_done /\ entry_done \in BOOLEAN /\ executed = 0
    BY <1>1 DEF Last!Init
  <1> QED BY <1>1, <1>2, <1>3 DEF Last!LastInv, Last!TypeOK, Last!OneClip, Last!NoClipYet

\* The one step that books: nothing was booked before it.
LEMMA LastBuys ==
  ASSUME Last!LastInv, NEW ask \in Asks, NEW side \in Last!Sides, Last!Buy(side, ask)
  PROVE  Last!LastInv'
  <1>1. /\ Asks \subseteq 0 .. 100 /\ ClipUsd \in Nat /\ MinOrderUsd \in Nat
        /\ Last!TypeOK
    BY InstancesSound DEF Last!LastSecondsAssumption, Last!LastInv
  <1>2. /\ ~entry_done /\ ask \in 1 .. 100 /\ Last!Clip >= 100
    BY <1>1 DEF Last!Buy, Last!Due, Last!Most, Last!Clip, Last!Least, Last!TypeOK
  <1>3. /\ executed = 0 /\ cost["UP"] = 0 /\ cost["DOWN"] = 0
    BY <1>2 DEF Last!LastInv, Last!NoClipYet
  <1>4. /\ Last!Clip \in Nat /\ Last!Clip <= cash /\ Last!Clip <= ClipUsd
    BY <1>1 DEF Last!Clip, Last!Least, Last!TypeOK
  <1> DEFINE clip == Last!Clip
             lot == (clip * 100) \div ask
  <1>5. /\ shares' = [shares EXCEPT ![side] = @ + lot]
        /\ cost' = [cost EXCEPT ![side] = @ + clip]
        /\ cash' = cash - clip /\ runtime_cash' = cash /\ executed' = executed + 1
        /\ entry_side' = side /\ entry_done' = TRUE /\ left' = left
    BY DEF Last!Buy, Last!Told, Last!Notified
  <1>6. clip \in Nat /\ clip >= 100 /\ clip <= cash /\ clip <= ClipUsd
    BY <1>2, <1>4
  <1>7. lot \in Nat
    BY <1>2, <1>6, Division
  <1> HIDE DEF clip, lot
  <1>8. Last!TypeOK'
    BY <1>1, <1>5, <1>6, <1>7 DEF Last!TypeOK, Last!Sides
  <1>9. cost'["UP"] + cost'["DOWN"] = clip /\ cost'[side] = clip
    BY <1>1, <1>3, <1>5, <1>6 DEF Last!TypeOK, Last!Sides
  <1> QED BY <1>1, <1>3, <1>5, <1>6, <1>8, <1>9 DEF Last!LastInv, Last!OneClip, Last!NoClipYet

LEMMA LastStep == Last!LastInv /\ Last!Next => Last!LastInv'
  <1> SUFFICES ASSUME Last!LastInv, Last!Next PROVE Last!LastInv'
    OBVIOUS
  <1>1. CASE Last!Pass
    BY <1>1 DEF Last!Pass, Last!LastInv, Last!TypeOK, Last!OneClip, Last!NoClipYet
  <1>2. ASSUME NEW ask \in Asks, Last!Refused(ask) \/ Last!Watch(ask) PROVE Last!LastInv'
    BY <1>2 DEF Last!Refused, Last!Watch, Last!Told, Last!LastInv, Last!TypeOK, Last!OneClip,
                Last!NoClipYet
  <1> QED BY <1>1, <1>2, LastBuys DEF Last!Next

-----------------------------------------------------------------------------
(* Strategy H                                                              *)

LEMMA HoldBudget ==
  /\ Duration \in Nat \ {0} /\ Hold!Budget \in Nat /\ Hold!Budget >= 100
  /\ HoldBooks \subseteq [bid : [Hold!Sides -> 0 .. 100], ask : [Hold!Sides -> 0 .. 100]]
  BY InstancesSound DEF Hold!CheapHoldAssumption, Hold!Budget, Hold!Clamp, Hold!Most,
                        Hold!Least, Hold!Sides

LEMMA HoldStart == Hold!Init => Hold!HoldInv
  <1> SUFFICES ASSUME Hold!Init PROVE Hold!HoldInv
    OBVIOUS
  <1>1. /\ shares \in [Hold!Sides -> Nat] /\ bought = shares /\ cost = shares
        /\ shares["UP"] = 0 /\ shares["DOWN"] = 0
    BY DEF Hold!Init, Hold!Sides
  <1>2. 0 \in HoldMoments
    BY InstancesSound DEF Hold!CheapHoldAssumption
  <1>3. /\ now = 0 /\ entry_side = "none"
        /\ ~entry_done /\ entry_done \in BOOLEAN /\ ~salvage_done /\ salvage_done \in BOOLEAN
    BY DEF Hold!Init
  <1> QED BY <1>1, <1>2, <1>3, HoldBudget DEF Hold!HoldInv, Hold!TypeOK, Hold!OneEntry,
             Hold!EntryWasBought, Hold!OneSide, Hold!Spent, Hold!Sides

\* The entry is the first thing that is bought, and it is the whole of the budget.
LEMMA HoldEnters ==
  ASSUME Hold!HoldInv, NEW t \in Hold!Ticks, Hold!Enter(t)
  PROVE  Hold!HoldInv'
  <1>1. Hold!TypeOK /\ ~entry_done /\ ~salvage_done
    BY DEF Hold!HoldInv, Hold!Enter, Hold!EntryDue, Hold!Entering, Hold!OneSide
  <1>2. /\ cost["UP"] = 0 /\ cost["DOWN"] = 0 /\ bought["UP"] = 0 /\ bought["DOWN"] = 0
        /\ shares["UP"] = 0 /\ shares["DOWN"] = 0
    BY <1>1 DEF Hold!HoldInv, Hold!OneSide, Hold!OneEntry, Hold!Sides
  <1>3. Hold!Remaining = Hold!Budget
    BY <1>2, HoldBudget DEF Hold!Remaining, Hold!Spent, Hold!Most
  <1> DEFINE side == Hold!EntrySide(t)
             lot == (Hold!Budget * 100) \div t.book.ask[side]
  <1>4. side \in Hold!Sides /\ t.book.ask[side] \in 36 .. 39
    <2>1. t.book.ask["UP"] \in 0 .. 100 /\ t.book.ask["DOWN"] \in 0 .. 100
      BY HoldBudget DEF Hold!Ticks, Hold!Sides
    <2>2. side # "none"
      BY DEF Hold!Enter, Hold!EntryDue
    <2>3. Hold!CheapSide(t) # "none" /\ Hold!CheapSide(t) \in Hold!Sides
      BY <2>2 DEF Hold!EntrySide, Hold!CheapSide, Hold!Sides
    <2>4. Hold!InBand(Hold!CheapSide(t), t)
      BY <2>3 DEF Hold!CheapSide
    <2>5. side \in Hold!Sides /\ Hold!InBand(side, t)
      BY <2>2, <2>3, <2>4 DEF Hold!EntrySide, Hold!Other, Hold!Sides
    <2> HIDE DEF side
    <2> QED BY <2>1, <2>5 DEF Hold!InBand, Hold!Sides
  <1>5. lot \in Nat
    BY <1>4, HoldBudget, LotOf
  <1>6. /\ \/ /\ shares' = [shares EXCEPT ![side] = @ + lot]
              /\ bought' = [bought EXCEPT ![side] = @ + lot]
              /\ cost' = [cost EXCEPT ![side] = @ + Hold!Budget]
           \/ shares' = shares /\ bought' = bought /\ cost' = cost
        /\ entry_side' = side /\ entry_done' = TRUE
        /\ now' = now /\ salvage_done' = salvage_done
    BY <1>3 DEF Hold!Enter, Hold!ledger
  <1> HIDE DEF side, lot
  <1>7. Hold!Budget' = Hold!Budget
    BY DEF Hold!Budget
  <1>8. Hold!TypeOK'
    BY <1>1, <1>4, <1>5, <1>6, HoldBudget DEF Hold!TypeOK, Hold!Sides
  <1>9. /\ \A s \in Hold!Sides : s # side => bought'[s] = 0 /\ cost'[s] = 0
        /\ \A s \in Hold!Sides : shares'[s] = bought'[s]
        /\ cost'[side] \in {0, Hold!Budget}
    BY <1>1, <1>2, <1>4, <1>5, <1>6, HoldBudget DEF Hold!TypeOK, Hold!Sides
  <1>10. cost'["UP"] + cost'["DOWN"] = cost'[side]
    BY <1>4, <1>8, <1>9 DEF Hold!TypeOK, Hold!Sides
  <1> QED BY <1>1, <1>4, <1>6, <1>7, <1>8, <1>9, <1>10, HoldBudget
          DEF Hold!HoldInv, Hold!OneEntry, Hold!EntryWasBought, Hold!OneSide, Hold!Spent

LEMMA HoldSalvages ==
  ASSUME Hold!HoldInv, NEW t \in Hold!Ticks, Hold!Salvage(t)
  PROVE  Hold!HoldInv'
  <1>1. /\ Hold!TypeOK /\ entry_side \in Hold!Sides
        /\ shares' = [shares EXCEPT ![entry_side] = 0] /\ salvage_done' = TRUE
        /\ UNCHANGED <<now, bought, cost, entry_side, entry_done>>
    BY DEF Hold!Salvage, Hold!SalvageDue, Hold!HoldInv, Hold!TypeOK
  <1>2. Hold!Budget' = Hold!Budget /\ Hold!Spent' = Hold!Spent
    BY <1>1 DEF Hold!Budget, Hold!Spent
  <1>3. \A s \in Hold!Sides : s # entry_side => bought[s] = 0 /\ shares[s] = 0
    BY DEF Hold!HoldInv, Hold!OneSide, Hold!OneEntry
  <1>4. shares'["UP"] = 0 /\ shares'["DOWN"] = 0
    BY <1>1, <1>3 DEF Hold!TypeOK, Hold!Sides
  <1> QED BY <1>1, <1>2, <1>4 DEF Hold!HoldInv, Hold!TypeOK, Hold!OneEntry, Hold!OneSide,
             Hold!EntryWasBought, Hold!Sides

LEMMA HoldStep == Hold!HoldInv /\ Hold!Next => Hold!HoldInv'
  <1> SUFFICES ASSUME Hold!HoldInv, Hold!Next PROVE Hold!HoldInv'
    OBVIOUS
  <1>1. CASE Hold!Pass \/ UNCHANGED Hold!vars
    <2>1. /\ UNCHANGED <<shares, bought, cost, entry_side, entry_done, salvage_done>>
          /\ now' \in HoldMoments
      BY <1>1 DEF Hold!Pass, Hold!vars, Hold!ledger, Hold!HoldInv, Hold!TypeOK
    <2> QED BY <2>1 DEF Hold!HoldInv, Hold!TypeOK, Hold!OneEntry, Hold!EntryWasBought,
                        Hold!OneSide, Hold!Spent, Hold!Budget
  <1> QED BY <1>1, HoldEnters, HoldSalvages DEF Hold!Next, Hold!Watch

-----------------------------------------------------------------------------
(* Strategy D_cross                                                        *)

\* A sale of a shares at p, not below what they cost, returns what they cost but for a
\* cent of rounding (c: cost, b: bought, s: held, r: returned, k: cents so far).
LEMMA SaleCovers ==
  ASSUME NEW c \in Nat, NEW b \in Nat, NEW s \in 0 .. b, NEW r \in Nat, NEW k \in Nat,
         NEW a \in 0 .. s, NEW p \in Nat,
         c * (b - s) <= (r + k) * b, p * b >= 100 * c
  PROVE  c * (b - (s - a)) <= (r + (a * p) \div 100 + (k + 1)) * b
  <1> DEFINE q == (a * p) \div 100
  <1>1. /\ q \in Nat /\ a * p \in Nat /\ a * p <= 100 * (q + 1)
    <2>1. a * p \in Nat
      OBVIOUS
    <2> DEFINE n == a * p
    <2> HIDE DEF n
    <2>2. n \in Nat => n \div 100 \in Nat /\ n <= 100 * (n \div 100 + 1)
      OBVIOUS
    <2> QED BY <2>1, <2>2 DEF n
  <1> HIDE DEF q
  <1>2. (a * p) * b <= (100 * (q + 1)) * b
    <2> DEFINE n == a * p
               m == 100 * (q + 1)
    <2>1. n \in Nat /\ m \in Nat /\ n <= m
      BY <1>1
    <2> HIDE DEF n, m
    <2>2. n * b <= m * b
      BY <2>1
    <2> QED BY <2>2 DEF n, m
  <1>3. a * (100 * c) <= a * (p * b)
    <2> DEFINE x == 100 * c
               y == p * b
    <2>1. x \in Nat /\ y \in Nat /\ x <= y
      OBVIOUS
    <2> HIDE DEF x, y
    <2>2. a * x <= a * y
      BY <2>1
    <2> QED BY <2>2 DEF x, y
  <1>4. c * a <= (q + 1) * b
    <2>1. a * (100 * c) = 100 * (c * a) /\ a * (p * b) = (a * p) * b
      OBVIOUS
    <2>2. (100 * (q + 1)) * b = 100 * ((q + 1) * b)
      BY <1>1
    <2>3. c * a \in Nat /\ (q + 1) * b \in Nat
      BY <1>1
    <2> DEFINE x == c * a
               y == (q + 1) * b
               z == (a * p) * b
    <2>4. x \in Nat /\ y \in Nat /\ z \in Nat
      BY <1>1, <2>3
    <2>5. z <= 100 * y
      BY <1>2, <2>2
    <2>6. 100 * x <= z
      BY <1>3, <2>1
    <2> HIDE DEF x, y, z
    <2>7. x <= y
      BY <2>4, <2>5, <2>6
    <2> QED BY <2>7 DEF x, y
  <1>5. c * (b - (s - a)) = c * (b - s) + c * a
    OBVIOUS
  <1>6. (r + q + (k + 1)) * b = (r + k) * b + (q + 1) * b
    BY <1>1
  <1>7. /\ c * (b - s) \in Int /\ c * a \in Int /\ (r + k) * b \in Int /\ (q + 1) * b \in Int
    BY <1>1
  <1>8. c * (b - s) + c * a <= (r + k) * b + (q + 1) * b
    <2> DEFINE x1 == c * (b - s)
               x2 == c * a
               y1 == (r + k) * b
               y2 == (q + 1) * b
    <2>1. x1 \in Int /\ x2 \in Int /\ y1 \in Int /\ y2 \in Int /\ x1 <= y1 /\ x2 <= y2
      BY <1>4, <1>7
    <2> HIDE DEF x1, x2, y1, y2
    <2>2. x1 + x2 <= y1 + y2
      BY <2>1
    <2> QED BY <2>2 DEF x1, x2, y1, y2
  <1> QED BY <1>5, <1>6, <1>8 DEF q

\* Four cents over the ask cover a budget of a dollar or more, the share that the ask
\* does not divide included.
LEMMA PaidClears ==
  ASSUME NEW total \in Nat, total >= 100, NEW ask \in 1 .. 48, NEW p \in Nat, p >= ask + 4
  PROVE  /\ (total * 100) \div ask \in Nat
         /\ (total * 100) \div ask >= 200
         /\ p * ((total * 100) \div ask) >= 100 * total
  <1> DEFINE b == (total * 100) \div ask
  <1>1. b \in Nat /\ b * ask <= total * 100 /\ total * 100 < b * ask + ask
    BY Division
  <1> HIDE DEF b
  <1>2. b * ask <= b * 48 /\ b * ask \in Nat
    BY <1>1
  <1>3. b >= 200
    BY <1>1, <1>2
  <1>4. p * b >= (ask + 4) * b /\ (ask + 4) * b = b * ask + 4 * b /\ p * b \in Nat
    BY <1>1
  <1>5. p * b >= 100 * total
    BY <1>1, <1>2, <1>3, <1>4
  <1> QED BY <1>1, <1>3, <1>5 DEF b

LEMMA GridConstants ==
  /\ Duration \in Nat /\ Duration >= 4 /\ GridMoments \subseteq 0 .. Duration /\ 0 \in GridMoments
  /\ Grid!Budget \in Nat /\ Grid!Budget >= 100
  /\ GridBooks \subseteq [bid : [Grid!Sides -> 0 .. 100], ask : [Grid!Sides -> 0 .. 100]]
  BY InstancesSound DEF Grid!CrossGridAssumption, Grid!Budget, Grid!Clamp, Grid!Most,
                        Grid!Least, Grid!Sides

LEMMA GridPrices ==
  ASSUME NEW t \in Grid!Ticks, NEW side \in Grid!Sides
  PROVE  Grid!Bid(side, t) \in 0 .. 100 /\ Grid!Ask(side, t) \in 0 .. 100
  <1>1. t.book \in GridBooks
    BY DEF Grid!Ticks
  <1> QED BY <1>1, GridConstants DEF Grid!Bid, Grid!Ask

\* Of two times the later is not at a smaller percentage.
LEMMA LaterPct ==
  ASSUME NEW d \in Nat \ {0}, NEW m \in Nat, NEW n \in Nat, m <= n
  PROVE  (m * 100) \div d <= (n * 100) \div d
  <1> DEFINE q == (m * 100) \div d
             p == (n * 100) \div d
  <1>1. q \in Nat /\ q * d <= m * 100 /\ p \in Nat /\ n * 100 < p * d + d
    BY Division
  <1> HIDE DEF p, q
  <1>2. q <= p
    <2> SUFFICES ASSUME p + 1 <= q PROVE FALSE
      BY <1>1
    <2>1. (p + 1) * d <= q * d /\ (p + 1) * d = p * d + d
      BY <1>1
    <2>2. q * d \in Nat /\ p * d \in Nat
      BY <1>1
    <2> QED BY <1>1, <2>1, <2>2
  <1> QED BY <1>2 DEF p, q

\* Time does not run back, and the last sales belong to the last quarter.
LEMMA GridTime ==
  ASSUME now \in GridMoments
  PROVE  /\ Grid!TimePct \in Nat
         /\ Grid!Final => Grid!TimePct >= 75
         /\ (now' \in GridMoments /\ now' >= now) => Grid!TimePct' >= Grid!TimePct
  <1>1. /\ now \in 0 .. Duration /\ now * 100 \in Nat /\ Duration \in Nat \ {0}
    BY GridConstants
  <1> DEFINE q == (now * 100) \div Duration
  <1>2. q \in Nat /\ q * Duration <= now * 100 /\ now * 100 < q * Duration + Duration
    BY <1>1, Division
  <1>3. Grid!TimePct = q /\ Grid!TimePct' = (now' * 100) \div Duration
    BY DEF Grid!TimePct
  <1>4. (now' \in GridMoments /\ now' >= now) => Grid!TimePct' >= q
    <2> SUFFICES ASSUME now' \in GridMoments, now' >= now PROVE Grid!TimePct' >= q
      OBVIOUS
    <2>1. now' \in Nat /\ now \in Nat
      BY GridConstants
    <2> QED BY <1>1, <1>3, <2>1, LaterPct
  <1> HIDE DEF q
  <1>5. ASSUME now >= Duration - 1 PROVE q >= 75
    <2> SUFFICES ASSUME q <= 74 PROVE FALSE
      BY <1>2
    <2>1. q * Duration <= 74 * Duration /\ q * Duration \in Nat
      BY <1>1, <1>2
    <2> QED BY <1>1, <1>2, <1>5, <2>1, GridConstants
  <1>6. Grid!Final => q >= 75
    BY <1>1, <1>2, <1>3, <1>5, GridConstants DEF Grid!Final, Grid!SecondsLeft
  <1> QED BY <1>2, <1>3, <1>4, <1>6

LEMMA GridStart == Grid!Init => Grid!GridInv
  <1> SUFFICES ASSUME Grid!Init PROVE Grid!GridInv
    OBVIOUS
  <1>1. /\ shares \in [Grid!Sides -> Nat] /\ bought = shares /\ cost = shares
        /\ returned = shares /\ shares["UP"] = 0 /\ shares["DOWN"] = 0
    BY DEF Grid!Init, Grid!Sides
  <1>2. /\ now = 0 /\ entry_side = "none" /\ entry_ask = 0 /\ pending_entry_ask = 0
        /\ initial_entry_shares = 0 /\ sell_steps_done = 0
        /\ thesis_locked \in BOOLEAN /\ emergency_sold \in BOOLEAN /\ ~emergency_sold
        /\ protected = {} /\ released \in BOOLEAN
    BY DEF Grid!Init
  <1>3. Grid!TypeOK
    BY <1>1, <1>2, GridConstants DEF Grid!TypeOK
  <1>4. Grid!Spent = 0 /\ \A side \in Grid!Sides : cost[side] = 0 /\ bought[side] = 0 /\ shares[side] = 0
    BY <1>1 DEF Grid!Spent, Grid!Sides
  <1> QED BY <1>1, <1>2, <1>3, <1>4, GridConstants
          DEF Grid!GridInv, Grid!OneEntry, Grid!RunnerKept, Grid!NothingYet, Grid!SoldLate,
              Grid!Sides

\* What a tick finds: whether an entry is to be noticed, and at which ask.
LEMMA GridFinds ==
  ASSUME Grid!GridInv
  PROVE  /\ Grid!Side \in Grid!Sides \cup {"none"} /\ Grid!EntryAsk \in 0 .. 48
         /\ Grid!Spent = 0 => /\ Grid!Side = "none" /\ entry_side = "none"
                              /\ cost["UP"] = 0 /\ cost["DOWN"] = 0
                              /\ bought["UP"] = 0 /\ bought["DOWN"] = 0
                              /\ shares["UP"] = 0 /\ shares["DOWN"] = 0
         /\ \A side \in Grid!Sides : (cost[side] > 0 /\ ~emergency_sold) =>
              /\ Grid!Side = side /\ Grid!EntryAsk = Grid!Paid
              /\ bought[side] >= 200 /\ bought[Grid!Other(side)] = 0
  <1>1. Grid!TypeOK /\ Grid!NothingYet /\ Grid!OneEntry
    BY DEF Grid!GridInv
  <1>2. /\ cost["UP"] \in Nat /\ cost["DOWN"] \in Nat /\ bought["UP"] \in Nat /\ bought["DOWN"] \in Nat
        /\ shares["UP"] \in Nat /\ shares["DOWN"] \in Nat
        /\ shares["UP"] <= bought["UP"] /\ shares["DOWN"] <= bought["DOWN"]
    BY <1>1 DEF Grid!TypeOK, Grid!NothingYet, Grid!Sides
  <1>3. Grid!Side \in Grid!Sides \cup {"none"} /\ Grid!EntryAsk \in 0 .. 48
    BY <1>1 DEF Grid!TypeOK, Grid!Side, Grid!EntryAsk, Grid!Sides
  <1>4. ASSUME Grid!Spent = 0
        PROVE  /\ Grid!Side = "none" /\ entry_side = "none"
               /\ cost["UP"] = 0 /\ cost["DOWN"] = 0
               /\ bought["UP"] = 0 /\ bought["DOWN"] = 0
               /\ shares["UP"] = 0 /\ shares["DOWN"] = 0
    <2>1. cost["UP"] = 0 /\ cost["DOWN"] = 0 /\ entry_side = "none"
      BY <1>1, <1>2, <1>4 DEF Grid!Spent, Grid!NothingYet
    <2>2. bought["UP"] = 0 /\ bought["DOWN"] = 0 /\ shares["UP"] = 0 /\ shares["DOWN"] = 0
      BY <1>1, <1>2, <2>1 DEF Grid!NothingYet, Grid!Sides
    <2> QED BY <2>1, <2>2 DEF Grid!Side
  <1>5. ASSUME NEW side \in Grid!Sides, cost[side] > 0, ~emergency_sold
        PROVE  /\ Grid!Side = side /\ Grid!EntryAsk = Grid!Paid
               /\ bought[side] >= 200 /\ bought[Grid!Other(side)] = 0
    <2>1. Grid!EntryKept(side)
      BY <1>5 DEF Grid!GridInv
    <2>2. bought[side] >= 200
      <3>1. Grid!Paid + 4 \in Nat /\ Grid!Paid \in 1 .. 48
        BY <2>1 DEF Grid!EntryKept
      <3> QED BY <2>1, <3>1, GridConstants, PaidClears DEF Grid!EntryKept
    <2>3. cost[Grid!Other(side)] = 0 /\ Grid!Other(side) \in Grid!Sides /\ Grid!Other(side) # side
      BY <1>1, <1>2, <1>5 DEF Grid!OneEntry, Grid!Other, Grid!Sides
    <2>4. bought[Grid!Other(side)] = 0 /\ shares[Grid!Other(side)] = 0
      BY <1>1, <1>2, <2>3 DEF Grid!NothingYet, Grid!Sides
    <2>5. Grid!Side = side
      BY <1>2, <2>1, <2>2, <2>3, <2>4 DEF Grid!EntryKept, Grid!Side, Grid!Sides
    <2>6. Grid!EntryAsk = Grid!Paid
      BY <2>5, <2>1 DEF Grid!EntryAsk, Grid!Paid, Grid!EntryKept, Grid!Sides
    <2> QED BY <2>2, <2>4, <2>5, <2>6
  <1> QED BY <1>3, <1>4, <1>5

\* A step that leaves the ledger and the grid alone, and at most notices the entry.
LEMMA GridKeeps ==
  ASSUME Grid!GridInv,
         now' \in GridMoments, now' >= now,
         UNCHANGED <<Grid!ledger, pending_entry_ask, initial_entry_shares, sell_steps_done,
                     thesis_locked, emergency_sold, released>>,
         protected' \subseteq Grid!Sides,
         \/ UNCHANGED <<entry_side, entry_ask>>
         \/ entry_side' = Grid!Side /\ entry_ask' = Grid!EntryAsk
  PROVE  Grid!GridInv'
  <1>1. /\ UNCHANGED <<shares, bought, cost, returned, pending_entry_ask, initial_entry_shares,
                       sell_steps_done, thesis_locked, emergency_sold, released>>
        /\ Grid!Spent' = Grid!Spent /\ Grid!Budget' = Grid!Budget
    BY DEF Grid!ledger, Grid!Spent, Grid!Budget
  <1>2. Grid!TimePct \in Nat /\ Grid!TimePct' >= Grid!TimePct /\ Grid!TimePct' \in Int
    <2>1. now \in GridMoments /\ now' \in Nat /\ Duration \in Nat \ {0}
      BY GridConstants DEF Grid!GridInv, Grid!TypeOK
    <2>2. Grid!TimePct' = (now' * 100) \div Duration
      BY DEF Grid!TimePct
    <2> QED BY <2>1, <2>2, GridTime, Division
  <1>3. Grid!TypeOK'
    BY <1>1, GridFinds DEF Grid!GridInv, Grid!TypeOK
  <1>4. Grid!OneEntry' /\ Grid!NothingYet'
    BY <1>1, GridFinds DEF Grid!GridInv, Grid!OneEntry, Grid!NothingYet
  <1>5. Grid!RunnerKept' /\ Grid!SoldLate'
    BY <1>1, <1>2 DEF Grid!GridInv, Grid!RunnerKept, Grid!SoldLate
  <1>6. ASSUME NEW side \in Grid!Sides, cost[side] > 0, ~emergency_sold PROVE Grid!EntryKept(side)'
    <2>1. Grid!EntryKept(side) /\ Grid!Side = side /\ Grid!EntryAsk = Grid!Paid
      BY <1>6, GridFinds DEF Grid!GridInv
    <2>2. Grid!Paid' = Grid!Paid /\ entry_side' \in {"none", side}
          /\ (entry_side' = "none" => entry_side = "none")
      BY <1>1, <2>1 DEF Grid!Paid, Grid!EntryKept, Grid!Sides
    <2> QED BY <1>1, <2>1, <2>2 DEF Grid!EntryKept
  <1> QED BY <1>1, <1>3, <1>4, <1>5, <1>6 DEF Grid!GridInv

\* The last sales leave what the entry was, and come when the runner has run.
LEMMA GridExits ==
  ASSUME Grid!GridInv, NEW t \in Grid!Ticks, Grid!EmergencyExit(t)
  PROVE  Grid!GridInv'
  <1> DEFINE out == [side \in Grid!Sides |-> IF side \in Grid!Dumped(t) THEN shares[side] ELSE 0]
  <1>1. /\ shares' = [side \in Grid!Sides |-> shares[side] - out[side]]
        /\ returned' = [side \in Grid!Sides |->
                          returned[side] + (out[side] * Grid!Bid(side, t)) \div 100]
        /\ UNCHANGED <<bought, cost, now, pending_entry_ask, initial_entry_shares,
                       sell_steps_done, thesis_locked, released>>
        /\ emergency_sold' = TRUE /\ Grid!Final
        /\ entry_side' = Grid!Side /\ entry_ask' = Grid!EntryAsk
        /\ protected' \subseteq Grid!Sides
    BY DEF Grid!EmergencyExit, Grid!Sell, Grid!Notice
  <1>2. Grid!TypeOK /\ Grid!NothingYet /\ Grid!OneEntry
    BY DEF Grid!GridInv
  <1>3. \A side \in Grid!Sides : out[side] \in Nat /\ out[side] <= shares[side] /\ shares[side] \in Nat
    BY <1>2 DEF Grid!TypeOK
  <1> HIDE DEF out
  <1>4. \A side \in Grid!Sides : (out[side] * Grid!Bid(side, t)) \div 100 \in Nat
    <2> SUFFICES ASSUME NEW side \in Grid!Sides
                 PROVE  (out[side] * Grid!Bid(side, t)) \div 100 \in Nat
      OBVIOUS
    <2>1. out[side] \in Nat /\ Grid!Bid(side, t) \in 0 .. 100
      BY <1>3, GridPrices
    <2> QED BY <2>1, PartOf
  <1>5. /\ shares' \in [Grid!Sides -> Nat] /\ returned' \in [Grid!Sides -> Nat]
        /\ \A side \in Grid!Sides : shares'[side] <= shares[side] /\ shares'[side] \in Nat
    BY <1>1, <1>2, <1>3, <1>4 DEF Grid!TypeOK
  <1>6. Grid!TypeOK'
    BY <1>1, <1>2, <1>5, GridFinds DEF Grid!TypeOK
  <1>7. Grid!Spent' = Grid!Spent /\ Grid!Budget' = Grid!Budget /\ Grid!TimePct' = Grid!TimePct
    BY <1>1 DEF Grid!Spent, Grid!Budget, Grid!TimePct
  <1>8. Grid!TimePct >= 75 /\ Grid!TimePct \in Nat
    BY <1>1, <1>2, GridTime DEF Grid!TypeOK
  <1>9. Grid!NothingYet'
    <2>1. \A side \in Grid!Sides : shares'[side] <= bought'[side]
                                   /\ (cost'[side] = 0 => bought'[side] = 0)
      BY <1>1, <1>2, <1>5 DEF Grid!NothingYet, Grid!TypeOK
    <2>2. Grid!Spent' = 0 => entry_side' = "none" /\ initial_entry_shares' = 0
                              /\ sell_steps_done' = 0
      BY <1>1, <1>2, <1>7, GridFinds DEF Grid!NothingYet
    <2> QED BY <2>1, <2>2 DEF Grid!NothingYet
  <1>10. Grid!OneEntry' /\ Grid!RunnerKept' /\ Grid!SoldLate'
    BY <1>1, <1>2, <1>7, <1>8 DEF Grid!OneEntry, Grid!RunnerKept, Grid!SoldLate
  <1> QED BY <1>1, <1>6, <1>9, <1>10 DEF Grid!GridInv

\* The entry: the first of the window, at an ask of 48 at most.
LEMMA GridEnters ==
  ASSUME Grid!GridInv, NEW t \in Grid!Ticks, Grid!Enter(t)
  PROVE  Grid!GridInv'
  <1> DEFINE side == Grid!CheapSide(t)
             ask == Grid!Ask(side, t)
             lot == (Grid!Budget * 100) \div ask
  <1>1. Grid!TypeOK /\ Grid!NothingYet /\ Grid!OneEntry /\ Grid!SoldLate
    BY DEF Grid!GridInv
  <1>2. /\ Grid!Spent = 0 /\ side \in Grid!Sides /\ ask \in 1 .. 48 /\ Grid!TimePct <= 65
    <2>1. Grid!Spent = 0 /\ side # "none" /\ ask > 0 /\ ask <= 48 /\ Grid!TimePct <= 65
      BY DEF Grid!Enter, Grid!EntryDue
    <2>2. side \in Grid!Sides
      BY <2>1 DEF Grid!CheapSide, Grid!Sides
    <2> QED BY <2>1, <2>2, GridPrices
  <1>3. /\ \/ /\ shares' = [shares EXCEPT ![side] = @ + lot]
              /\ bought' = [bought EXCEPT ![side] = @ + lot]
              /\ cost' = [cost EXCEPT ![side] = @ + Grid!Budget]
              /\ returned' = returned
           \/ UNCHANGED <<shares, bought, cost, returned>>
        /\ pending_entry_ask' = ask
        /\ entry_side' = Grid!Side /\ entry_ask' = Grid!EntryAsk /\ protected' \subseteq Grid!Sides
        /\ UNCHANGED <<now, initial_entry_shares, sell_steps_done, thesis_locked,
                       emergency_sold, released>>
    BY DEF Grid!Enter, Grid!Buy, Grid!Notice, Grid!ledger
  <1>4. lot \in Nat /\ lot >= 200
    <2>1. ask + 4 \in Nat
      BY <1>2
    <2> QED BY <1>2, <2>1, GridConstants, PaidClears
  <1>5. ~emergency_sold
    BY <1>1, <1>2, GridTime DEF Grid!SoldLate, Grid!TypeOK
  <1> HIDE DEF side, ask, lot
  <1>6. /\ Grid!Side = "none" /\ \A s \in Grid!Sides : cost[s] = 0 /\ bought[s] = 0 /\ shares[s] = 0
        /\ initial_entry_shares = 0 /\ sell_steps_done = 0
    BY <1>1, <1>2, GridFinds DEF Grid!Sides, Grid!NothingYet
  <1>7. Grid!Budget' = Grid!Budget /\ Grid!TimePct' = Grid!TimePct
    BY <1>3 DEF Grid!Budget, Grid!TimePct
  <1>8. Grid!TypeOK'
    <2>1. /\ shares' \in [Grid!Sides -> Nat] /\ bought' \in [Grid!Sides -> Nat]
          /\ cost' \in [Grid!Sides -> Nat] /\ returned' \in [Grid!Sides -> Nat]
      BY <1>1, <1>2, <1>3, <1>4, GridConstants DEF Grid!TypeOK
    <2>2. entry_side' \in Grid!Sides \cup {"none"} /\ entry_ask' \in 0 .. 48
      BY <1>3, GridFinds
    <2> QED BY <1>1, <1>2, <1>3, <2>1, <2>2 DEF Grid!TypeOK
  <1>9. /\ \A s \in Grid!Sides : s # side => cost'[s] = 0 /\ bought'[s] = 0 /\ shares'[s] = 0
        /\ \/ cost'[side] = Grid!Budget /\ bought'[side] = lot /\ shares'[side] = lot
           \/ cost'[side] = 0 /\ bought'[side] = 0 /\ shares'[side] = 0
    BY <1>1, <1>2, <1>3, <1>4, <1>6, GridConstants DEF Grid!TypeOK
  <1>10. Grid!Spent' = cost'[side] /\ (cost'["UP"] = 0 \/ cost'["DOWN"] = 0)
    BY <1>2, <1>8, <1>9 DEF Grid!Spent, Grid!Sides, Grid!TypeOK
  <1>11. Grid!OneEntry'
    BY <1>7, <1>9, <1>10, GridConstants DEF Grid!OneEntry
  <1>12. Grid!NothingYet'
    BY <1>2, <1>3, <1>4, <1>6, <1>9, <1>10, GridConstants DEF Grid!NothingYet
  <1>13. Grid!SoldLate'
    BY <1>3, <1>5 DEF Grid!SoldLate
  <1>14. Grid!RunnerKept'
    BY <1>2, <1>4, <1>9 DEF Grid!RunnerKept
  <1>15. ASSUME NEW s \in Grid!Sides, cost'[s] > 0 PROVE Grid!EntryKept(s)'
    <2>1. s = side /\ cost'[side] = Grid!Budget /\ bought'[side] = lot /\ shares'[side] = lot
      BY <1>9, <1>15
    <2>2. Grid!Paid' = ask
      BY <1>3, <1>6 DEF Grid!Paid
    <2>3. cost'[s] * (bought'[s] - shares'[s]) <= (returned'[s] + sell_steps_done') * bought'[s]
      <3>1. returned'[s] \in Nat /\ sell_steps_done' = 0
        BY <1>3, <1>6, <1>8 DEF Grid!TypeOK
      <3>2. bought'[s] - shares'[s] = 0 /\ bought'[s] \in Nat /\ cost'[s] \in Nat
        BY <1>4, <2>1, GridConstants
      <3>3. cost'[s] * 0 = 0 /\ (returned'[s] + 0) * bought'[s] \in Nat
        BY <3>1, <3>2
      <3> QED BY <3>1, <3>2, <3>3
    <2> QED BY <1>2, <1>3, <1>6, <1>7, <2>1, <2>2, <2>3 DEF Grid!EntryKept, lot
  <1> QED BY <1>8, <1>11, <1>12, <1>13, <1>14, <1>15 DEF Grid!GridInv

\* What a step of the grid sells: at least four cents over the ask, a part of what is
\* held, and above the runner unless the lock or the last quarter lifts it.
LEMMA GridSale ==
  ASSUME Grid!GridInv, NEW t \in Grid!Ticks, NEW deltas \in Grid!GridDeltas,
         Grid!Managing, Grid!GridSells(t, deltas)
  PROVE  /\ sell_steps_done \in 0 .. 2
         /\ Grid!GridAmount(t) \in 1 .. shares[Grid!Side]
         /\ Grid!Bid(Grid!Side, t) \in 0 .. 100
         /\ Grid!Bid(Grid!Side, t) >= Grid!EntryAsk + 4
         /\ (~Grid!Locked(t) /\ Grid!TimePct < 75) =>
              Grid!GridAmount(t) <= shares[Grid!Side] - (Grid!Initial * 35) \div 100
  <1>1. Grid!TypeOK /\ Grid!Side \in Grid!Sides /\ Grid!EntryAsk \in 0 .. 48
    BY GridFinds DEF Grid!GridInv, Grid!Managing
  <1>2. sell_steps_done \in 0 .. 2
    BY <1>1 DEF Grid!GridSells, Grid!TypeOK
  <1>3. Grid!Bid(Grid!Side, t) \in 0 .. 100
    BY <1>1, GridPrices
  <1>4. deltas[sell_steps_done + 1] \in 6 .. 26
    <2>1. CASE sell_steps_done = 0
      BY <2>1 DEF Grid!GridDeltas
    <2>2. CASE sell_steps_done = 1
      BY <2>2 DEF Grid!GridDeltas
    <2>3. CASE sell_steps_done = 2
      BY <2>3 DEF Grid!GridDeltas
    <2> QED BY <1>2, <2>1, <2>2, <2>3
  <1>5. Grid!Target(deltas) >= Grid!EntryAsk + 4 /\ Grid!Target(deltas) \in Int
    BY <1>1, <1>4 DEF Grid!Target, Grid!Clamp, Grid!Most, Grid!Least
  <1>6. Grid!Bid(Grid!Side, t) >= Grid!EntryAsk + 4
    BY <1>1, <1>3, <1>5 DEF Grid!GridSells
  <1>7. Grid!GridPart[sell_steps_done + 1] \in 0 .. 100
    <2>1. CASE sell_steps_done = 0
      BY <2>1 DEF Grid!GridPart
    <2>2. CASE sell_steps_done = 1
      BY <2>2 DEF Grid!GridPart
    <2>3. CASE sell_steps_done = 2
      BY <2>3 DEF Grid!GridPart
    <2> QED BY <1>2, <2>1, <2>2, <2>3
  <1> DEFINE held == shares[Grid!Side]
             want == Grid!Most((held * Grid!GridPart[sell_steps_done + 1]) \div 100, 1)
             floor == (Grid!Initial * 35) \div 100
  <1>8. held \in Nat /\ held >= 1
    BY <1>1 DEF Grid!TypeOK, Grid!Managing
  <1>9. want \in 1 .. held
    <2> DEFINE n == (held * Grid!GridPart[sell_steps_done + 1]) \div 100
    <2>1. n \in Nat /\ n <= held
      BY <1>7, <1>8, PartOf
    <2> HIDE DEF n
    <2>2. Grid!Most(n, 1) \in 1 .. held
      BY <1>8, <2>1 DEF Grid!Most
    <2> QED BY <2>2 DEF n
  <1>10. floor \in Nat
    <2>1. Grid!Initial \in Nat
      BY <1>1, <1>8 DEF Grid!Initial, Grid!TypeOK
    <2> QED BY <2>1, PartOf
  <1>11. Grid!GridAmount(t) = Grid!Capped(want, t)
    BY DEF Grid!GridAmount
  <1>12. Grid!GridAmount(t) > 0
    BY DEF Grid!GridSells
  <1>13. Grid!Capped(want, t) = IF Grid!Locked(t) \/ Grid!TimePct >= 75 THEN want
                                ELSE Grid!Least(want, Grid!Most(held - floor, 0))
    BY DEF Grid!Capped
  <1> HIDE DEF held, want, floor
  <1>14. Grid!GridAmount(t) \in 1 .. held
    BY <1>8, <1>9, <1>10, <1>11, <1>12, <1>13 DEF Grid!Least, Grid!Most
  <1>15. (~Grid!Locked(t) /\ Grid!TimePct < 75) => Grid!GridAmount(t) <= held - floor
    <2>1. Grid!TimePct \in Nat
      BY <1>1, GridTime DEF Grid!TypeOK
    <2> QED BY <1>8, <1>9, <1>10, <1>11, <1>12, <1>13, <2>1 DEF Grid!Least, Grid!Most
  <1> QED BY <1>2, <1>3, <1>6, <1>14, <1>15 DEF held, floor

\* A step of the grid, whether it sells or not.
LEMMA GridManages ==
  ASSUME Grid!GridInv, NEW t \in Grid!Ticks, NEW deltas \in Grid!GridDeltas,
         Grid!Manage(t, deltas)
  PROVE  Grid!GridInv'
  <1> DEFINE p == Grid!Side
             a == Grid!GridAmount(t)
             price == Grid!Bid(p, t)
             gain == (a * price) \div 100
  <1>1. Grid!TypeOK /\ Grid!NothingYet /\ Grid!OneEntry /\ Grid!SoldLate /\ Grid!RunnerKept
    BY DEF Grid!GridInv
  <1>2. /\ Grid!Managing /\ p \in Grid!Sides /\ shares[p] > 0
        /\ UNCHANGED <<bought, cost, now, pending_entry_ask, emergency_sold>>
        /\ entry_side' = p /\ entry_ask' = Grid!EntryAsk /\ protected' \subseteq Grid!Sides
        /\ initial_entry_shares' = Grid!Initial
        /\ thesis_locked' \in BOOLEAN /\ released' \in BOOLEAN
    <2>1. Grid!Locked(t) \in BOOLEAN
      BY DEF Grid!Locked
    <2>2. /\ Grid!Managing /\ shares[p] > 0 /\ Grid!Side # "none"
          /\ UNCHANGED <<bought, cost, now, pending_entry_ask, emergency_sold>>
          /\ entry_side' = p /\ entry_ask' = Grid!EntryAsk /\ protected' \subseteq Grid!Sides
          /\ initial_entry_shares' = Grid!Initial
          /\ thesis_locked' \in {thesis_locked, Grid!Locked(t)}
          /\ released' = released \/ released' = (released \/ Grid!Locked(t))
      BY DEF Grid!Manage, Grid!Managing, Grid!Notice, Grid!Sell, Grid!ledger
    <2>3. p \in Grid!Sides
      BY <2>2, GridFinds
    <2>4. thesis_locked' \in BOOLEAN
      BY <1>1, <2>1, <2>2 DEF Grid!TypeOK
    <2>5. released' \in BOOLEAN
      BY <1>1, <2>1, <2>2 DEF Grid!TypeOK
    <2> QED BY <2>2, <2>3, <2>4, <2>5
  <1>3. \/ UNCHANGED <<shares, returned, sell_steps_done, released>>
        \/ /\ Grid!GridSells(t, deltas)
           /\ shares' = [s \in Grid!Sides |-> shares[s] - (IF s = p THEN a ELSE 0)]
           /\ returned' = [s \in Grid!Sides |->
                             returned[s] + ((IF s = p THEN a ELSE 0) * Grid!Bid(s, t)) \div 100]
           /\ sell_steps_done' = sell_steps_done + 1
           /\ released' = (released \/ Grid!Locked(t))
    BY DEF Grid!Manage, Grid!Sell, Grid!ledger
  <1>4. Grid!GridSells(t, deltas) =>
          /\ sell_steps_done \in 0 .. 2 /\ a \in 1 .. shares[p] /\ price \in 0 .. 100
          /\ price >= Grid!EntryAsk + 4
          /\ (~Grid!Locked(t) /\ Grid!TimePct < 75) => a <= shares[p] - (Grid!Initial * 35) \div 100
    BY <1>2, GridSale
  <1>5. /\ \A s \in Grid!Sides : /\ shares[s] \in Nat /\ bought[s] \in Nat /\ cost[s] \in Nat
                                 /\ returned[s] \in Nat /\ shares[s] <= bought[s]
        /\ sell_steps_done \in 0 .. 3 /\ cost[p] > 0
    BY <1>1, <1>2 DEF Grid!TypeOK, Grid!NothingYet
  <1>6. \A s \in Grid!Sides : s # p => cost[s] = 0 /\ bought[s] = 0
    BY <1>1, <1>2, <1>5 DEF Grid!OneEntry, Grid!NothingYet, Grid!Sides
  <1>7. ASSUME NEW s \in Grid!Sides
        PROVE  \/ /\ UNCHANGED <<shares, returned, sell_steps_done, released>>
               \/ /\ Grid!GridSells(t, deltas)
                  /\ sell_steps_done' = sell_steps_done + 1
                  /\ released' = (released \/ Grid!Locked(t))
                  /\ shares'[s] = shares[s] - (IF s = p THEN a ELSE 0)
                  /\ returned'[s] = returned[s] + (IF s = p THEN gain ELSE 0)
    <2>1. Grid!Bid(s, t) \in Int /\ (0 * Grid!Bid(s, t)) \div 100 = 0
      BY GridPrices
    <2>2. CASE s = p
      BY <1>3, <2>2
    <2>3. CASE s # p
      BY <1>3, <1>5, <2>1, <2>3
    <2> QED BY <2>2, <2>3
  <1>8. Grid!GridSells(t, deltas) => gain \in Nat
    <2> SUFFICES ASSUME Grid!GridSells(t, deltas) PROVE gain \in Nat
      OBVIOUS
    <2>1. a \in Nat /\ price \in 0 .. 100
      BY <1>2, <1>4, <1>5
    <2> QED BY <2>1, PartOf
  <1>9. ~emergency_sold => /\ Grid!EntryKept(p) /\ Grid!EntryAsk = Grid!Paid
                           /\ bought[p] >= 200 /\ Grid!Initial = bought[p]
    BY <1>2, <1>5, GridFinds DEF Grid!GridInv, Grid!EntryKept, Grid!Initial
  <1>10. Grid!EntryAsk \in 0 .. 48 /\ Grid!Initial \in Nat
    BY <1>1, <1>2, <1>5, GridFinds DEF Grid!Initial, Grid!TypeOK
  <1>11. Grid!Spent' = Grid!Spent /\ Grid!Budget' = Grid!Budget /\ Grid!TimePct' = Grid!TimePct
         /\ Grid!TimePct \in Nat /\ Grid!Spent # 0
    <2>1. Grid!Spent' = Grid!Spent /\ Grid!Budget' = Grid!Budget /\ Grid!TimePct' = Grid!TimePct
      BY <1>2 DEF Grid!Spent, Grid!Budget, Grid!TimePct
    <2>2. Grid!Spent # 0
      BY <1>2, <1>5 DEF Grid!Spent, Grid!Sides
    <2> QED BY <1>1, <2>1, <2>2, GridTime DEF Grid!TypeOK
  <1> HIDE DEF p, a, price, gain
  <1>12. \A s \in Grid!Sides : /\ shares'[s] \in Nat /\ shares'[s] <= shares[s]
                               /\ returned'[s] \in Nat
    BY <1>2, <1>4, <1>5, <1>7, <1>8
  <1>13. Grid!TypeOK'
    <2>1. shares' \in [Grid!Sides -> Nat] /\ returned' \in [Grid!Sides -> Nat]
      <3>1. /\ shares' = [s \in Grid!Sides |-> shares'[s]]
            /\ returned' = [s \in Grid!Sides |-> returned'[s]]
        BY <1>1, <1>3 DEF Grid!TypeOK
      <3> QED BY <1>12, <3>1
    <2>2. sell_steps_done' \in 0 .. 3
      BY <1>3, <1>4, <1>5
    <2> QED BY <1>1, <1>2, <1>10, <2>1, <2>2 DEF Grid!TypeOK
  <1>14. Grid!OneEntry' /\ Grid!SoldLate'
    BY <1>1, <1>2, <1>11 DEF Grid!OneEntry, Grid!SoldLate
  <1>15. Grid!NothingYet'
    <2>1. \A s \in Grid!Sides : shares'[s] <= bought'[s] /\ (cost'[s] = 0 => bought'[s] = 0)
      BY <1>1, <1>2, <1>5, <1>12 DEF Grid!NothingYet
    <2> QED BY <1>11, <2>1 DEF Grid!NothingYet
  <1>16. Grid!RunnerKept'
    <2> SUFFICES ASSUME Grid!TimePct < 75, ~released', NEW s \in Grid!Sides
                 PROVE  100 * shares'[s] >= 34 * bought[s]
      BY <1>2, <1>11 DEF Grid!RunnerKept
    <2>1. ~emergency_sold
      BY <1>1, <1>11 DEF Grid!SoldLate
    <2>2. CASE UNCHANGED <<shares, returned, sell_steps_done, released>>
      <3>1. Grid!Spent > 0
        BY <1>2, <1>5, <1>11 DEF Grid!Spent, Grid!Sides
      <3> QED BY <1>1, <2>2, <3>1 DEF Grid!RunnerKept
    <2>3. CASE s # p
      BY <1>5, <1>6, <1>12, <2>3
    <2>4. CASE /\ s = p /\ Grid!GridSells(t, deltas) /\ ~Grid!Locked(t)
               /\ shares'[s] = shares[s] - a
      <3>1. a <= shares[p] - (bought[p] * 35) \div 100 /\ bought[p] >= 200
        BY <1>4, <1>9, <2>1, <2>4
      <3>2. a \in Nat /\ bought[p] \in Nat /\ shares[p] \in Nat
        BY <1>2, <1>4, <1>5, <2>4
      <3> QED BY <2>4, <3>1, <3>2
    <2> QED BY <1>7, <2>2, <2>3, <2>4
  <1>17. ASSUME NEW s \in Grid!Sides, cost[s] > 0, ~emergency_sold PROVE Grid!EntryKept(s)'
    <2>1. s = p /\ Grid!EntryKept(p) /\ Grid!EntryAsk = Grid!Paid /\ bought[p] >= 200
          /\ Grid!Initial = bought[p]
      BY <1>5, <1>6, <1>9, <1>17
    <2>2. Grid!Paid' = Grid!Paid
      BY <1>2, <2>1 DEF Grid!Paid, Grid!Sides
    <2>3. cost[p] * (bought[p] - shares'[p]) <= (returned'[p] + sell_steps_done') * bought[p]
      <3>1. cost[p] * (bought[p] - shares[p]) <= (returned[p] + sell_steps_done) * bought[p]
        BY <2>1 DEF Grid!EntryKept
      <3>2. CASE UNCHANGED <<shares, returned, sell_steps_done, released>>
        BY <3>1, <3>2
      <3>3. CASE /\ Grid!GridSells(t, deltas) /\ sell_steps_done' = sell_steps_done + 1
                 /\ shares'[p] = shares[p] - a /\ returned'[p] = returned[p] + gain
        <4>1. /\ a \in 0 .. shares[p] /\ price \in Nat /\ price >= Grid!Paid + 4
              /\ shares[p] \in 0 .. bought[p] /\ cost[p] \in Nat /\ bought[p] \in Nat
              /\ returned[p] \in Nat /\ sell_steps_done \in Nat
          BY <1>2, <1>4, <1>5, <2>1, <3>3
        <4>2. price * bought[p] >= 100 * cost[p]
          <5>1. Grid!Paid \in 1 .. 48 /\ cost[p] = Grid!Budget
                /\ bought[p] = (Grid!Budget * 100) \div Grid!Paid
            BY <2>1 DEF Grid!EntryKept
          <5> QED BY <4>1, <5>1, GridConstants, PaidClears
        <4>3. cost[p] * (bought[p] - (shares[p] - a))
                <= (returned[p] + (a * price) \div 100 + (sell_steps_done + 1)) * bought[p]
          BY <3>1, <4>1, <4>2, SaleCovers
        <4> QED BY <3>3, <4>3 DEF gain
      <3> QED BY <1>2, <1>7, <3>2, <3>3
    <2>4. /\ Grid!Paid' \in 1 .. 48 /\ cost'[s] = Grid!Budget'
          /\ entry_side' \in {"none", s} /\ entry_side' # "none"
          /\ initial_entry_shares' \in {0, bought'[s]} /\ initial_entry_shares' # 0
      BY <1>2, <1>11, <2>1, <2>2 DEF Grid!EntryKept, Grid!Sides
    <2>5. bought'[s] = (Grid!Budget' * 100) \div Grid!Paid'
      <3>1. bought[s] = (Grid!Budget * 100) \div Grid!Paid
        BY <2>1 DEF Grid!EntryKept
      <3> QED BY <1>2, <1>11, <2>2, <3>1, Zenon
    <2>6. cost'[s] * (bought'[s] - shares'[s]) <= (returned'[s] + sell_steps_done') * bought'[s]
      BY <1>2, <2>1, <2>3, Zenon
    <2> QED BY <2>4, <2>5, <2>6, Zenon DEF Grid!EntryKept
  <1> QED BY <1>2, <1>13, <1>14, <1>15, <1>16, <1>17 DEF Grid!GridInv

LEMMA GridStep == Grid!GridInv /\ Grid!Next => Grid!GridInv'
  <1> SUFFICES ASSUME Grid!GridInv, Grid!Next PROVE Grid!GridInv'
    OBVIOUS
  <1>1. now \in GridMoments /\ now \in Nat
    BY GridConstants DEF Grid!GridInv, Grid!TypeOK
  <1>2. CASE Grid!Pass
    BY <1>1, <1>2, GridConstants, GridKeeps DEF Grid!Pass
  <1>3. ASSUME NEW t \in Grid!Ticks, Grid!Watch(t) PROVE Grid!GridInv'
    BY <1>1, <1>3, GridKeeps DEF Grid!Watch, Grid!Notice
  <1> QED BY <1>2, <1>3, GridEnters, GridExits, GridManages DEF Grid!Next

\* The sales of the grid pay, whatever the emergency sold later.
LEMMA GridPaid == Grid!GridInv => Grid!GridPays
  <1> SUFFICES ASSUME Grid!GridInv, ~emergency_sold, NEW side \in Grid!Sides
               PROVE  cost[side] * (bought[side] - shares[side])
                        <= (returned[side] + 4) * bought[side]
    BY DEF Grid!GridPays
  <1>1. /\ cost[side] \in Nat /\ bought[side] \in Nat /\ shares[side] \in Nat
        /\ returned[side] \in Nat /\ sell_steps_done \in 0 .. 3
        /\ cost[side] = 0 => bought[side] = 0
    BY DEF Grid!GridInv, Grid!TypeOK, Grid!NothingYet
  <1>2. CASE cost[side] = 0
    <2>1. 0 * (bought[side] - shares[side]) = 0 /\ (returned[side] + 4) * 0 = 0
      BY <1>1
    <2> QED BY <1>1, <1>2, <2>1
  <1>3. CASE cost[side] > 0
    <2>1. cost[side] * (bought[side] - shares[side])
            <= (returned[side] + sell_steps_done) * bought[side]
      BY <1>3 DEF Grid!GridInv, Grid!EntryKept
    <2>2. (returned[side] + sell_steps_done) * bought[side] <= (returned[side] + 4) * bought[side]
      BY <1>1
    <2>3. /\ cost[side] * (bought[side] - shares[side]) \in Int
          /\ (returned[side] + sell_steps_done) * bought[side] \in Int
          /\ (returned[side] + 4) * bought[side] \in Int
      BY <1>1
    <2> QED BY <2>1, <2>2, <2>3
  <1> QED BY <1>1, <1>2, <1>3

\* Holds is asked before the grid and before the last sales.
LEMMA GridProtects == Grid!GridInv /\ Grid!Next => Grid!ProtectedStays
  <1> SUFFICES ASSUME Grid!GridInv, Grid!Next PROVE Grid!ProtectedStays
    OBVIOUS
  <1>0. protected' \subseteq Grid!Sides
    <2>1. ASSUME NEW t \in Grid!Ticks, Grid!Notice(t) PROVE protected' \subseteq Grid!Sides
      BY <2>1 DEF Grid!Notice
    <2>2. Grid!Pass \/ \E t \in Grid!Ticks : Grid!Notice(t)
      BY DEF Grid!Next, Grid!EmergencyExit, Grid!Enter, Grid!Watch, Grid!Manage
    <2> QED BY <2>1, <2>2 DEF Grid!Pass
  <1> SUFFICES ASSUME NEW side \in Grid!Sides, side \in protected'
               PROVE  shares'[side] >= shares[side]
    BY <1>0 DEF Grid!ProtectedStays
  <1>1. Grid!TypeOK /\ shares[side] \in Nat
    BY DEF Grid!GridInv, Grid!TypeOK
  <1>2. CASE Grid!Pass
    BY <1>2 DEF Grid!Pass
  <1>3. ASSUME NEW t \in Grid!Ticks, Grid!Watch(t) PROVE shares'[side] >= shares[side]
    BY <1>1, <1>3 DEF Grid!Watch, Grid!ledger
  <1>4. ASSUME NEW t \in Grid!Ticks, Grid!Enter(t) PROVE shares'[side] >= shares[side]
    <2> DEFINE c == Grid!CheapSide(t)
               lot == (Grid!Budget * 100) \div Grid!Ask(c, t)
    <2>1. lot \in Nat
      <3>1. c \in Grid!Sides
        BY <1>4 DEF Grid!Enter, Grid!EntryDue, Grid!CheapSide, Grid!Sides
      <3>2. Grid!Ask(c, t) \in Nat \ {0}
        BY <1>4, <3>1, GridPrices DEF Grid!Enter, Grid!EntryDue
      <3> QED BY <3>2, GridConstants, Division
    <2>2. shares' = [shares EXCEPT ![c] = @ + lot] \/ shares' = shares
      BY <1>4 DEF Grid!Enter, Grid!Buy, Grid!ledger
    <2> HIDE DEF c, lot
    <2> QED BY <1>1, <2>1, <2>2 DEF Grid!TypeOK
  <1>5. ASSUME NEW t \in Grid!Ticks, Grid!EmergencyExit(t) PROVE shares'[side] >= shares[side]
    <2>1. Grid!Holds(side, t)
      BY <1>5 DEF Grid!EmergencyExit, Grid!Notice
    <2>2. side \notin Grid!Dumped(t)
      BY <2>1 DEF Grid!Dumped
    <2> QED BY <1>1, <1>5, <2>2 DEF Grid!EmergencyExit, Grid!Sell
  <1>6. ASSUME NEW t \in Grid!Ticks, NEW deltas \in Grid!GridDeltas, Grid!Manage(t, deltas)
        PROVE  shares'[side] >= shares[side]
    <2>1. Grid!Holds(side, t)
      BY <1>6 DEF Grid!Manage, Grid!Notice
    <2>2. \/ shares' = shares
          \/ /\ ~Grid!Holds(Grid!Side, t)
             /\ shares' = [s \in Grid!Sides |->
                             shares[s] - (IF s = Grid!Side THEN Grid!GridAmount(t) ELSE 0)]
      BY <1>6 DEF Grid!Manage, Grid!Sell, Grid!ledger
    <2>3. CASE /\ side # Grid!Side
               /\ shares' = [s \in Grid!Sides |->
                               shares[s] - (IF s = Grid!Side THEN Grid!GridAmount(t) ELSE 0)]
      BY <1>1, <2>3
    <2> QED BY <1>1, <2>1, <2>2, <2>3
  <1> QED BY <1>2, <1>3, <1>4, <1>5, <1>6 DEF Grid!Next

-----------------------------------------------------------------------------
(* Strategy Dx                                                             *)

LEMMA ValueConstants ==
  /\ ValueMoments \subseteq 0 .. Duration /\ 0 \in ValueMoments
  /\ ValueBudget \in Nat /\ MaxBudgets \subseteq Nat /\ ValueGaps \subseteq Int
  /\ ValueBooks \subseteq [bid : [Value!Sides -> 0 .. 100], ask : [Value!Sides -> 0 .. 100]]
  BY InstancesSound DEF Value!FairValueAssumption, Value!Sides

LEMMA ValuePrices ==
  ASSUME NEW t \in Value!Ticks, NEW side \in Value!Sides
  PROVE  t.bid[side] \in 0 .. 100 /\ t.ask[side] \in 0 .. 100
  <1>1. PICK book \in ValueBooks : t.bid = book.bid /\ t.ask = book.ask
    BY DEF Value!Ticks
  <1> QED BY <1>1, ValueConstants

\* The cross of the spot is remembered on every tick.
LEMMA ValueSees ==
  ASSUME NEW t \in Value!Ticks, Value!SeeSpot(t), Value!TypeOK
  PROVE  ptb_baseline' \in Value!Sides \cup {"none"} /\ ptb_crossed' \in BOOLEAN
  <1>1. Value!Relation(t) \in Value!Sides \cup {"none"}
    BY DEF Value!Relation, Value!Sides
  <1>2. Value!Crossed(t) \in BOOLEAN
    BY DEF Value!Crossed, Value!TypeOK
  <1> QED BY <1>1, <1>2 DEF Value!SeeSpot, Value!TypeOK

LEMMA ValueStart == Value!Init => Value!ValueInv
  <1> SUFFICES ASSUME Value!Init PROVE Value!ValueInv
    OBVIOUS
  <1>1. /\ shares \in [Value!Sides -> Nat] /\ bought = shares /\ cost = shares
        /\ returned = shares /\ shares["UP"] = 0 /\ shares["DOWN"] = 0
    BY DEF Value!Init, Value!Sides
  <1>2. /\ now = 0 /\ primary_side = "none" /\ primary_entry_price = 0 /\ sell_steps = 0
        /\ ptb_baseline = "none" /\ ptb_crossed \in BOOLEAN /\ max_budget \in MaxBudgets
        /\ panicked \in BOOLEAN /\ salvaging \in BOOLEAN /\ dumped \in BOOLEAN
    BY DEF Value!Init
  <1>3. Value!TypeOK
    BY <1>1, <1>2, ValueConstants DEF Value!TypeOK
  <1>4. Value!Spent = 0
    BY <1>1 DEF Value!Spent
  <1> QED BY <1>1, <1>2, <1>3, <1>4
          DEF Value!ValueInv, Value!HedgeCapped, Value!PrimaryWasBought, Value!HeldWasPaid,
              Value!SalesPay, Value!Sides

\* A step that leaves the ledger alone.
LEMMA ValueKeeps ==
  ASSUME Value!ValueInv, now' \in ValueMoments,
         UNCHANGED <<Value!ledger, Value!thesis, sell_steps, max_budget, dumped>>,
         panicked' \in BOOLEAN, salvaging' \in BOOLEAN,
         ptb_baseline' \in Value!Sides \cup {"none"}, ptb_crossed' \in BOOLEAN
  PROVE  Value!ValueInv'
  <1>1. UNCHANGED <<shares, bought, cost, returned, primary_side, primary_entry_price,
                    sell_steps, max_budget, dumped>>
    BY DEF Value!ledger, Value!thesis
  <1>2. Value!Spent' = Value!Spent /\ Value!Hedging' = Value!Hedging
    BY <1>1 DEF Value!Spent, Value!Hedging
  <1>3. Value!TypeOK'
    BY <1>1 DEF Value!ValueInv, Value!TypeOK
  <1>4. Value!HedgeCapped' /\ Value!PrimaryWasBought' /\ Value!HeldWasPaid'
    BY <1>1, <1>2 DEF Value!ValueInv, Value!HedgeCapped, Value!PrimaryWasBought, Value!HeldWasPaid
  <1>5. Value!SalesPay'
    BY <1>1, <1>2 DEF Value!ValueInv, Value!SalesPay
  <1> QED BY <1>3, <1>4, <1>5 DEF Value!ValueInv

\* A step of the ladder, or the sale of all, is another cent of rounding.
LEMMA CentsSoFar ==
  ASSUME NEW s \in Nat \ {0}, NEW a \in 0 .. s, NEW n \in Nat, NEW m \in Nat,
         m = n + 1 \/ (m = n /\ a = s)
  PROVE  /\ m + (IF s - a = 0 THEN 1 ELSE 0) \in Nat
         /\ m + (IF s - a = 0 THEN 1 ELSE 0) >= n + 1
  OBVIOUS

\* A sale: of the hedge, of what the salvage dumps, or of the primary at a price that
\* clears its cost.
LEMMA ValueSells ==
  ASSUME Value!ValueInv, Value!Spent > 0,
         NEW side \in Value!Sides, NEW amount \in 0 .. shares[side], NEW price \in 0 .. 100,
         Value!Sell(side, amount, price),
         UNCHANGED Value!Kept,
         salvaging' \in BOOLEAN, dumped' \in BOOLEAN, sell_steps' \in 0 .. 3,
         ptb_baseline' \in Value!Sides \cup {"none"}, ptb_crossed' \in BOOLEAN,
         \/ dumped'
         \/ side # primary_side /\ sell_steps' = sell_steps /\ dumped' = dumped
         \/ /\ side = primary_side /\ dumped' = dumped /\ shares[side] > 0
            /\ price * bought[side] >= 100 * cost[side]
            /\ sell_steps' = sell_steps + 1 \/ (sell_steps' = sell_steps /\ amount = shares[side])
  PROVE  Value!ValueInv'
  <1> DEFINE gain == (amount * price) \div 100
  <1>1. Value!TypeOK /\ Value!HeldWasPaid /\ Value!PrimaryWasBought /\ Value!HedgeCapped
    BY DEF Value!ValueInv
  <1>2. /\ shares' = [shares EXCEPT ![side] = @ - amount]
        /\ returned' = [returned EXCEPT ![side] = @ + gain]
        /\ UNCHANGED <<bought, cost, now, primary_side, primary_entry_price, max_budget, panicked>>
    BY DEF Value!Sell, Value!Kept, Value!thesis
  <1>3. shares[side] \in Nat /\ amount \in Nat
    BY <1>1 DEF Value!TypeOK
  <1>4. gain \in Nat
    BY <1>3, PartOf
  <1> HIDE DEF gain
  <1>5. /\ shares' \in [Value!Sides -> Nat] /\ returned' \in [Value!Sides -> Nat]
        /\ shares'[side] = shares[side] - amount /\ returned'[side] = returned[side] + gain
        /\ \A s \in Value!Sides : s # side => shares'[s] = shares[s] /\ returned'[s] = returned[s]
    BY <1>1, <1>2, <1>3, <1>4 DEF Value!TypeOK
  <1>6. Value!TypeOK'
    BY <1>1, <1>2, <1>5 DEF Value!TypeOK
  <1>7. Value!Spent' = Value!Spent /\ Value!Hedging' = Value!Hedging
    BY <1>2 DEF Value!Spent, Value!Hedging
  <1>8. Value!HedgeCapped' /\ Value!PrimaryWasBought'
    BY <1>1, <1>2, <1>7 DEF Value!HedgeCapped, Value!PrimaryWasBought
  <1>9. \A s \in Value!Sides : shares'[s] <= bought[s] /\ (cost[s] = 0 => bought[s] = 0)
    <2> TAKE s \in Value!Sides
    <2>1. shares[s] <= bought[s] /\ (cost[s] = 0 => bought[s] = 0)
          /\ shares[s] \in Nat /\ bought[s] \in Nat
      BY <1>1 DEF Value!HeldWasPaid, Value!TypeOK
    <2> QED BY <1>3, <1>5, <2>1
  <1>10. Value!HeldWasPaid'
    BY <1>1, <1>2, <1>7, <1>9 DEF Value!HeldWasPaid
  <1>11. Value!SalesPay'
    <2> SUFFICES ASSUME ~dumped'
                 PROVE  cost[primary_side] * (bought[primary_side] - shares'[primary_side])
                          <= (returned'[primary_side] + sell_steps'
                                + (IF shares'[primary_side] = 0 THEN 1 ELSE 0)) * bought[primary_side]
      BY <1>2, <1>7 DEF Value!SalesPay
    <2> DEFINE c == cost[primary_side]
               b == bought[primary_side]
               s == shares[primary_side]
               r == returned[primary_side]
               k == sell_steps + (IF s = 0 THEN 1 ELSE 0)
    <2>1. /\ primary_side \in Value!Sides /\ sell_steps \in 0 .. 3
          /\ c \in Nat /\ b \in Nat /\ s \in 0 .. b /\ r \in Nat
      BY <1>1 DEF Value!HeldWasPaid, Value!TypeOK
    <2>2. ~dumped
      OBVIOUS
    <2>3. c * (b - s) <= (r + k) * b
      <3>1. c * (b - s) <= (r + sell_steps + (IF s = 0 THEN 1 ELSE 0)) * b
        BY <2>2 DEF Value!ValueInv, Value!SalesPay
      <3>2. r + sell_steps + (IF s = 0 THEN 1 ELSE 0) = r + k
        BY <2>1
      <3> QED BY <3>1, <3>2, Zenon
    <2>4. CASE side # primary_side /\ sell_steps' = sell_steps
      <3>1. shares'[primary_side] = s /\ returned'[primary_side] = r
        BY <1>5, <2>1, <2>4
      <3>2. r + sell_steps' + (IF shares'[primary_side] = 0 THEN 1 ELSE 0) = r + k
        BY <2>1, <2>4, <3>1
      <3> QED BY <2>3, <3>1, <3>2, Zenon
    <2>5. CASE /\ side = primary_side /\ s > 0 /\ price * b >= 100 * c
               /\ sell_steps' = sell_steps + 1 \/ (sell_steps' = sell_steps /\ amount = s)
      <3> DEFINE k1 == sell_steps' + (IF shares'[primary_side] = 0 THEN 1 ELSE 0)
      <3>1. k \in Nat /\ k1 \in Nat /\ k1 >= k + 1
        <4>1. /\ s \in Nat \ {0} /\ sell_steps \in Nat /\ sell_steps' \in Nat
              /\ shares'[primary_side] = s - amount /\ amount \in 0 .. s
              /\ sell_steps' = sell_steps + 1 \/ (sell_steps' = sell_steps /\ amount = s)
          BY <1>5, <2>1, <2>5
        <4> HIDE DEF s
        <4>2. k = sell_steps /\ k1 = sell_steps' + (IF s - amount = 0 THEN 1 ELSE 0)
          BY <4>1
        <4> HIDE DEF k, k1
        <4> QED BY <4>1, <4>2, CentsSoFar
      <3>2. amount \in 0 .. s /\ price \in Nat
        BY <2>5
      <3> HIDE DEF k, k1
      <3>3. c * (b - (s - amount)) <= (r + (amount * price) \div 100 + (k + 1)) * b
        <4> HIDE DEF c, b, s, r
        <4> QED BY <2>1, <2>3, <2>5, <3>1, <3>2, SaleCovers
      <3>4. shares'[primary_side] = s - amount /\ returned'[primary_side] = r + gain
        BY <1>5, <2>5
      <3>5. (r + gain + (k + 1)) * b <= (r + gain + k1) * b
        <4> HIDE DEF c, b, s, r
        <4>1. r + gain + (k + 1) \in Nat /\ r + gain + k1 \in Nat
              /\ r + gain + (k + 1) <= r + gain + k1
          BY <1>4, <2>1, <3>1
        <4> DEFINE x == r + gain + (k + 1)
                   y == r + gain + k1
        <4> HIDE DEF x, y
        <4>2. x \in Nat /\ y \in Nat /\ x <= y => x * b <= y * b
          BY <2>1
        <4> QED BY <4>1, <4>2 DEF x, y
      <3>6. c * (b - (s - amount)) <= (r + gain + k1) * b
        <4> HIDE DEF c, b, s, r
        <4>1. /\ c * (b - (s - amount)) \in Int /\ (r + gain + (k + 1)) * b \in Int
              /\ (r + gain + k1) * b \in Int
          BY <1>4, <2>1, <3>1, <3>2
        <4>2. c * (b - (s - amount)) <= (r + gain + (k + 1)) * b
          BY <3>3 DEF gain
        <4> QED BY <3>5, <4>1, <4>2
      <3>7. r + gain + k1 = r + gain + sell_steps' + (IF shares'[primary_side] = 0 THEN 1 ELSE 0)
        BY <1>4, <1>6, <2>1, <3>1 DEF k1, Value!TypeOK
      <3> QED BY <3>4, <3>6, <3>7, Zenon
    <2> QED BY <2>2, <2>4, <2>5
  <1> QED BY <1>6, <1>8, <1>10, <1>11 DEF Value!ValueInv

\* The side an entry picks, the price it is bought at and what it buys.
LEMMA ValuePicks ==
  ASSUME NEW t \in Value!Ticks, Value!EntryDue(t)
  PROVE  /\ Value!EntrySide(t) \in Value!Sides /\ t.ask[Value!EntrySide(t)] \in 1 .. 78
         /\ Value!Spent = 0
  <1>1. Value!Spent = 0 /\ Value!EntrySource(t) # "none" /\ Value!Passes(t)
    BY DEF Value!EntryDue
  <1>2. CASE Value!EntrySource(t) = "verdict"
    <2>1. Value!Verdict(t) # {} /\ Value!Verdict(t) \subseteq Value!Sides
      BY <1>2 DEF Value!EntrySource, Value!Verdict
    <2>2. \E side \in Value!Sides : side \in Value!Verdict(t)
      BY <2>1
    <2>3. (CHOOSE side \in Value!Sides : side \in Value!Verdict(t)) \in Value!Sides
      BY <2>2
    <2>4. Value!EntrySide(t) = CHOOSE side \in Value!Sides : side \in Value!Verdict(t)
      BY <1>2 DEF Value!EntrySide
    <2>5. Value!EntrySide(t) \in Value!Sides
      BY <2>3, <2>4
    <2> QED BY <1>1, <2>5, ValuePrices DEF Value!Passes
  <1>3. CASE Value!EntrySource(t) = "fair"
    <2>1. Value!EntrySide(t) \in Value!Sides
      BY <1>3 DEF Value!EntrySide, Value!FairSide, Value!Sides
    <2> QED BY <1>1, <2>1, ValuePrices DEF Value!Passes
  <1>4. CASE Value!EntrySource(t) \notin {"verdict", "fair"}
    <2>1. Value!EntrySide(t) \in Value!Sides
      BY <1>4 DEF Value!EntrySide, Value!GapSide, Value!Sides
    <2> QED BY <1>1, <2>1, ValuePrices DEF Value!Passes
  <1> QED BY <1>2, <1>3, <1>4

LEMMA ValueEnters ==
  ASSUME Value!ValueInv, NEW t \in Value!Ticks, NEW portion \in {14, 22, 30}, Value!Enter(t, portion)
  PROVE  Value!ValueInv'
  <1> DEFINE side == Value!EntrySide(t)
             ask == t.ask[side]
             amount == Value!Most(100, Value!Least((ValueBudget * portion) \div 100, max_budget))
             lot == (amount * 100) \div ask
  <1>1. Value!TypeOK /\ Value!HeldWasPaid
    BY DEF Value!ValueInv
  <1>2. side \in Value!Sides /\ ask \in 1 .. 78 /\ Value!Spent = 0
    BY ValuePicks DEF Value!Enter
  <1>3. amount \in Nat /\ amount >= 100
    <2>1. (ValueBudget * portion) \div 100 \in Nat /\ max_budget \in Nat
      <3>1. (ValueBudget * portion) \div 100 \in Nat
        BY ValueConstants, PartOf
      <3> QED BY <1>1, <3>1, ValueConstants DEF Value!TypeOK
    <2> DEFINE n == (ValueBudget * portion) \div 100
    <2> HIDE DEF n
    <2>2. Value!Most(100, Value!Least(n, max_budget)) \in Nat
          /\ Value!Most(100, Value!Least(n, max_budget)) >= 100
      BY <2>1 DEF n, Value!Most, Value!Least
    <2> QED BY <2>2 DEF n
  <1>4. /\ \/ /\ shares' = [shares EXCEPT ![side] = @ + lot]
              /\ bought' = [bought EXCEPT ![side] = @ + lot]
              /\ cost' = [cost EXCEPT ![side] = @ + amount]
              /\ returned' = returned
           \/ UNCHANGED <<shares, bought, cost, returned>>
        /\ primary_side' = side /\ primary_entry_price' = ask
        /\ salvaging' = FALSE /\ Value!SeeSpot(t)
        /\ UNCHANGED <<now, sell_steps, max_budget, panicked, dumped>>
    BY DEF Value!Enter, Value!Buy, Value!Thesis, Value!ledger
  <1> HIDE DEF side, ask, amount
  <1>5. lot \in Nat /\ lot > 0
    <2>1. /\ lot \in Nat /\ lot * ask <= amount * 100 /\ amount * 100 < lot * ask + ask
      BY <1>2, <1>3, Division
    <2> HIDE DEF lot
    <2>2. lot = 0 => lot * ask = 0
      BY <1>2
    <2> QED BY <1>2, <1>3, <2>1, <2>2
  <1> HIDE DEF lot
  <1>6. \A s \in Value!Sides : cost[s] = 0 /\ bought[s] = 0 /\ shares[s] = 0
    BY <1>1, <1>2 DEF Value!Spent, Value!HeldWasPaid, Value!TypeOK, Value!Sides
  <1>7. Value!TypeOK'
    <2>1. /\ shares' \in [Value!Sides -> Nat] /\ bought' \in [Value!Sides -> Nat]
          /\ cost' \in [Value!Sides -> Nat] /\ returned' \in [Value!Sides -> Nat]
      BY <1>1, <1>2, <1>3, <1>4, <1>5 DEF Value!TypeOK
    <2>2. ptb_baseline' \in Value!Sides \cup {"none"} /\ ptb_crossed' \in BOOLEAN
      BY <1>1, <1>4, ValueSees
    <2>3. primary_side' \in Value!Sides /\ primary_entry_price' \in 0 .. 100
      <3>1. ask \in 0 .. 100
        BY <1>2
      <3> QED BY <1>2, <1>4, <3>1, Zenon
    <2>4. salvaging' \in BOOLEAN
      BY <1>4, Zenon
    <2>5. UNCHANGED <<now, sell_steps, max_budget, panicked, dumped>>
      BY <1>4
    <2> QED BY <1>1, <2>1, <2>2, <2>3, <2>4, <2>5 DEF Value!TypeOK
  <1>8. /\ \A s \in Value!Sides : s # side => cost'[s] = 0 /\ bought'[s] = 0 /\ shares'[s] = 0
        /\ \/ cost'[side] = amount /\ bought'[side] = lot /\ shares'[side] = lot
           \/ cost'[side] = 0 /\ bought'[side] = 0 /\ shares'[side] = 0
    BY <1>1, <1>2, <1>3, <1>4, <1>5, <1>6 DEF Value!TypeOK
  <1>9. Value!Spent' = cost'[side] /\ cost'[side] \in Nat
    BY <1>2, <1>7, <1>8 DEF Value!Spent, Value!Sides, Value!TypeOK
  <1>10. Value!HedgeCapped'
    <2>1. Value!Hedging' = Value!Other(side)
      BY <1>4 DEF Value!Hedging
    <2>2. cost'[Value!Other(side)] = 0
      BY <1>2, <1>8 DEF Value!Other, Value!Sides
    <2> QED BY <1>9, <2>1, <2>2 DEF Value!HedgeCapped
  <1>11. Value!PrimaryWasBought'
    BY <1>4, <1>5, <1>8, <1>9 DEF Value!PrimaryWasBought
  <1>12. Value!HeldWasPaid'
    BY <1>2, <1>3, <1>4, <1>5, <1>8 DEF Value!HeldWasPaid
  <1>13. Value!SalesPay'
    <2>1. /\ bought'[side] - shares'[side] = 0 /\ bought'[side] \in Nat /\ cost'[side] \in Nat
          /\ shares'[side] \in Nat /\ returned'[side] \in Nat /\ sell_steps' \in Nat
      BY <1>2, <1>5, <1>7, <1>8 DEF Value!TypeOK
    <2> DEFINE k == returned'[side] + sell_steps' + (IF shares'[side] = 0 THEN 1 ELSE 0)
    <2>2. k \in Nat
      BY <2>1
    <2> HIDE DEF k
    <2>3. cost'[side] * 0 = 0 /\ k * bought'[side] \in Nat
      BY <2>1, <2>2
    <2>4. cost'[side] * (bought'[side] - shares'[side]) <= k * bought'[side]
      BY <2>1, <2>3
    <2> QED BY <1>4, <2>4 DEF Value!SalesPay, k
  <1> QED BY <1>7, <1>10, <1>11, <1>12, <1>13 DEF Value!ValueInv

\* What the first rule that applies stands for.
LEMMA ValueRules ==
  ASSUME NEW t, NEW name \in {"hedge", "unwind", "profit", "ladder", "salvage"},
         Value!Rule(t) = name
  PROVE  /\ primary_side # "none" /\ Value!Spent # 0
         /\ name = "hedge" => Value!HedgeDue(t)
         /\ name = "unwind" => Value!UnwindDue(t)
         /\ name = "profit" => Value!ProfitDue(t)
         /\ name = "ladder" => Value!LadderDue(t)
         /\ name = "salvage" => Value!Salvaged(t) # {}
  BY DEF Value!Rule

\* A step of the hedge fits what is left of its cap.
LEMMA ValueHedgeFits ==
  ASSUME Value!ValueInv, primary_side \in Value!Sides, NEW t \in Value!Ticks, Value!HedgeDue(t)
  PROVE  /\ Value!HedgeAmount(t) \in Nat /\ Value!HedgeAmount(t) >= 100
         /\ 100 * (cost[Value!Hedging] + Value!HedgeAmount(t)) <= 35 * Value!Spent
  <1> DEFINE h == Value!Hedging
             held == shares[primary_side]
             ratio == Value!Least((shares[h] * 100) \div held, 100)
             missing == Value!Most(Value!HedgeTarget(t) - ratio, 0)
             desired == (held * missing * t.ask[h]) \div 10000
             step == (Value!Spent * 12) \div 100
             room == Value!Most((Value!Spent * 35) \div 100 - cost[h], 0)
  <1>1. Value!TypeOK
    BY DEF Value!ValueInv
  <1>2. h \in Value!Sides
    BY DEF Value!Hedging, Value!Other, Value!Sides
  <1>3. held \in Nat \ {0} /\ shares[h] \in Nat /\ cost[h] \in Nat /\ t.ask[h] \in 0 .. 100
    BY <1>1, <1>2, ValuePrices DEF Value!TypeOK, Value!HedgeDue
  <1>4. Value!Spent \in Nat
    BY <1>1 DEF Value!TypeOK, Value!Spent, Value!Sides
  <1>5. Value!HedgeAmount(t) = Value!Least(Value!Least(desired, step), room)
    BY DEF Value!HedgeAmount
  <1> HIDE DEF h
  <1>6. ratio \in Nat
    <2>1. (shares[h] * 100) \div held \in Nat
      BY <1>3, Division
    <2> DEFINE n == (shares[h] * 100) \div held
    <2>2. n \in Nat
      BY <2>1
    <2> HIDE DEF n
    <2>3. Value!Least(n, 100) \in Nat
      BY <2>2 DEF Value!Least
    <2> QED BY <2>3 DEF n
  <1>7. missing \in Nat
    <2>1. Value!HedgeTarget(t) \in Nat
      BY DEF Value!HedgeTarget
    <2> HIDE DEF ratio
    <2> QED BY <1>6, <2>1 DEF Value!Most
  <1>8. desired \in Nat
    <2> HIDE DEF missing, held
    <2>1. held * missing * t.ask[h] \in Nat
      <3>1. held * missing \in Nat
        BY <1>3, <1>7
      <3> DEFINE n == held * missing
      <3> HIDE DEF n
      <3>2. n \in Nat => n * t.ask[h] \in Nat
        BY <1>3
      <3> QED BY <3>1, <3>2 DEF n
    <2> QED BY <2>1, Division
  <1>9. step \in Nat /\ room \in Nat
        /\ (room > 0 => room = (Value!Spent * 35) \div 100 - cost[h])
        /\ 100 * ((Value!Spent * 35) \div 100) <= 35 * Value!Spent
    BY <1>3, <1>4 DEF Value!Most
  <1> HIDE DEF desired, step, room, held, missing, ratio
  <1>10. /\ Value!HedgeAmount(t) \in Nat /\ Value!HedgeAmount(t) <= room
    BY <1>5, <1>8, <1>9 DEF Value!Least
  <1>11. Value!HedgeAmount(t) >= 100
    BY DEF Value!HedgeDue
  <1>12. cost[h] + Value!HedgeAmount(t) <= (Value!Spent * 35) \div 100
    BY <1>3, <1>4, <1>9, <1>10, <1>11
  <1> QED BY <1>3, <1>4, <1>9, <1>10, <1>11, <1>12 DEF h

LEMMA ValueHedges ==
  ASSUME Value!ValueInv, NEW t \in Value!Ticks, Value!Hedge(t)
  PROVE  Value!ValueInv'
  <1> DEFINE h == Value!Hedging
             ask == t.ask[h]
             amount == Value!HedgeAmount(t)
             lot == (amount * 100) \div ask
  <1>1. Value!TypeOK /\ Value!HeldWasPaid /\ Value!PrimaryWasBought /\ Value!HedgeCapped
    BY DEF Value!ValueInv
  <1>2. /\ Value!Rule(t) = "hedge" /\ salvaging' \in BOOLEAN /\ Value!SeeSpot(t)
        /\ UNCHANGED <<now, primary_side, primary_entry_price, max_budget, panicked, sell_steps,
                       dumped>>
    BY DEF Value!Hedge, Value!Fires, Value!Kept, Value!thesis
  <1>3. /\ primary_side \in Value!Sides /\ Value!HedgeDue(t) /\ Value!Spent # 0
    BY <1>1, <1>2, ValueRules DEF Value!TypeOK
  <1>4. h \in Value!Sides /\ h # primary_side
        /\ \A s \in Value!Sides : s = h \/ s = primary_side
    BY <1>3 DEF Value!Hedging, Value!Other, Value!Sides
  <1>5. ask \in 1 .. 100
    BY <1>3, <1>4, ValuePrices DEF Value!HedgeDue
  <1>6. amount \in Nat /\ amount >= 100 /\ 100 * (cost[h] + amount) <= 35 * Value!Spent
    BY <1>3, ValueHedgeFits
  <1>7. /\ \/ /\ shares' = [shares EXCEPT ![h] = @ + lot]
              /\ bought' = [bought EXCEPT ![h] = @ + lot]
              /\ cost' = [cost EXCEPT ![h] = @ + amount]
              /\ returned' = returned
           \/ UNCHANGED <<shares, bought, cost, returned>>
    BY DEF Value!Hedge, Value!Buy, Value!ledger
  <1>8. lot \in Nat
    BY <1>5, <1>6, Division
  <1>9. Value!Hedging' = h
    BY <1>2 DEF Value!Hedging
  <1>10. Value!Spent = cost[h] + cost[primary_side] /\ Value!Spent' = cost'[h] + cost'[primary_side]
    BY <1>1, <1>3, <1>4, <1>7, <1>6 DEF Value!Spent, Value!Sides, Value!TypeOK
  <1> HIDE DEF h, ask, amount, lot
  <1>11. Value!TypeOK'
    <2>1. /\ shares' \in [Value!Sides -> Nat] /\ bought' \in [Value!Sides -> Nat]
          /\ cost' \in [Value!Sides -> Nat] /\ returned' \in [Value!Sides -> Nat]
      BY <1>1, <1>4, <1>6, <1>7, <1>8 DEF Value!TypeOK
    <2>2. ptb_baseline' \in Value!Sides \cup {"none"} /\ ptb_crossed' \in BOOLEAN
      BY <1>1, <1>2, ValueSees
    <2> QED BY <1>1, <1>2, <2>1, <2>2 DEF Value!TypeOK
  <1>12. /\ shares[primary_side] \in Nat /\ bought[primary_side] \in Nat
         /\ cost[primary_side] \in Nat /\ cost[h] \in Nat /\ shares[h] \in Nat /\ bought[h] \in Nat
         /\ shares[h] <= bought[h] /\ shares[primary_side] <= bought[primary_side]
         /\ cost[h] = 0 => bought[h] = 0
         /\ cost[primary_side] = 0 => bought[primary_side] = 0
    BY <1>1, <1>3, <1>4 DEF Value!TypeOK, Value!HeldWasPaid
  <1>13. /\ shares'[primary_side] = shares[primary_side]
         /\ bought'[primary_side] = bought[primary_side]
         /\ cost'[primary_side] = cost[primary_side]
         /\ returned'[primary_side] = returned[primary_side]
         /\ \/ /\ cost'[h] = cost[h] + amount /\ shares'[h] = shares[h] + lot
               /\ bought'[h] = bought[h] + lot
            \/ cost'[h] = cost[h] /\ shares'[h] = shares[h] /\ bought'[h] = bought[h]
    BY <1>1, <1>3, <1>4, <1>7 DEF Value!TypeOK
  <1>14. Value!HedgeCapped'
    <2>1. 100 * cost[h] <= 35 * Value!Spent
      BY <1>1, <1>3 DEF Value!HedgeCapped, h, Value!Sides
    <2>2. 100 * cost'[h] <= 35 * Value!Spent'
      BY <1>6, <1>10, <1>12, <1>13, <2>1
    <2> QED BY <1>9, <2>2 DEF Value!HedgeCapped
  <1>15. Value!Spent \in Nat /\ Value!Spent > 0
    BY <1>3, <1>10, <1>12
  <1>16. Value!PrimaryWasBought'
    BY <1>1, <1>2, <1>13, <1>15 DEF Value!PrimaryWasBought
  <1>17. Value!HeldWasPaid'
    <2>1. /\ shares'[h] <= bought'[h] /\ (cost'[h] = 0 => bought'[h] = 0)
          /\ shares'[primary_side] <= bought'[primary_side]
          /\ (cost'[primary_side] = 0 => bought'[primary_side] = 0)
      BY <1>6, <1>8, <1>12, <1>13
    <2> QED BY <1>2, <1>3, <1>4, <2>1 DEF Value!HeldWasPaid
  <1>18. Value!SalesPay'
    BY <1>2, <1>13, <1>15 DEF Value!ValueInv, Value!SalesPay
  <1> QED BY <1>11, <1>14, <1>16, <1>17, <1>18 DEF Value!ValueInv

\* A price above the average paid clears the cost.
LEMMA ValueClears ==
  ASSUME Value!ValueInv, NEW side \in Value!Sides, NEW price \in 0 .. 100, NEW above \in Nat,
         Value!Clears(side, price, above)
  PROVE  price * bought[side] >= 100 * cost[side]
  <1> DEFINE b == bought[side]
             c == cost[side]
  <1>1. b \in Nat /\ c \in Nat
    BY DEF Value!ValueInv, Value!TypeOK
  <1>2. 10 * price * b >= 1000 * c + above * b
    BY DEF Value!Clears
  <1> HIDE DEF b, c
  <1>3. above * b \in Nat /\ 10 * price * b = 10 * (price * b) /\ price * b \in Nat
    BY <1>1
  <1>4. price * b >= 100 * c
    BY <1>1, <1>2, <1>3
  <1> QED BY <1>4 DEF b, c

\* The ladder sells a part of what is held.
LEMMA ValueLadderPart ==
  ASSUME Value!ValueInv, primary_side \in Value!Sides, NEW t \in Value!Ticks, Value!LadderDue(t)
  PROVE  Value!LadderAmount(t) \in 1 .. shares[primary_side]
  <1> DEFINE held == shares[primary_side]
             surplus == held - Value!Pair
             portion == (held * Value!LadderPart(t)) \div 100
             uncovered == IF surplus > 0 THEN Value!Least(portion, surplus)
                          ELSE IF Value!Bid(t) < 80 /\ Value!Phase # "final" THEN 0 ELSE portion
             room == Value!Most(held - Value!RunnerFloor(t), 0)
             amount == IF Value!RunnerFloor(t) > 0 THEN Value!Least(uncovered, room) ELSE uncovered
  <1>1. Value!TypeOK /\ held \in Nat /\ bought[primary_side] \in Nat
    BY DEF Value!ValueInv, Value!TypeOK
  <1>2. Value!Pair \in Nat
    BY <1>1 DEF Value!TypeOK, Value!Pair, Value!Least, Value!Sides
  <1>3. portion \in Nat /\ portion <= held
    <2>1. Value!LadderPart(t) \in 0 .. 100
      BY DEF Value!LadderPart
    <2> QED BY <1>1, <2>1, PartOf
  <1>4. Value!RunnerFloor(t) \in Nat
    <2>1. (bought[primary_side] * 45) \div 100 \in Nat
      BY <1>1, PartOf
    <2> QED BY <2>1 DEF Value!RunnerFloor
  <1>5. Value!LadderAmount(t) = IF amount * Value!Bid(t) < 7500 THEN 0 ELSE amount
    BY DEF Value!LadderAmount
  <1> HIDE DEF held, portion
  <1>6. uncovered \in Nat /\ uncovered <= held
    BY <1>1, <1>2, <1>3 DEF Value!Least
  <1>7. room \in Nat
    BY <1>1, <1>4 DEF Value!Most
  <1> HIDE DEF uncovered, room
  <1>8. amount \in Nat /\ amount <= held
    BY <1>1, <1>6, <1>7 DEF Value!Least
  <1>9. Value!LadderAmount(t) > 0
    BY DEF Value!LadderDue
  <1> HIDE DEF amount
  <1> QED BY <1>1, <1>5, <1>8, <1>9 DEF held

\* The four rules that sell.
LEMMA ValueSales ==
  ASSUME Value!ValueInv, NEW t \in Value!Ticks,
         Value!Unwind(t) \/ Value!TakeProfit(t) \/ Value!Ladder(t) \/ Value!Salvage(t)
  PROVE  Value!ValueInv'
  <1>1. Value!TypeOK
    BY DEF Value!ValueInv
  <1>2. /\ salvaging' \in BOOLEAN /\ Value!SeeSpot(t) /\ UNCHANGED Value!Kept
        /\ Value!Rule(t) \in {"unwind", "profit", "ladder", "salvage"}
    BY DEF Value!Unwind, Value!TakeProfit, Value!Ladder, Value!Salvage, Value!Fires
  <1>3. ptb_baseline' \in Value!Sides \cup {"none"} /\ ptb_crossed' \in BOOLEAN
    BY <1>1, <1>2, ValueSees
  <1>4. primary_side \in Value!Sides /\ Value!Spent > 0
    <2>1. Value!Spent \in Nat
      BY <1>1 DEF Value!TypeOK, Value!Spent, Value!Sides
    <2>2. primary_side # "none" /\ Value!Spent # 0
      BY <1>2, ValueRules
    <2> QED BY <1>1, <2>1, <2>2 DEF Value!TypeOK
  <1>5. Value!Hedging \in Value!Sides /\ Value!Hedging # primary_side
    BY <1>4 DEF Value!Hedging, Value!Other, Value!Sides
  <1>6. \A s \in Value!Sides : shares[s] \in Nat /\ t.bid[s] \in 0 .. 100
    BY <1>1, ValuePrices DEF Value!TypeOK
  <1>7. sell_steps \in 0 .. 3 /\ dumped \in BOOLEAN
    BY <1>1 DEF Value!TypeOK
  <1>8. CASE Value!Unwind(t)
    <2>1. /\ Value!Sell(Value!Hedging, shares[Value!Hedging], t.bid[Value!Hedging])
          /\ sell_steps' = sell_steps /\ dumped' = dumped
      BY <1>8 DEF Value!Unwind
    <2>2. shares[Value!Hedging] \in 0 .. shares[Value!Hedging]
      BY <1>5, <1>6
    <2> QED BY <1>2, <1>3, <1>4, <1>5, <1>6, <1>7, <2>1, <2>2, ValueSells
  <1>9. CASE Value!TakeProfit(t)
    <2>1. /\ Value!Sell(primary_side, shares[primary_side], Value!Bid(t))
          /\ sell_steps' = sell_steps /\ dumped' = dumped
      BY <1>9 DEF Value!TakeProfit
    <2>2. Value!Rule(t) = "profit"
      BY <1>9 DEF Value!TakeProfit, Value!Fires
    <2>3. Value!ProfitDue(t)
      BY <2>2, ValueRules
    <2>4. shares[primary_side] > 0 /\ Value!Clears(primary_side, Value!Bid(t), 120)
          /\ Value!Bid(t) \in 0 .. 100 /\ shares[primary_side] \in 0 .. shares[primary_side]
      BY <1>4, <1>6, <2>3 DEF Value!ProfitDue, Value!Bid
    <2>5. Value!Bid(t) * bought[primary_side] >= 100 * cost[primary_side]
      BY <1>4, <2>4, ValueClears
    <2> QED BY <1>2, <1>3, <1>4, <1>7, <2>1, <2>4, <2>5, ValueSells
  <1>10. CASE Value!Ladder(t)
    <2>1. /\ Value!Sell(primary_side, Value!LadderAmount(t), Value!Bid(t))
          /\ sell_steps' = sell_steps + 1 /\ dumped' = dumped
      BY <1>10 DEF Value!Ladder
    <2>2. Value!Rule(t) = "ladder"
      BY <1>10 DEF Value!Ladder, Value!Fires
    <2>3. Value!LadderDue(t)
      BY <2>2, ValueRules
    <2>4. /\ shares[primary_side] > 0 /\ Value!Bid(t) \in 0 .. 100 /\ sell_steps < 3
          /\ Value!Clears(primary_side, Value!Bid(t), Value!Target)
      BY <1>4, <1>6, <2>3 DEF Value!LadderDue, Value!Bid
    <2>5. Value!Bid(t) * bought[primary_side] >= 100 * cost[primary_side]
      <3>1. Value!Target \in Nat
        BY DEF Value!Target
      <3> QED BY <1>4, <2>4, <3>1, ValueClears
    <2>6. Value!LadderAmount(t) \in 0 .. shares[primary_side]
      BY <1>4, <1>6, <2>3, ValueLadderPart
    <2>7. sell_steps' \in 0 .. 3
      BY <1>7, <2>1, <2>4
    <2> QED BY <1>2, <1>3, <1>4, <1>7, <2>1, <2>4, <2>5, <2>6, <2>7, ValueSells
  <1>11. CASE Value!Salvage(t)
    <2> DEFINE side == IF "UP" \in Value!Salvaged(t) THEN "UP" ELSE "DOWN"
    <2>1. /\ Value!Sell(side, Value!SurplusOf(side), t.bid[side])
          /\ sell_steps' = sell_steps /\ dumped' = TRUE
      BY <1>11 DEF Value!Salvage
    <2>2. Value!Rule(t) = "salvage"
      BY <1>11 DEF Value!Salvage, Value!Fires
    <2>3. Value!Salvaged(t) # {}
      BY <2>2, ValueRules
    <2>4. side \in Value!Salvaged(t) /\ side \in Value!Sides
      BY <2>3 DEF Value!Salvaged, Value!Sides
    <2>5. Value!SurplusOf(side) > 0
      BY <2>4 DEF Value!Salvaged
    <2>6. Value!Pair \in Nat
      BY <1>6 DEF Value!Pair, Value!Least, Value!Sides
    <2> HIDE DEF side
    <2>7. Value!SurplusOf(side) \in 0 .. shares[side]
      BY <1>6, <2>4, <2>5, <2>6 DEF Value!SurplusOf
    <2>8. dumped' \in BOOLEAN /\ dumped'
      BY <2>1, Zenon
    <2> QED BY <1>2, <1>3, <1>4, <1>6, <1>7, <2>1, <2>4, <2>7, <2>8, ValueSells
  <1> QED BY <1>8, <1>9, <1>10, <1>11

LEMMA ValueStep == Value!ValueInv /\ Value!Next => Value!ValueInv'
  <1> SUFFICES ASSUME Value!ValueInv, Value!Next PROVE Value!ValueInv'
    OBVIOUS
  <1>1. Value!TypeOK
    BY DEF Value!ValueInv
  <1>2. CASE Value!Pass
    <2>1. /\ now' \in ValueMoments
          /\ UNCHANGED <<Value!ledger, Value!thesis, sell_steps, max_budget, dumped, panicked,
                         ptb_baseline, ptb_crossed>>
          /\ salvaging' = FALSE
      BY <1>2 DEF Value!Pass
    <2>2. salvaging' \in BOOLEAN
      BY <2>1, Zenon
    <2> QED BY <1>1, <2>1, <2>2, ValueKeeps DEF Value!TypeOK
  <1>3. ASSUME NEW t \in Value!Ticks, Value!EntryPanics(t) PROVE Value!ValueInv'
    <2>1. /\ UNCHANGED <<now, Value!ledger, Value!thesis, sell_steps, max_budget, dumped, salvaging,
                         ptb_baseline, ptb_crossed>>
          /\ panicked' = TRUE
      BY <1>3 DEF Value!EntryPanics, Value!history
    <2>2. panicked' \in BOOLEAN
      BY <2>1, Zenon
    <2> QED BY <1>1, <2>1, <2>2, ValueKeeps DEF Value!TypeOK
  <1>4. ASSUME NEW t \in Value!Ticks, Value!Watch(t) \/ Value!WatchQuiet(t) PROVE Value!ValueInv'
    <2>1. /\ UNCHANGED <<Value!Kept, Value!ledger, sell_steps, dumped>> /\ Value!SeeSpot(t)
          /\ salvaging' \in BOOLEAN
      BY <1>4 DEF Value!Watch, Value!WatchQuiet, Value!Fires
    <2>2. UNCHANGED <<now, Value!thesis, max_budget, panicked>>
      BY <2>1 DEF Value!Kept
    <2> QED BY <1>1, <2>1, <2>2, ValueSees, ValueKeeps DEF Value!TypeOK
  <1>5. ASSUME NEW t \in Value!Ticks, Value!Tick(t) PROVE Value!ValueInv'
    BY <1>3, <1>4, <1>5, ValueEnters, ValueHedges, ValueSales DEF Value!Tick
  <1> QED BY <1>2, <1>5 DEF Value!Next

\* The cents of rounding are four at most.
LEMMA ValuePaid == Value!ValueInv => Value!PrimaryPays
  <1> SUFFICES ASSUME Value!ValueInv, Value!Spent > 0, ~dumped
               PROVE  cost[primary_side] * (bought[primary_side] - shares[primary_side])
                        <= (returned[primary_side] + 4) * bought[primary_side]
    BY DEF Value!PrimaryPays
  <1> DEFINE c == cost[primary_side]
             b == bought[primary_side]
             s == shares[primary_side]
             r == returned[primary_side]
             k == r + sell_steps + (IF s = 0 THEN 1 ELSE 0)
  <1>1. c \in Nat /\ b \in Nat /\ s \in Nat /\ r \in Nat /\ sell_steps \in 0 .. 3
    BY DEF Value!ValueInv, Value!TypeOK, Value!HeldWasPaid
  <1>2. c * (b - s) <= k * b
    BY DEF Value!ValueInv, Value!SalesPay
  <1> HIDE DEF c, b, s, r
  <1>3. k \in Nat /\ k <= r + 4
    BY <1>1
  <1> HIDE DEF k
  <1>4. k * b <= (r + 4) * b
    BY <1>1, <1>3
  <1>5. c * (b - s) \in Int /\ k * b \in Int /\ (r + 4) * b \in Int
    BY <1>1, <1>3
  <1>6. c * (b - s) <= (r + 4) * b
    BY <1>2, <1>4, <1>5
  <1> QED BY <1>6 DEF c, b, s, r

\* The surplus of a side is what it has more than the pair.
LEMMA ValueKeepsPair == Value!ValueInv /\ Value!Next => Value!SalvageKeepsPair
  <1> SUFFICES ASSUME Value!ValueInv, Value!Next, salvaging' PROVE Value!Pair' = Value!Pair
    BY DEF Value!SalvageKeepsPair
  <1>1. ~Value!Pass
    BY DEF Value!Pass
  <1>2. PICK t \in Value!Ticks : Value!Tick(t)
    BY <1>1 DEF Value!Next
  <1>3. Value!EntryPanics(t) \/ Value!Salvage(t)
    BY <1>2 DEF Value!Tick, Value!Enter, Value!Hedge, Value!Unwind, Value!TakeProfit,
                Value!Ladder, Value!Watch, Value!WatchQuiet, Value!Fires
  <1>4. CASE Value!EntryPanics(t)
    BY <1>4 DEF Value!EntryPanics, Value!ledger, Value!Pair
  <1>5. CASE Value!Salvage(t)
    <2> DEFINE side == IF "UP" \in Value!Salvaged(t) THEN "UP" ELSE "DOWN"
    <2>1. shares' = [shares EXCEPT ![side] = @ - Value!SurplusOf(side)]
      BY <1>5 DEF Value!Salvage, Value!Sell
    <2>2. Value!Salvaged(t) # {}
      BY <1>5, ValueRules DEF Value!Salvage, Value!Fires
    <2>3. side \in Value!Sides /\ Value!SurplusOf(side) > 0
      BY <2>2 DEF Value!Salvaged, Value!Sides
    <2>4. shares["UP"] \in Nat /\ shares["DOWN"] \in Nat /\ shares \in [Value!Sides -> Nat]
      BY DEF Value!ValueInv, Value!TypeOK, Value!Sides
    <2> HIDE DEF side
    <2>5. Value!Pair' = Value!Least(shares'["UP"], shares'["DOWN"])
      BY DEF Value!Pair, Value!Least
    <2>6. CASE side = "UP"
      <3>1. /\ shares'["UP"] = shares["UP"] - (shares["UP"] - Value!Pair)
            /\ shares'["DOWN"] = shares["DOWN"]
        BY <2>1, <2>3, <2>4, <2>6 DEF Value!SurplusOf
      <3> QED BY <2>4, <2>5, <3>1 DEF Value!Pair, Value!Least
    <2>7. CASE side = "DOWN"
      <3>1. /\ shares'["DOWN"] = shares["DOWN"] - (shares["DOWN"] - Value!Pair)
            /\ shares'["UP"] = shares["UP"]
        BY <2>1, <2>3, <2>4, <2>7 DEF Value!SurplusOf
      <3> QED BY <2>4, <2>5, <3>1 DEF Value!Pair, Value!Least
    <2> QED BY <2>3, <2>6, <2>7 DEF Value!Sides
  <1> QED BY <1>3, <1>4, <1>5

-----------------------------------------------------------------------------
(* Strategy E                                                              *)

LEMMA RouterConstants ==
  /\ RouterMoments \subseteq 0 .. Duration /\ 0 \in RouterMoments
  /\ Router!Budget \in Nat /\ Router!Budget >= 100
  /\ RouterBooks \subseteq [bid : [Router!Sides -> 0 .. 100], ask : [Router!Sides -> 0 .. 100]]
  BY InstancesSound DEF Router!RouterAssumption, Router!Budget, Router!Clamp, Router!Most,
                        Router!Least, Router!Sides

LEMMA RouterOther ==
  ASSUME NEW side \in Router!Sides
  PROVE  Router!Other(side) \in Router!Sides /\ Router!Other(side) # side
  <1>1. \E s \in Router!Sides : s # side
    BY DEF Router!Sides
  <1>2. (CHOOSE s \in Router!Sides : s # side) \in Router!Sides
        /\ (CHOOSE s \in Router!Sides : s # side) # side
    BY <1>1
  <1> QED BY <1>2 DEF Router!Other

LEMMA RouterTicks ==
  ASSUME NEW t \in Router!Ticks
  PROVE  /\ t.fresh \in Router!Sides \cup {"none"} /\ t.lead \in Router!Sides
         /\ \A side \in Router!Sides : t.bid[side] \in 0 .. 100 /\ t.ask[side] \in 0 .. 100
  <1>1. PICK book \in RouterBooks : /\ t.bid = book.bid /\ t.ask = book.ask
                                    /\ t.lead = Router!Lead(book)
                                    /\ \E gap, against : t.fresh = Router!FreshConviction(book, gap, against)
    BY DEF Router!Ticks
  <1>2. t.fresh \in Router!Sides \cup {"none"} /\ t.lead \in Router!Sides
    BY <1>1 DEF Router!FreshConviction, Router!Lead, Router!Sides
  <1> QED BY <1>1, <1>2, RouterConstants

\* The cross of the spot is remembered on every tick.
LEMMA RouterSees ==
  ASSUME NEW t \in Router!Ticks, Router!SeeSpot(t), Router!TypeOK
  PROVE  ptb_baseline' \in {"none", "above", "below"} /\ ptb_crossed' \in BOOLEAN
  <1>1. Router!Relation(t) \in {"none", "above", "below"}
    BY DEF Router!Relation
  <1>2. Router!Crossed(t) \in BOOLEAN
    BY DEF Router!Crossed, Router!TypeOK
  <1> QED BY <1>1, <1>2 DEF Router!SeeSpot, Router!TypeOK

\* The thesis of a tick is the one that is held, if one is.
LEMMA RouterThesis ==
  ASSUME Router!TypeOK, NEW t \in Router!Ticks
  PROVE  /\ Router!Held \in Router!Sides \cup {"none"}
         /\ Router!Conviction(t) \in Router!Sides \cup {"none"}
         /\ (conviction_side # "none" /\ shares[conviction_side] > 0) =>
              Router!Held = conviction_side /\ Router!Conviction(t) = conviction_side
  <1>1. Router!Held \in Router!Sides \cup {"none"}
    BY DEF Router!Held, Router!Sides, Router!TypeOK
  <1>2. Router!Conviction(t) \in Router!Sides \cup {"none"}
    BY <1>1, RouterTicks DEF Router!Conviction, Router!TypeOK
  <1>3. ASSUME conviction_side # "none", shares[conviction_side] > 0
        PROVE  Router!Held = conviction_side /\ Router!Conviction(t) = conviction_side
    <2>1. Router!Held = conviction_side
      BY <1>3 DEF Router!Held
    <2> QED BY <1>3, <2>1 DEF Router!Conviction
  <1> QED BY <1>1, <1>2, <1>3

LEMMA RouterStart == Router!Init => Router!RouterInv
  <1> SUFFICES ASSUME Router!Init PROVE Router!RouterInv
    OBVIOUS
  <1>1. /\ shares \in [Router!Sides -> Nat] /\ bought = shares /\ cost = shares
        /\ shares["UP"] = 0 /\ shares["DOWN"] = 0
    BY DEF Router!Init, Router!Sides
  <1>2. /\ now = 0 /\ conviction_side = "none" /\ last_spot_itm = "none"
        /\ buy_tranches_done = 0 /\ sell_steps_done = 0 /\ last_buy = Router!Never
        /\ last_trim = Router!Never /\ ptb_trim_count = 0 /\ emergency_sold \in BOOLEAN
        /\ ptb_baseline = "none" /\ ptb_crossed \in BOOLEAN /\ last_grid_target = 0
        /\ protected = {}
    BY DEF Router!Init
  <1>3. Router!TypeOK
    BY <1>1, <1>2, RouterConstants DEF Router!TypeOK
  <1>4. Router!Spent = 0
    BY <1>1 DEF Router!Spent
  <1> QED BY <1>1, <1>3, <1>4, RouterConstants
          DEF Router!RouterInv, Router!BudgetHeld, Router!HeldWasBought, Router!Sides

\* A purchase that fits the budget.
LEMMA RouterBuys ==
  ASSUME Router!RouterInv, NEW side \in Router!Sides, NEW amount \in Nat,
         Router!Spent + amount <= Router!Budget, NEW t \in Router!Ticks,
         Router!Buy(side, amount, t)
  PROVE  /\ shares' \in [Router!Sides -> Nat] /\ bought' \in [Router!Sides -> Nat]
         /\ cost' \in [Router!Sides -> Nat]
         /\ \A s \in Router!Sides : shares'[s] >= shares[s]
         /\ \A s \in Router!Sides : s # side => bought'[s] = bought[s]
         /\ Router!BudgetHeld' /\ Router!HeldWasBought'
  <1> DEFINE lot == (amount * 100) \div t.ask[side]
  <1>1. Router!TypeOK /\ Router!HeldWasBought
    BY DEF Router!RouterInv
  <1>2. \/ /\ t.ask[side] > 0
           /\ shares' = [shares EXCEPT ![side] = @ + lot]
           /\ bought' = [bought EXCEPT ![side] = @ + lot]
           /\ cost' = [cost EXCEPT ![side] = @ + amount]
        \/ UNCHANGED <<shares, bought, cost>>
    BY DEF Router!Buy, Router!ledger
  <1>3. Router!Budget' = Router!Budget
    BY DEF Router!Budget
  <1>4. CASE UNCHANGED <<shares, bought, cost>>
    <2>1. Router!Spent' = Router!Spent
      BY <1>4 DEF Router!Spent
    <2> QED BY <1>1, <1>3, <1>4, <2>1
            DEF Router!RouterInv, Router!TypeOK, Router!BudgetHeld, Router!HeldWasBought
  <1>5. CASE /\ t.ask[side] > 0
             /\ shares' = [shares EXCEPT ![side] = @ + lot]
             /\ bought' = [bought EXCEPT ![side] = @ + lot]
             /\ cost' = [cost EXCEPT ![side] = @ + amount]
    <2>0. t.ask[side] \in Nat \ {0}
      <3>1. t.ask[side] \in 0 .. 100
        BY RouterTicks
      <3> QED BY <1>5, <3>1
    <2>1. lot \in Nat
      BY <2>0, LotOf
    <2> HIDE DEF lot
    <2>2. /\ shares' \in [Router!Sides -> Nat] /\ bought' \in [Router!Sides -> Nat]
          /\ cost' \in [Router!Sides -> Nat]
          /\ shares'[side] = shares[side] + lot /\ bought'[side] = bought[side] + lot
          /\ cost'[side] = cost[side] + amount
          /\ \A s \in Router!Sides : s # side => /\ shares'[s] = shares[s] /\ bought'[s] = bought[s]
                                                 /\ cost'[s] = cost[s]
      BY <1>1, <1>5, <2>1 DEF Router!TypeOK
    <2>3. Router!Spent' = Router!Spent + amount
      BY <1>1, <2>2 DEF Router!Spent, Router!Sides, Router!TypeOK
    <2>4. \A s \in Router!Sides : shares'[s] <= bought'[s] /\ shares'[s] >= shares[s]
      BY <1>1, <2>1, <2>2 DEF Router!TypeOK, Router!HeldWasBought
    <2> QED BY <1>3, <2>2, <2>3, <2>4 DEF Router!BudgetHeld, Router!HeldWasBought
  <1> QED BY <1>2, <1>4, <1>5

\* A sale takes no more than is held.
LEMMA RouterSells ==
  ASSUME Router!RouterInv, NEW amounts, \A side \in Router!Sides : amounts[side] \in Nat,
         Router!Sell(amounts)
  PROVE  /\ shares' \in [Router!Sides -> Nat] /\ bought' \in [Router!Sides -> Nat]
         /\ cost' \in [Router!Sides -> Nat]
         /\ \A side \in Router!Sides : amounts[side] = 0 => shares'[side] = shares[side]
         /\ bought' = bought
         /\ Router!BudgetHeld' /\ Router!HeldWasBought'
  <1>1. Router!TypeOK /\ Router!HeldWasBought /\ Router!BudgetHeld
    BY DEF Router!RouterInv
  <1>2. /\ shares' = [side \in Router!Sides |->
                        shares[side] - Router!Least(amounts[side], shares[side])]
        /\ UNCHANGED <<bought, cost>>
    BY DEF Router!Sell
  <1>3. \A side \in Router!Sides :
          /\ shares'[side] \in Nat /\ shares'[side] <= bought[side]
          /\ amounts[side] = 0 => shares'[side] = shares[side]
    <2> TAKE side \in Router!Sides
    <2>1. /\ shares[side] \in Nat /\ bought[side] \in Nat /\ shares[side] <= bought[side]
          /\ amounts[side] \in Nat
          /\ shares'[side] = shares[side] - Router!Least(amounts[side], shares[side])
      BY <1>1, <1>2 DEF Router!TypeOK, Router!HeldWasBought
    <2> QED BY <2>1 DEF Router!Least
  <1>4. shares' \in [Router!Sides -> Nat]
    <2>1. shares' = [side \in Router!Sides |-> shares'[side]]
      BY <1>2
    <2> QED BY <1>3, <2>1
  <1>5. Router!Spent' = Router!Spent /\ Router!Budget' = Router!Budget
    BY <1>2 DEF Router!Spent, Router!Budget
  <1> QED BY <1>1, <1>2, <1>3, <1>4, <1>5
          DEF Router!TypeOK, Router!BudgetHeld, Router!HeldWasBought

\* A sale of one side.
LEMMA RouterSellsSide ==
  ASSUME Router!RouterInv, NEW side, NEW amount \in Nat, Router!SellSide(side, amount)
  PROVE  /\ shares' \in [Router!Sides -> Nat] /\ bought' \in [Router!Sides -> Nat]
         /\ cost' \in [Router!Sides -> Nat]
         /\ \A s \in Router!Sides : s # side => shares'[s] = shares[s]
         /\ bought' = bought
         /\ Router!BudgetHeld' /\ Router!HeldWasBought'
  <1> DEFINE amounts == [s \in Router!Sides |-> IF s = side THEN amount ELSE 0]
  <1>1. Router!Sell(amounts)
    BY DEF Router!SellSide
  <1>2. \A s \in Router!Sides : amounts[s] \in Nat /\ (s # side => amounts[s] = 0)
    OBVIOUS
  <1> HIDE DEF amounts
  <1> QED BY <1>1, <1>2, RouterSells

\* The last sales, and the ticks that do not touch the ledger.
LEMMA RouterExits ==
  ASSUME Router!RouterInv, NEW t \in Router!Ticks, protected' \subseteq Router!Sides,
         Router!EmergencyExit(t)
  PROVE  Router!RouterInv'
  <1> DEFINE amounts == [side \in Router!Sides |->
                           IF side \in Router!Dumped(t) THEN shares[side] ELSE 0]
  <1>1. Router!TypeOK
    BY DEF Router!RouterInv
  <1>2. /\ Router!Sell(amounts) /\ Router!SeeSpot(t)
        /\ emergency_sold' = (emergency_sold \/ Router!Dumped(t) # {})
        /\ UNCHANGED <<now, buy_tranches_done, last_buy, sell_steps_done, last_grid_target,
                       ptb_trim_count, last_trim, conviction_side, last_spot_itm>>
    BY DEF Router!EmergencyExit, Router!buying, Router!selling, Router!trims
  <1>3. \A side \in Router!Sides : amounts[side] \in Nat
    BY <1>1 DEF Router!TypeOK
  <1>4. emergency_sold' \in BOOLEAN
    BY <1>1, <1>2 DEF Router!TypeOK
  <1> HIDE DEF amounts
  <1>5. /\ shares' \in [Router!Sides -> Nat] /\ bought' \in [Router!Sides -> Nat]
        /\ cost' \in [Router!Sides -> Nat] /\ Router!BudgetHeld' /\ Router!HeldWasBought'
    BY <1>2, <1>3, RouterSells
  <1>6. ptb_baseline' \in {"none", "above", "below"} /\ ptb_crossed' \in BOOLEAN
    BY <1>1, <1>2, RouterSees
  <1> QED BY <1>1, <1>2, <1>4, <1>5, <1>6 DEF Router!RouterInv, Router!TypeOK

LEMMA RouterPasses ==
  ASSUME Router!RouterInv, Router!Pass PROVE Router!RouterInv'
  <1>1. /\ now' \in RouterMoments /\ protected' = {}
        /\ UNCHANGED <<shares, bought, cost, ptb_baseline, ptb_crossed, buy_tranches_done, last_buy,
                       sell_steps_done, last_grid_target, ptb_trim_count, last_trim,
                       conviction_side, last_spot_itm, emergency_sold>>
    BY DEF Router!Pass, Router!ledger, Router!crosses, Router!buying, Router!selling, Router!trims
  <1>2. Router!Spent' = Router!Spent /\ Router!Budget' = Router!Budget
    BY <1>1 DEF Router!Spent, Router!Budget
  <1>3. Router!TypeOK'
    BY <1>1 DEF Router!RouterInv, Router!TypeOK
  <1> QED BY <1>1, <1>2, <1>3 DEF Router!RouterInv, Router!BudgetHeld, Router!HeldWasBought

LEMMA RouterWatches ==
  ASSUME Router!RouterInv, NEW t \in Router!Ticks, protected' \subseteq Router!Sides,
         Router!Watch(t)
  PROVE  Router!RouterInv'
  <1>1. Router!TypeOK
    BY DEF Router!RouterInv
  <1>2. /\ conviction_side' = Router!Conviction(t) /\ Router!SeeSpot(t)
        /\ last_spot_itm' \in {last_spot_itm, "yes", "no"}
        /\ UNCHANGED <<now, shares, bought, cost, buy_tranches_done, last_buy, sell_steps_done,
                       last_grid_target, ptb_trim_count, last_trim, emergency_sold>>
    BY DEF Router!Watch, Router!ledger, Router!buying, Router!selling, Router!trims
  <1>3. Router!Spent' = Router!Spent /\ Router!Budget' = Router!Budget
    BY <1>2 DEF Router!Spent, Router!Budget
  <1>4. ptb_baseline' \in {"none", "above", "below"} /\ ptb_crossed' \in BOOLEAN
    BY <1>1, <1>2, RouterSees
  <1>5. conviction_side' \in Router!Sides \cup {"none"}
    BY <1>1, <1>2, RouterThesis
  <1>6. Router!TypeOK'
    BY <1>1, <1>2, <1>4, <1>5 DEF Router!TypeOK
  <1> QED BY <1>2, <1>3, <1>6 DEF Router!RouterInv, Router!BudgetHeld, Router!HeldWasBought

\* A tranche: of the side the entry picks, out of what is left of the budget.
LEMMA RouterTranche ==
  ASSUME Router!RouterInv, NEW t \in Router!Ticks, Router!Tranche(t)
  PROVE  \E side \in Router!Sides, amount \in Nat :
           /\ Router!Spent + amount <= Router!Budget
           /\ Router!Buy(side, amount, t)
           /\ conviction_side' = side /\ side = Router!EntryPick(t)[1]
           /\ buy_tranches_done \in 0 .. 2
  <1> DEFINE side == Router!EntryPick(t)[1]
             portion == (Router!Budget * Router!TranchePart[buy_tranches_done + 1]) \div 100
             amount == Router!Clamp(portion, 100, Router!Remaining)
  <1>1. Router!TypeOK /\ Router!BudgetHeld
    BY DEF Router!RouterInv
  <1>2. /\ side # "none" /\ Router!Remaining >= 100 /\ buy_tranches_done \in 0 .. 2
        /\ Router!Buy(side, amount, t) /\ conviction_side' = side
    <2>1. /\ side # "none" /\ Router!Remaining >= 100
          /\ buy_tranches_done < Len(Router!TranchePct)
          /\ Router!Buy(side, amount, t) /\ conviction_side' = side
      BY DEF Router!Tranche, Router!Enters, Router!EntryTime
    <2>2. Len(Router!TranchePct) = 3
      BY DEF Router!TranchePct
    <2> QED BY <1>1, <2>1, <2>2 DEF Router!TypeOK
  <1>3. side \in Router!Sides
    <2>1. Router!CheapSide(t) \in Router!Sides \cup {"none"}
      <3> DEFINE cheap == {s \in Router!Sides : t.ask[s] > 0 /\ t.ask[s] <= 50}
      <3>1. CASE cheap = {}
        BY <3>1 DEF Router!CheapSide
      <3>2. CASE cheap = Router!Sides
        BY <3>2 DEF Router!CheapSide, Router!Sides
      <3>3. CASE cheap # {} /\ cheap # Router!Sides
        <4>1. \E s \in Router!Sides : s \in cheap
          BY <3>3
        <4>2. (CHOOSE s \in Router!Sides : s \in cheap) \in Router!Sides
          BY <4>1
        <4>3. Router!CheapSide(t) = CHOOSE s \in Router!Sides : s \in cheap
          BY <3>3 DEF Router!CheapSide
        <4> QED BY <4>2, <4>3
      <3> QED BY <3>1, <3>2, <3>3
    <2>2. Router!Directional(t) \in Router!Sides \cup {"none"} /\ t.lead \in Router!Sides
      BY RouterTicks DEF Router!Directional, Router!Sides
    <2>3. side \in {Router!CheapSide(t), Router!Directional(t), t.lead}
      BY DEF Router!EntryPick
    <2> QED BY <1>2, <2>1, <2>2, <2>3
  <1>4. Router!TranchePart[buy_tranches_done + 1] \in 0 .. 100
    <2>1. CASE buy_tranches_done = 0
      BY <2>1 DEF Router!TranchePart
    <2>2. CASE buy_tranches_done = 1
      BY <2>2 DEF Router!TranchePart
    <2>3. CASE buy_tranches_done = 2
      BY <2>3 DEF Router!TranchePart
    <2> QED BY <1>2, <2>1, <2>2, <2>3
  <1>5. portion \in Nat
    BY <1>4, RouterConstants, PartOf
  <1>6. Router!Spent \in Nat
    BY <1>1 DEF Router!TypeOK, Router!Spent, Router!Sides
  <1> HIDE DEF portion
  <1>7. amount \in Nat /\ Router!Spent + amount <= Router!Budget
    BY <1>2, <1>5, <1>6, RouterConstants DEF Router!Clamp, Router!Most, Router!Least,
                                             Router!Remaining
  <1> QED BY <1>2, <1>3, <1>7

LEMMA RouterEnters ==
  ASSUME Router!RouterInv, NEW t \in Router!Ticks, protected' \subseteq Router!Sides,
         Router!Tranche(t)
  PROVE  Router!RouterInv'
  <1>1. Router!TypeOK
    BY DEF Router!RouterInv
  <1>2. PICK side \in Router!Sides, amount \in Nat :
          /\ Router!Spent + amount <= Router!Budget /\ Router!Buy(side, amount, t)
          /\ conviction_side' = side /\ buy_tranches_done \in 0 .. 2
    BY RouterTranche
  <1>3. /\ buy_tranches_done' = buy_tranches_done + 1 /\ last_buy' = now /\ Router!SeeSpot(t)
        /\ UNCHANGED <<now, sell_steps_done, last_grid_target, ptb_trim_count, last_trim,
                       last_spot_itm, emergency_sold>>
    BY DEF Router!Tranche, Router!selling, Router!trims
  <1>4. /\ shares' \in [Router!Sides -> Nat] /\ bought' \in [Router!Sides -> Nat]
        /\ cost' \in [Router!Sides -> Nat] /\ Router!BudgetHeld' /\ Router!HeldWasBought'
    BY <1>2, RouterBuys
  <1>5. ptb_baseline' \in {"none", "above", "below"} /\ ptb_crossed' \in BOOLEAN
    BY <1>1, <1>3, RouterSees
  <1>6. buy_tranches_done' \in 0 .. 3
    BY <1>2, <1>3
  <1>7. Router!TypeOK'
    BY <1>1, <1>2, <1>3, <1>4, <1>5, <1>6 DEF Router!TypeOK
  <1> QED BY <1>4, <1>7 DEF Router!RouterInv

LEMMA RouterHedges ==
  ASSUME Router!RouterInv, NEW t \in Router!Ticks, protected' \subseteq Router!Sides,
         Router!Hedge(t)
  PROVE  Router!RouterInv'
  <1>1. Router!TypeOK
    BY DEF Router!RouterInv
  <1>2. /\ Router!Conviction(t) # "none" /\ Router!Spent + 300 <= Router!Budget
        /\ Router!Buy(Router!Other(Router!Conviction(t)), 300, t)
        /\ conviction_side' = Router!Conviction(t) /\ Router!SeeSpot(t)
        /\ UNCHANGED <<now, buy_tranches_done, last_buy, sell_steps_done, last_grid_target,
                       ptb_trim_count, last_trim, last_spot_itm, emergency_sold>>
    BY DEF Router!Hedge, Router!Holding, Router!Hedges, Router!buying, Router!selling, Router!trims
  <1>3. Router!Conviction(t) \in Router!Sides
    BY <1>1, <1>2, RouterThesis
  <1>4. Router!Other(Router!Conviction(t)) \in Router!Sides
    BY <1>3, RouterOther
  <1>5. /\ shares' \in [Router!Sides -> Nat] /\ bought' \in [Router!Sides -> Nat]
        /\ cost' \in [Router!Sides -> Nat] /\ Router!BudgetHeld' /\ Router!HeldWasBought'
    BY <1>2, <1>4, RouterBuys
  <1>6. ptb_baseline' \in {"none", "above", "below"} /\ ptb_crossed' \in BOOLEAN
    BY <1>1, <1>2, RouterSees
  <1>7. Router!TypeOK'
    BY <1>1, <1>2, <1>3, <1>5, <1>6 DEF Router!TypeOK
  <1> QED BY <1>5, <1>7 DEF Router!RouterInv

LEMMA RouterTrims ==
  ASSUME Router!RouterInv, NEW t \in Router!Ticks, protected' \subseteq Router!Sides,
         Router!Trim(t)
  PROVE  Router!RouterInv'
  <1> DEFINE side == Router!Conviction(t)
             amount == Router!Most((shares[side] * 30) \div 100, 1)
  <1>1. Router!TypeOK
    BY DEF Router!RouterInv
  <1>2. /\ side # "none" /\ ptb_trim_count < 1 /\ Router!SellSide(side, amount)
        /\ ptb_trim_count' = ptb_trim_count + 1 /\ last_trim' = now /\ last_spot_itm' = "no"
        /\ conviction_side' = side /\ Router!SeeSpot(t)
        /\ UNCHANGED <<now, buy_tranches_done, last_buy, sell_steps_done, last_grid_target,
                       emergency_sold>>
    BY DEF Router!Trim, Router!Trims, Router!Holding, Router!buying, Router!selling
  <1>3. side \in Router!Sides
    BY <1>1, <1>2, RouterThesis
  <1>4. amount \in Nat
    <2>1. (shares[side] * 30) \div 100 \in Nat
      <3>1. shares[side] \in Nat
        BY <1>1, <1>3 DEF Router!TypeOK
      <3> QED BY <3>1, PartOf
    <2> DEFINE n == (shares[side] * 30) \div 100
    <2>2. n \in Nat
      BY <2>1
    <2> HIDE DEF n
    <2>3. Router!Most(n, 1) \in Nat
      BY <2>2 DEF Router!Most
    <2> QED BY <2>3 DEF n
  <1> HIDE DEF side, amount
  <1>5. /\ shares' \in [Router!Sides -> Nat] /\ bought' \in [Router!Sides -> Nat]
        /\ cost' \in [Router!Sides -> Nat] /\ Router!BudgetHeld' /\ Router!HeldWasBought'
    BY <1>2, <1>4, RouterSellsSide
  <1>6. ptb_baseline' \in {"none", "above", "below"} /\ ptb_crossed' \in BOOLEAN
    BY <1>1, <1>2, RouterSees
  <1>7. ptb_trim_count' \in 0 .. 1
    BY <1>1, <1>2 DEF Router!TypeOK
  <1>8. Router!TypeOK'
    BY <1>1, <1>2, <1>3, <1>5, <1>6, <1>7 DEF Router!TypeOK
  <1> QED BY <1>5, <1>8 DEF Router!RouterInv

\* The next target is a price, since what is held was bought at one.
LEMMA RouterTarget ==
  ASSUME Router!RouterInv, NEW side \in Router!Sides, shares[side] > 0
  PROVE  Router!Target(side) \in 0 .. 99 /\ Router!GridAmount(side) \in Int
  <1>1. Router!TypeOK /\ Router!HeldWasBought
    BY DEF Router!RouterInv
  <1>2. /\ shares[side] \in Nat /\ bought[side] \in Nat /\ cost[side] \in Nat /\ bought[side] > 0
        /\ sell_steps_done \in Nat /\ last_grid_target \in Int
    BY <1>1 DEF Router!TypeOK, Router!HeldWasBought
  <1>3. Router!EntryAvg(side) \in Nat
    <2>1. cost[side] * 100 \in Nat
      BY <1>2
    <2> QED BY <1>2, <2>1, Division DEF Router!EntryAvg
  <1>4. sell_steps_done < 3 =>
          Router!GridDelta[sell_steps_done + 1] \in Nat /\ Router!GridPart[sell_steps_done + 1] \in 0 .. 100
    <2> SUFFICES ASSUME sell_steps_done \in 0 .. 2
                 PROVE  /\ Router!GridDelta[sell_steps_done + 1] \in Nat
                        /\ Router!GridPart[sell_steps_done + 1] \in 0 .. 100
      BY <1>2
    <2>1. CASE sell_steps_done = 0
      BY <2>1 DEF Router!GridDelta, Router!GridPart
    <2>2. CASE sell_steps_done = 1
      BY <2>2 DEF Router!GridDelta, Router!GridPart
    <2>3. CASE sell_steps_done = 2
      BY <2>3 DEF Router!GridDelta, Router!GridPart
    <2> QED BY <2>1, <2>2, <2>3
  <1>5. Len(Router!GridDelta) = 3 /\ Len(Router!GridPart) = 3
    BY DEF Router!GridDelta, Router!GridPart
  <1>6. Router!Target(side) \in 0 .. 99
    BY <1>2, <1>3, <1>4, <1>5 DEF Router!Target, Router!Clamp, Router!Most, Router!Least
  <1>7. Router!Part \in 0 .. 100
    BY <1>2, <1>4, <1>5 DEF Router!Part
  <1>8. (shares[side] * Router!Part) \div 100 \in Nat /\ (shares[side] * 40) \div 100 \in Nat
    BY <1>2, <1>7, PartOf
  <1> DEFINE n == (shares[side] * Router!Part) \div 100
             m == (shares[side] * 40) \div 100
  <1>9. Router!GridAmount(side) \in {Router!Least(Router!Most(n, 1), shares[side] - m), Router!Most(n, 1)}
    BY DEF Router!GridAmount
  <1>10. n \in Nat /\ m \in Nat
    BY <1>8
  <1> HIDE DEF n, m
  <1>11. Router!GridAmount(side) \in Int
    BY <1>2, <1>9, <1>10 DEF Router!Least, Router!Most
  <1> QED BY <1>6, <1>11

LEMMA RouterGridSale ==
  ASSUME Router!RouterInv, NEW t \in Router!Ticks, protected' \subseteq Router!Sides,
         Router!GridSale(t)
  PROVE  Router!RouterInv'
  <1> DEFINE side == Router!Conviction(t)
             amount == Router!GridAmount(side)
  <1>1. Router!TypeOK
    BY DEF Router!RouterInv
  <1>2. /\ side # "none" /\ shares[side] > 0 /\ amount >= 1 /\ Router!SellSide(side, amount)
        /\ sell_steps_done' = sell_steps_done + 1 /\ last_grid_target' = Router!Target(side)
        /\ last_spot_itm' \in {"yes", "no"} /\ conviction_side' = side /\ Router!SeeSpot(t)
        /\ UNCHANGED <<now, buy_tranches_done, last_buy, ptb_trim_count, last_trim, emergency_sold>>
    BY DEF Router!GridSale, Router!GridSells, Router!Holding, Router!buying, Router!trims
  <1>3. side \in Router!Sides
    BY <1>1, <1>2, RouterThesis
  <1>4. amount \in Nat /\ Router!Target(side) \in 0 .. 99
    BY <1>2, <1>3, RouterTarget
  <1> HIDE DEF side, amount
  <1>5. /\ shares' \in [Router!Sides -> Nat] /\ bought' \in [Router!Sides -> Nat]
        /\ cost' \in [Router!Sides -> Nat] /\ Router!BudgetHeld' /\ Router!HeldWasBought'
    BY <1>2, <1>4, RouterSellsSide
  <1>6. ptb_baseline' \in {"none", "above", "below"} /\ ptb_crossed' \in BOOLEAN
    BY <1>1, <1>2, RouterSees
  <1>7. Router!TypeOK'
    BY <1>1, <1>2, <1>3, <1>4, <1>5, <1>6 DEF Router!TypeOK
  <1> QED BY <1>5, <1>7 DEF Router!RouterInv

LEMMA RouterStep == Router!RouterInv /\ Router!Next => Router!RouterInv'
  <1> SUFFICES ASSUME Router!RouterInv, Router!Next PROVE Router!RouterInv'
    OBVIOUS
  <1>1. ASSUME NEW t \in Router!Ticks, Router!Tick(t) PROVE Router!RouterInv'
    <2>1. protected' \subseteq Router!Sides
      BY <1>1 DEF Router!Tick
    <2> QED BY <1>1, <2>1, RouterExits, RouterEnters, RouterTrims, RouterHedges, RouterGridSale,
               RouterWatches DEF Router!Tick
  <1> QED BY <1>1, RouterPasses DEF Router!Next

\* An entry is of the side that is held, which is the thesis of the tick.
LEMMA RouterThesisStays ==
  Router!RouterInv /\ Router!Next => Router!ThesisStays /\ Router!NoReentryAfterTrim
  <1> SUFFICES ASSUME Router!RouterInv, Router!Next,
                      conviction_side # "none", shares[conviction_side] > 0
               PROVE  /\ conviction_side' = conviction_side
                      /\ (ptb_trim_count > 0 /\ now - last_trim < 8) =>
                           bought'[conviction_side] = bought[conviction_side]
    BY DEF Router!ThesisStays, Router!NoReentryAfterTrim
  <1>1. Router!TypeOK /\ conviction_side \in Router!Sides
    BY DEF Router!RouterInv, Router!TypeOK
  <1>2. CASE Router!Pass
    BY <1>2 DEF Router!Pass, Router!ledger
  <1>3. ASSUME NEW t \in Router!Ticks, Router!Tick(t)
        PROVE  /\ conviction_side' = conviction_side
               /\ (ptb_trim_count > 0 /\ now - last_trim < 8) =>
                    bought'[conviction_side] = bought[conviction_side]
    <2>1. Router!Held = conviction_side /\ Router!Conviction(t) = conviction_side
      BY <1>1, RouterThesis
    <2>2. CASE Router!EmergencyExit(t)
      BY <2>2 DEF Router!EmergencyExit, Router!Sell
    <2>3. CASE Router!Trim(t)
      BY <2>1, <2>3 DEF Router!Trim, Router!SellSide, Router!Sell
    <2>4. CASE Router!GridSale(t)
      BY <2>1, <2>4 DEF Router!GridSale, Router!SellSide, Router!Sell
    <2>5. CASE Router!Watch(t)
      BY <2>1, <2>5 DEF Router!Watch, Router!ledger
    <2>6. CASE Router!Hedge(t)
      <3>1. /\ conviction_side' = conviction_side /\ Router!Spent + 300 <= Router!Budget
            /\ Router!Buy(Router!Other(conviction_side), 300, t)
        BY <2>1, <2>6 DEF Router!Hedge, Router!Hedges
      <3>2. Router!Other(conviction_side) \in Router!Sides /\ Router!Other(conviction_side) # conviction_side
        BY <1>1, RouterOther
      <3>3. bought'[conviction_side] = bought[conviction_side]
        BY <1>1, <3>1, <3>2, RouterBuys
      <3> QED BY <3>1, <3>3
    <2>7. CASE Router!Tranche(t)
      <3> DEFINE side == Router!EntryPick(t)[1]
      <3>1. /\ conviction_side' = side /\ side # "none" /\ Router!Held \in {"none", side}
            /\ ~Router!TrimBlocks(side, t)
        BY <2>7 DEF Router!Tranche, Router!Enters
      <3>2. side = conviction_side
        BY <2>1, <3>1
      <3>3. ~(ptb_trim_count > 0 /\ now - last_trim < 8)
        BY <2>1, <3>1, <3>2 DEF Router!TrimBlocks
      <3> QED BY <3>1, <3>2, <3>3
    <2> QED BY <1>3, <2>2, <2>3, <2>4, <2>5, <2>6, <2>7 DEF Router!Tick
  <1> QED BY <1>2, <1>3 DEF Router!Next

\* Holds is asked by the last sales and by the grid, and a side that is trimmed is not
\* in the money.
LEMMA RouterProtects == Router!RouterInv /\ Router!Next => Router!ProtectedStays
  <1> SUFFICES ASSUME Router!RouterInv, Router!Next, NEW side \in protected'
               PROVE  shares'[side] >= shares[side]
    BY DEF Router!ProtectedStays
  <1>1. PICK t \in Router!Ticks : Router!Tick(t)
    BY DEF Router!Next, Router!Pass
  <1>2. side \in Router!Sides /\ Router!Holds(side, t)
    BY <1>1 DEF Router!Tick
  <1>3. Router!TypeOK /\ shares[side] \in Nat
    BY <1>2 DEF Router!RouterInv, Router!TypeOK
  <1>4. CASE Router!EmergencyExit(t)
    <2> DEFINE amounts == [s \in Router!Sides |-> IF s \in Router!Dumped(t) THEN shares[s] ELSE 0]
    <2>1. Router!Sell(amounts)
      BY <1>4 DEF Router!EmergencyExit
    <2>2. amounts[side] = 0
      BY <1>2 DEF Router!Dumped
    <2>3. \A s \in Router!Sides : amounts[s] \in Nat
      BY <1>3 DEF Router!TypeOK
    <2> HIDE DEF amounts
    <2>4. shares'[side] = shares[side]
      BY <1>2, <2>1, <2>2, <2>3, RouterSells
    <2> QED BY <1>3, <2>4
  <1>5. CASE Router!Trim(t)
    <2>1. /\ Router!Conviction(t) # side
          /\ Router!SellSide(Router!Conviction(t),
                             Router!Most((shares[Router!Conviction(t)] * 30) \div 100, 1))
      BY <1>2, <1>5 DEF Router!Trim, Router!Trims, Router!Holds
    <2>2. shares'[side] = shares[side] - Router!Least(0, shares[side])
      BY <1>2, <2>1 DEF Router!SellSide, Router!Sell
    <2> QED BY <1>3, <2>2 DEF Router!Least
  <1>6. CASE Router!GridSale(t)
    <2>1. /\ Router!Conviction(t) # side
          /\ Router!SellSide(Router!Conviction(t), Router!GridAmount(Router!Conviction(t)))
      BY <1>2, <1>6 DEF Router!GridSale, Router!GridSells
    <2>2. shares'[side] = shares[side] - Router!Least(0, shares[side])
      BY <1>2, <2>1 DEF Router!SellSide, Router!Sell
    <2> QED BY <1>3, <2>2 DEF Router!Least
  <1>7. CASE Router!Watch(t)
    BY <1>3, <1>7 DEF Router!Watch, Router!ledger
  <1>8. CASE Router!Hedge(t)
    <2>1. /\ Router!Spent + 300 <= Router!Budget /\ Router!Conviction(t) # "none"
          /\ Router!Buy(Router!Other(Router!Conviction(t)), 300, t)
      BY <1>8 DEF Router!Hedge, Router!Hedges, Router!Holding
    <2>2. Router!Other(Router!Conviction(t)) \in Router!Sides
      BY <1>3, <2>1, RouterThesis, RouterOther
    <2> QED BY <1>2, <2>1, <2>2, RouterBuys
  <1>9. CASE Router!Tranche(t)
    <2>1. PICK s \in Router!Sides, amount \in Nat :
            Router!Spent + amount <= Router!Budget /\ Router!Buy(s, amount, t)
      BY <1>9, RouterTranche
    <2> QED BY <1>2, <2>1, RouterBuys
  <1> QED BY <1>1, <1>4, <1>5, <1>6, <1>7, <1>8, <1>9 DEF Router!Tick

-----------------------------------------------------------------------------
(* The strategies together                                                 *)

LEMMA WindowsStart == Init => WindowsInv
  BY RouterStart, ValueStart, GridStart, HoldStart, LastStart DEF Init, WindowsInv

\* What the invariants look at stays in a step that changes nothing.
LEMMA RouterRests == Router!RouterInv /\ UNCHANGED vars => Router!RouterInv'
  <1> SUFFICES ASSUME Router!RouterInv, UNCHANGED vars PROVE Router!RouterInv'
    OBVIOUS
  <1>1. UNCHANGED <<now, shares, bought, cost, conviction_side, buy_tranches_done,
                    sell_steps_done, last_spot_itm, last_buy, ptb_trim_count, last_trim,
                    emergency_sold, ptb_baseline, ptb_crossed, last_grid_target, protected>>
    BY DEF vars, shared, crossVars, soldVars, routerOnly
  <1>2. Router!Spent' = Router!Spent /\ Router!Budget' = Router!Budget
    BY <1>1 DEF Router!Spent, Router!Budget
  <1> QED BY <1>1, <1>2 DEF Router!RouterInv, Router!TypeOK, Router!BudgetHeld, Router!HeldWasBought

LEMMA ValueRests == Value!ValueInv /\ UNCHANGED vars => Value!ValueInv'
  <1> SUFFICES ASSUME Value!ValueInv, UNCHANGED vars PROVE Value!ValueInv'
    OBVIOUS
  <1>1. UNCHANGED <<now, shares, bought, cost, returned, primary_side, primary_entry_price,
                    sell_steps, max_budget, panicked, salvaging, dumped, ptb_baseline, ptb_crossed>>
    BY DEF vars, shared, crossVars, valueOnly
  <1> QED BY <1>1, ValueKeeps DEF Value!ValueInv, Value!TypeOK, Value!ledger, Value!thesis

LEMMA GridRests == Grid!GridInv /\ UNCHANGED vars => Grid!GridInv'
  <1> SUFFICES ASSUME Grid!GridInv, UNCHANGED vars PROVE Grid!GridInv'
    OBVIOUS
  <1>1. UNCHANGED <<now, shares, bought, cost, returned, pending_entry_ask, initial_entry_shares,
                    sell_steps_done, thesis_locked, emergency_sold, protected, released,
                    entry_side, entry_ask>>
    BY DEF vars, shared, soldVars, gridOnly
  <1>2. now \in GridMoments /\ now \in Nat /\ protected \subseteq Grid!Sides
    BY GridConstants DEF Grid!GridInv, Grid!TypeOK
  <1> QED BY <1>1, <1>2, GridKeeps DEF Grid!ledger

LEMMA HoldRests == Hold!HoldInv /\ UNCHANGED vars => Hold!HoldInv'
  <1> SUFFICES ASSUME Hold!HoldInv, UNCHANGED vars PROVE Hold!HoldInv'
    OBVIOUS
  <1>1. UNCHANGED <<now, shares, bought, cost, entry_side, entry_done, salvage_done>>
    BY DEF vars, shared
  <1>2. Hold!Spent' = Hold!Spent /\ Hold!Budget' = Hold!Budget
    BY <1>1 DEF Hold!Spent, Hold!Budget
  <1> QED BY <1>1, <1>2 DEF Hold!HoldInv, Hold!TypeOK, Hold!OneEntry, Hold!EntryWasBought, Hold!OneSide

LEMMA LastRests == Last!LastInv /\ UNCHANGED vars => Last!LastInv'
  <1> SUFFICES ASSUME Last!LastInv, UNCHANGED vars PROVE Last!LastInv'
    OBVIOUS
  <1>1. UNCHANGED <<left, cash, shares, cost, runtime_cash, entry_side, entry_done, executed>>
    BY DEF vars, shared, lastOnly
  <1> QED BY <1>1 DEF Last!LastInv, Last!TypeOK, Last!OneClip, Last!NoClipYet

\* A step is a step of the strategy of the window, which stays.
LEMMA WindowsStep == WindowsInv /\ [Next]_vars => WindowsInv'
  <1> SUFFICES ASSUME WindowsInv, [Next]_vars PROVE WindowsInv'
    OBVIOUS
  <1>1. CASE Next
    <2>1. CASE part = "router" /\ Router!Next /\ part' = part
      BY <2>1, RouterStep DEF WindowsInv
    <2>2. CASE part = "value" /\ Value!Next /\ part' = part
      BY <2>2, ValueStep DEF WindowsInv
    <2>3. CASE part = "grid" /\ Grid!Next /\ part' = part
      BY <2>3, GridStep DEF WindowsInv
    <2>4. CASE part = "hold" /\ Hold!Next /\ part' = part
      BY <2>4, HoldStep DEF WindowsInv
    <2>5. CASE part = "last" /\ Last!Next /\ part' = part
      BY <2>5, LastStep DEF WindowsInv
    <2> QED BY <1>1, <2>1, <2>2, <2>3, <2>4, <2>5 DEF Next
  <1>2. CASE UNCHANGED vars
    <2>1. part' = part
      BY <1>2 DEF vars
    <2> QED BY <1>2, <2>1, RouterRests, ValueRests, GridRests, HoldRests, LastRests DEF WindowsInv
  <1> QED BY <1>1, <1>2

\* The inductive invariant of the five strategies.
THEOREM WindowsInvariant == Spec => []WindowsInv
  <1> QED BY WindowsStart, WindowsStep, PTL DEF Spec

\* On every tick, whatever the books, the spot and the ledger do, the tranches and
\* hedges of a window keep within its budget and the cap of the hedge, and the
\* strategies with one entry make one (e_window_budget, the hedge of Dx, the entries
\* of D_cross, H and x_last).
THEOREM BudgetsAlwaysHeld == Spec => []BudgetsHeld
  <1>1. WindowsInv => BudgetsHeld
    BY DEF WindowsInv, BudgetsHeld, Router!RouterInv, Value!ValueInv, Grid!GridInv, Hold!HoldInv,
           Last!LastInv
  <1> QED BY <1>1, WindowsInvariant, PTL

\* What the ladder and the profit of Dx and the grid of D_cross sold returned what it
\* had cost, up to a cent of rounding for each sale, though the price the targets start
\* from is remembered at the signal and noticed a tick later.
THEOREM PrimaryAlwaysPays == Spec => []PrimaryPays
  <1>1. WindowsInv => PrimaryPays
    BY ValuePaid, GridPaid DEF WindowsInv, PrimaryPays
  <1> QED BY <1>1, WindowsInvariant, PTL

\* A held thesis stays, is not bought again at once after it was trimmed, and is what
\* the ledger bought, refused entries included (conviction_side of E, primary_side of
\* Dx, entry_side of H).
THEOREM ThesisAlwaysStays == Spec => ThesisStays
  <1> DEFINE Stays == /\ part = "router" => Router!ThesisStays /\ Router!NoReentryAfterTrim
                      /\ part = "value"  => Value!PrimaryWasBought
                      /\ part = "hold"   => Hold!EntryWasBought
  <1>1. WindowsInv /\ [Next]_vars => [Stays]_vars
    <2> SUFFICES ASSUME WindowsInv, Next PROVE Stays
      OBVIOUS
    <2>1. part = "router" => Router!Next
      BY DEF Next
    <2> QED BY <2>1, RouterThesisStays DEF WindowsInv, Value!ValueInv, Hold!HoldInv
  <1> QED BY <1>1, WindowsInvariant, PTL DEF Spec, ThesisStays

\* No rule that sells takes from what is kept for redemption: neither the protected
\* side of E and D_cross, nor the runner of D_cross, nor the pair of Dx
\* (evaluate_redeem_hold, cap_sell_with_runner_floor, the salvage of Dx).
THEOREM RedemptionAlwaysKept == Spec => KeptForRedemption
  <1> DEFINE Kept == /\ part = "router" => Router!ProtectedStays
                     /\ part = "value"  => Value!SalvageKeepsPair
                     /\ part = "grid"   => Grid!ProtectedStays /\ Grid!RunnerKept
  <1>1. WindowsInv /\ [Next]_vars => [Kept]_vars
    <2> SUFFICES ASSUME WindowsInv, Next PROVE Kept
      OBVIOUS
    <2>1. /\ part = "router" => Router!Next
          /\ part = "value" => Value!Next
          /\ part = "grid" => Grid!Next
      BY DEF Next
    <2>2. Grid!GridInv => Grid!RunnerKept
      BY DEF Grid!GridInv
    <2> QED BY <2>1, <2>2, RouterProtects, ValueKeepsPair, GridProtects DEF WindowsInv
  <1> QED BY <1>1, WindowsInvariant, PTL DEF Spec, KeptForRedemption
=============================================================================
