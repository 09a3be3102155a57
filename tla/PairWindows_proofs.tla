------------------------- MODULE PairWindows_proofs -------------------------
(***************************************************************************)
(* The properties of module PairWindows, for every corridor, budget, range *)
(* of asks, ladder, book and entry that InstancesSound allows.  Each of    *)
(* the three parts has an inductive invariant; a step of the suite is a    *)
(* step of one of them.                                                    *)
(***************************************************************************)
EXTENDS PairWindows, Sequences, TLAPS

-----------------------------------------------------------------------------
(* The entry before the start                                              *)

\* The loop's copy and the ledger agree until the promotion; before the strategy has
\* entered nothing is booked; and the model was asked as often as it was attempted.
EntryInv ==
  /\ Entry!TypeOK /\ Entry!LiveMeansPaid /\ Entry!EntryWithinBudget /\ Entry!PairedFloor
  /\ next_status # "none" => status = next_status
  /\ next_status = "WAITING_ENTRY" => spent = 0
  /\ next_status = "ENTERED_PRE_START" => spent > 0
  /\ ~entered => /\ spent = 0 /\ entry = Entry!NoEntry
                 /\ cost = [side \in Entry!Sides |-> 0]
  /\ requests = IF attempted THEN 1 ELSE 0

\* A quotient lies within one of the fraction.
LEMMA Quotient ==
  ASSUME NEW a \in Nat, NEW n \in Nat \ {0}
  PROVE  /\ a \div n \in Nat
         /\ (a \div n) * n <= a
         /\ a < (a \div n) * n + n
  OBVIOUS

\* Products of naturals keep the order of their factors.
LEMMA Products ==
  ASSUME NEW a \in Nat, NEW b \in Nat, NEW c \in Nat
  PROVE  /\ a * c \in Nat
         /\ a <= b => a * c <= b * c
  OBVIOUS

\* The facts on the constants that the proofs about the entry use.
LEMMA EntryConstants ==
  /\ Latest \in Nat /\ Earliest \in Nat /\ Latest <= Earliest
  /\ MinBudget \in Nat /\ MaxBudget \in Nat /\ MinBudget <= MaxBudget
  /\ MinTrade \in Nat \ {0} /\ LlmTimeout \in Nat
  /\ MinAsk \in Nat /\ MaxAsk \in Nat /\ BudgetPct \in Nat
  /\ Asks \subseteq 0 .. 100 /\ 0 \in Asks /\ Banks \subseteq Nat
  /\ Multipliers \subseteq 0 .. 100 /\ Ratios \subseteq Nat
  BY InstancesSound DEF Entry!PreStartAssumption

\* The budget of an entry is at most the maximum of a window (monitor_time cuts it to
\* the bank afterwards, never raises it).
LEMMA BudgetBounded ==
  ASSUME equity \in Nat, cash \in Nat, NEW multiplier \in 0 .. 100
  PROVE  Entry!Budget(multiplier) \in 0 .. MaxBudget
  <1> DEFINE part10  == (equity * BudgetPct) \div 100
             clamped == Entry!Least(Entry!Most(part10, MinBudget), MaxBudget)
             share   == Entry!Least(Entry!Most(multiplier, 10), 150)
             wanted  == (clamped * share) \div 100
  <1>1. part10 \in Nat
    BY EntryConstants, Products, Quotient
  <1> HIDE DEF part10
  <1>2. clamped \in 0 .. MaxBudget
    BY <1>1, EntryConstants DEF Entry!Least, Entry!Most
  <1>3. share \in 0 .. 100
    BY DEF Entry!Least, Entry!Most
  <1> HIDE DEF clamped, share
  <1>4. clamped * share \in Nat /\ clamped * share <= clamped * 100
    BY <1>2, <1>3
  <1>5. wanted \in Nat /\ wanted <= clamped
    BY <1>2, <1>3, <1>4, Quotient
  <1>6. Entry!Budget(multiplier) = IF cash >= wanted THEN wanted
                                   ELSE IF cash >= MinBudget THEN cash ELSE 0
    BY DEF Entry!Budget, part10, clamped, share
  <1> HIDE DEF wanted
  <1> QED BY <1>2, <1>5, <1>6, EntryConstants

\* Four factors in either order.
LEMMA Distributes ==
  ASSUME NEW x \in Int, NEW y \in Int, NEW z \in Int
  PROVE  /\ (x + y) * z = x * z + y * z
         /\ (x - y) * z = x * z - y * z
         /\ (x * y) * z = x * (y * z) /\ (x * y) * z = (x * z) * y
  OBVIOUS

\* A factor that is positive may be cancelled.
LEMMA Cancels ==
  ASSUME NEW x \in Int, NEW y \in Int, NEW z \in Nat \ {0}
  PROVE  /\ x * z <= y * z => x <= y
         /\ x * z < y * z => x < y
  OBVIOUS

\* The dearer side's dollars of a budget b: its share of the core, rounded down twice.
CoreOf(b, k) == (b * k) \div 100
DearOf(b, k, a, c) == (CoreOf(b, k) * a) \div (a + c)

LEMMA CoreBounds ==
  ASSUME NEW b \in Nat, NEW k \in 80 .. 100
  PROVE  /\ CoreOf(b, k) \in Nat /\ CoreOf(b, k) <= b
         /\ b * 80 < CoreOf(b, k) * 100 + 100
  <1>1. b * 80 <= b * k /\ b * k <= b * 100 /\ b * k \in Nat
    OBVIOUS
  <1> QED BY <1>1, Quotient DEF CoreOf

LEMMA DearBounds ==
  ASSUME NEW b \in Nat, NEW k \in 80 .. 100, NEW a \in 1 .. 100, NEW c \in 1 .. 100
  PROVE  /\ DearOf(b, k, a, c) \in Nat
         /\ DearOf(b, k, a, c) * (a + c) <= CoreOf(b, k) * a
         /\ CoreOf(b, k) * a < (DearOf(b, k, a, c) + 1) * (a + c)
  <1> DEFINE n == a + c
             x == CoreOf(b, k) * a
  <1>1. n \in Nat \ {0} /\ x \in Nat
    <2>1. CoreOf(b, k) \in Nat
      BY CoreBounds
    <2>2. n \in Nat \ {0}
      OBVIOUS
    <2>3. x \in Nat
      BY <2>1, Products
    <2> QED BY <2>2, <2>3
  <1>2. DearOf(b, k, a, c) = x \div n
    BY DEF DearOf
  <1> HIDE DEF n, x
  <1>3. /\ x \div n \in Nat
        /\ (x \div n) * n <= x /\ x < (x \div n) * n + n
    BY <1>1, Quotient
  <1>4. ((x \div n) + 1) * n = (x \div n) * n + n
    BY <1>1, <1>3, Distributes
  <1> QED BY <1>1, <1>2, <1>3, <1>4 DEF n, x

\* The leg of the dearer side fits the budget, and is the core's but for two cents.
LEMMA DearLeg ==
  ASSUME NEW b \in Nat, NEW k \in 80 .. 100, NEW a \in 1 .. 100, NEW c \in 1 .. 100
  PROVE  /\ DearOf(b, k, a, c) <= b
         /\ DearOf(b, k, a, c) * (a + c) <= b * a
         /\ 100 * ((DearOf(b, k, a, c) + 2) * (a + c)) >= (b * 80) * a
  <1> DEFINE core == CoreOf(b, k)
             dear == DearOf(b, k, a, c)
             n    == a + c
  <1>a. core \in Nat /\ core <= b /\ b * 80 < core * 100 + 100
    BY CoreBounds
  <1>b. dear \in Nat /\ dear * n <= core * a /\ core * a < (dear + 1) * n
    BY DearBounds
  <1>c. n \in Nat \ {0} /\ a <= n
    OBVIOUS
  <1>1. /\ core \in Nat /\ core <= b /\ b * 80 < core * 100 + 100
        /\ dear \in Nat /\ dear * n <= core * a /\ core * a < (dear + 1) * n
        /\ n \in Nat \ {0} /\ a <= n
    BY <1>a, <1>b, <1>c
  <1> HIDE DEF core, dear, n
  <1>2. core * a <= b * a /\ b * a <= b * n
    BY <1>1
  <1>3. core * a \in Nat /\ b * a \in Nat /\ b * n \in Nat /\ dear * n \in Nat
    BY <1>1
  <1>4. dear * n <= b * n
    BY <1>1, <1>2, <1>3
  <1>5. dear <= b
    BY <1>1, <1>4, Cancels
  <1>6. (b * 80) * a <= (core * 100 + 100) * a
    BY <1>1
  <1>7. (core * 100 + 100) * a = 100 * (core * a) + 100 * a
    BY <1>1
  <1>8. (dear + 2) * n = (dear + 1) * n + n
    BY <1>1
  <1>9. (dear + 1) * n \in Nat /\ (b * 80) * a \in Nat
    BY <1>1
  <1>10. 100 * ((dear + 2) * n) >= (b * 80) * a
    BY <1>1, <1>3, <1>6, <1>7, <1>8, <1>9
  <1> QED BY <1>1, <1>2, <1>3, <1>5, <1>10 DEF core, dear, n

\* What is left for the cheaper side, in the proportion of its ask.
LEMMA CheapLeg ==
  ASSUME NEW b \in Nat, NEW k \in 80 .. 100, NEW a \in 1 .. 100, NEW c \in 1 .. 100
  PROVE  (b - DearOf(b, k, a, c)) * (a + c) >= b * c
  <1> DEFINE dear == DearOf(b, k, a, c)
             n    == a + c
  <1>a. dear \in Nat
    BY DearBounds
  <1>b. dear * n <= b * a
    BY DearLeg
  <1>c. n \in Nat
    OBVIOUS
  <1>1. dear \in Nat /\ dear * n <= b * a /\ n \in Nat
    BY <1>a, <1>b, <1>c
  <1>2. b * n = b * a + b * c
    OBVIOUS
  <1> HIDE DEF dear, n
  <1>3. (b - dear) * n = b * n - dear * n
    BY <1>1, Distributes
  <1>4. dear * n \in Nat /\ b * a \in Nat /\ b * c \in Nat /\ b * n \in Nat
    BY <1>1
  <1> QED BY <1>1, <1>2, <1>3, <1>4 DEF dear, n

\* Either leg is at least what the minimum of a trade asks, if the budget is large
\* enough and the asks are in range.
LEMMA DearTrades ==
  ASSUME NEW b \in Nat, NEW k \in 80 .. 100, NEW a \in 1 .. 100, NEW c \in 1 .. 100,
         c <= a, Entry!EitherSideTrades(b)
  PROVE  DearOf(b, k, a, c) >= MinTrade
  <1> DEFINE core == CoreOf(b, k)
             dear == DearOf(b, k, a, c)
             n    == a + c
  <1>1. MinTrade \in Nat /\ 2 * b >= 5 * MinTrade
    BY EntryConstants DEF Entry!EitherSideTrades
  <1>2. core \in Nat /\ b * 80 < core * 100 + 100
    BY CoreBounds
  <1>a. dear \in Nat /\ core * a < (dear + 1) * n
    BY DearBounds
  <1>b. n \in Nat /\ n <= 2 * a /\ a \in Nat \ {0}
    OBVIOUS
  <1>3. /\ dear \in Nat /\ core * a < (dear + 1) * n
        /\ n \in Nat /\ n <= 2 * a /\ a \in Nat \ {0}
    BY <1>a, <1>b
  <1> HIDE DEF core, dear, n
  <1>4. core >= 2 * MinTrade
    BY <1>1, <1>2
  <1>5. (2 * MinTrade) * a <= core * a /\ (dear + 1) * n <= (dear + 1) * (2 * a)
    BY <1>1, <1>2, <1>3, <1>4
  <1>6. (2 * MinTrade) * a = MinTrade * (2 * a) /\ 2 * a \in Nat \ {0}
    BY <1>1, <1>3
  <1>7. core * a \in Nat /\ (dear + 1) * n \in Nat /\ (dear + 1) * (2 * a) \in Nat
        /\ MinTrade * (2 * a) \in Nat
    BY <1>1, <1>2, <1>3
  <1>8. MinTrade * (2 * a) < (dear + 1) * (2 * a)
    BY <1>3, <1>5, <1>6, <1>7
  <1>9. MinTrade < dear + 1
    BY <1>1, <1>3, <1>6, <1>8, Cancels
  <1> QED BY <1>1, <1>3, <1>9 DEF dear

LEMMA CheapTrades ==
  ASSUME NEW b \in Nat, NEW k \in 80 .. 100, NEW a \in 1 .. 100, NEW c \in 1 .. 100,
         MinAsk <= c, a <= MaxAsk, Entry!EitherSideTrades(b)
  PROVE  b - DearOf(b, k, a, c) >= MinTrade
  <1> DEFINE d == b - DearOf(b, k, a, c)
             s == a + c
             m == MinAsk + MaxAsk
  <1>1. MinTrade \in Nat /\ MinAsk \in Nat /\ MaxAsk \in Nat
    BY EntryConstants
  <1>2. b * MinAsk >= MinTrade * m
    BY DEF Entry!EitherSideTrades
  <1>a. d * s >= b * c
    BY CheapLeg
  <1>b. DearOf(b, k, a, c) \in Nat
    BY DearBounds
  <1>c. d \in Int
    BY <1>b
  <1>d. s \in Nat \ {0} /\ m \in Nat \ {0}
    BY <1>1
  <1>3. d * s >= b * c /\ d \in Int /\ s \in Nat \ {0} /\ m \in Nat \ {0}
    BY <1>a, <1>c, <1>d
  <1>4. MinAsk * s <= c * m
    <2>1. MinAsk * a <= MinAsk * MaxAsk /\ MinAsk * MaxAsk <= c * MaxAsk
      BY <1>1
    <2>2. MinAsk * s = MinAsk * a + MinAsk * c /\ c * m = c * MinAsk + c * MaxAsk
      BY <1>1
    <2>3. MinAsk * a \in Nat /\ MinAsk * c \in Nat /\ c * MaxAsk \in Nat
          /\ MinAsk * MaxAsk \in Nat /\ c * MinAsk = MinAsk * c
      BY <1>1
    <2> QED BY <2>1, <2>2, <2>3
  <1> HIDE DEF d, s, m
  <1>5. b * (MinAsk * s) <= b * (c * m)
    BY <1>1, <1>3, <1>4
  <1>6. b * (MinAsk * s) = (b * MinAsk) * s /\ b * (c * m) = (b * c) * m
    BY <1>1, <1>3
  <1>7. (MinTrade * m) * s <= (b * MinAsk) * s
    BY <1>1, <1>2, <1>3
  <1>8. (b * c) * m <= (d * s) * m
    BY <1>1, <1>3
  <1>9. (MinTrade * m) * s = MinTrade * (s * m) /\ (d * s) * m = d * (s * m)
    BY <1>1, <1>3
  <1>10. s * m \in Nat \ {0} /\ d * (s * m) \in Int /\ MinTrade * (s * m) \in Int
    BY <1>1, <1>3
  <1>11. MinTrade * (s * m) <= d * (s * m)
    <2>1. (b * MinAsk) * s \in Int /\ (b * c) * m \in Int
      BY <1>1, <1>3
    <2> QED BY <1>5, <1>6, <1>7, <1>8, <1>9, <1>10, <2>1
  <1>12. MinTrade <= d
    BY <1>1, <1>3, <1>10, <1>11, Cancels
  <1> QED BY <1>12 DEF d

\* The surplus of a split leaves between 80 and 100 percent for the core.
LEMMA CorePercent ==
  ASSUME NEW ratio \in Nat
  PROVE  100 - Entry!Least((Entry!Least(Entry!Most(ratio, 50), 70) - 50) * 2, 20) \in 80 .. 100
  BY DEF Entry!Least, Entry!Most

\* What a split of a budget b at the asks gives its two sides.
SplitOK(b, asks, legs) ==
  /\ legs \in [Entry!Sides -> Nat]
  /\ legs["UP"] + legs["DOWN"] <= b
  /\ \A side \in Entry!Sides :
       (legs[side] + 2) * (asks["UP"] + asks["DOWN"]) >= (b * 80 * asks[side]) \div 100
  /\ (Entry!EitherSideTrades(b) /\ \A side \in Entry!Sides : asks[side] >= MinAsk /\ asks[side] <= MaxAsk)
       => \A side \in Entry!Sides : legs[side] >= MinTrade

\* From a hundredfold inequality to the rounded one.
LEMMA RoundedDown ==
  ASSUME NEW x \in Nat, NEW y \in Nat, 100 * x >= y
  PROVE  x >= y \div 100
  OBVIOUS

\* The two legs of a split at different asks: a of the dearer side, c of the other.
LEMMA UnequalLegs ==
  ASSUME NEW b \in Nat, NEW k \in 80 .. 100, NEW a \in 1 .. 100, NEW c \in 1 .. 100
  PROVE  /\ DearOf(b, k, a, c) \in Nat /\ b - DearOf(b, k, a, c) \in Nat
         /\ (DearOf(b, k, a, c) + 2) * (a + c) >= (b * 80 * a) \div 100
         /\ (b - DearOf(b, k, a, c) + 2) * (a + c) >= (b * 80 * c) \div 100
  <1>1. /\ DearOf(b, k, a, c) \in Nat /\ DearOf(b, k, a, c) <= b
        /\ 100 * ((DearOf(b, k, a, c) + 2) * (a + c)) >= (b * 80) * a
    BY DearBounds, DearLeg
  <1>2. (b - DearOf(b, k, a, c)) * (a + c) >= b * c
    BY CheapLeg
  <1> DEFINE dear == DearOf(b, k, a, c)
             n    == a + c
             rest == b - dear
  <1>3. rest \in Nat /\ dear \in Nat /\ n \in Nat
    BY <1>1
  <1>4. 100 * ((dear + 2) * n) >= (b * 80) * a /\ rest * n >= b * c
    BY <1>1, <1>2
  <1>5. (b - dear + 2) * n = (rest + 2) * n
    BY <1>3
  <1> HIDE DEF dear, n, rest
  <1>6. (dear + 2) * n \in Nat /\ (rest + 2) * n \in Nat /\ rest * n \in Nat /\ b * c \in Nat
        /\ (b * 80) * a \in Nat /\ (b * 80) * c \in Nat
    BY <1>3
  <1>7. (rest + 2) * n = rest * n + 2 * n /\ (b * 80) * c = 80 * (b * c)
    BY <1>3
  <1>8. 100 * ((rest + 2) * n) >= (b * 80) * c
    BY <1>3, <1>4, <1>6, <1>7
  <1>9. (dear + 2) * n >= ((b * 80) * a) \div 100
    BY <1>4, <1>6, RoundedDown
  <1>10. (rest + 2) * n >= ((b * 80) * c) \div 100
    BY <1>6, <1>8, RoundedDown
  <1> QED BY <1>1, <1>3, <1>5, <1>9, <1>10 DEF dear, n, rest

\* The two halves of a split at equal asks.
LEMMA EqualLegs ==
  ASSUME NEW b \in Nat, NEW a \in 1 .. 100
  PROVE  /\ b \div 2 \in Nat /\ b \div 2 + b \div 2 <= b
         /\ (b \div 2 + 2) * (a + a) >= (b * 80 * a) \div 100
         /\ Entry!EitherSideTrades(b) => b \div 2 >= MinTrade
  <1> DEFINE h == b \div 2
  <1>1. h \in Nat /\ 2 * h <= b /\ b <= 2 * h + 1
    OBVIOUS
  <1>2. Entry!EitherSideTrades(b) => 2 * b >= 5 * MinTrade
    BY DEF Entry!EitherSideTrades
  <1> HIDE DEF h
  <1>3. (h + 2) * (a + a) = (2 * h + 4) * a
    BY <1>1
  <1>4. b * a <= (2 * h + 4) * a /\ b * a \in Nat /\ (2 * h + 4) * a \in Nat
    BY <1>1
  <1>5. (b * 80) * a = 80 * (b * a)
    BY <1>1
  <1>6. 100 * ((2 * h + 4) * a) >= (b * 80) * a /\ (b * 80) * a \in Nat
    BY <1>4, <1>5
  <1>7. (2 * h + 4) * a >= ((b * 80) * a) \div 100
    BY <1>4, <1>6, RoundedDown
  <1>8. Entry!EitherSideTrades(b) => h >= MinTrade
    BY <1>1, <1>2, EntryConstants
  <1>9. h + h <= b
    BY <1>1
  <1> QED BY <1>1, <1>3, <1>7, <1>8, <1>9 DEF h

\* The dearer side is the one with the higher ask, UP on a tie.
LEMMA DearerSide ==
  ASSUME NEW asks \in [Entry!Sides -> 0 .. 100]
  PROVE  Entry!Dearer(asks) = IF asks["UP"] < asks["DOWN"] THEN "DOWN" ELSE "UP"
  BY DEF Entry!Dearer, Entry!Cheaper, Entry!Sides

\* allocate_entry_usd keeps the core on either side and never splits more than the budget.
LEMMA SplitLegs ==
  ASSUME NEW b \in Nat, NEW asks \in [Entry!Sides -> 1 .. 100], NEW ratio \in Nat
  PROVE  SplitOK(b, asks, Entry!Split(b, asks, ratio))
  <1> DEFINE surplus == Entry!Least((Entry!Least(Entry!Most(ratio, 50), 70) - 50) * 2, 20)
             k       == 100 - surplus
             up      == asks["UP"]
             down    == asks["DOWN"]
             legs    == Entry!Split(b, asks, ratio)
  <1>1. k \in 80 .. 100
    BY CorePercent
  <1>2. up \in 1 .. 100 /\ down \in 1 .. 100
    BY DEF Entry!Sides
  <1>3. Entry!Sides = {"UP", "DOWN"} /\ asks["UP"] = up /\ asks["DOWN"] = down
    BY DEF Entry!Sides
  <1>4. Entry!Dearer(asks) = IF up < down THEN "DOWN" ELSE "UP"
    BY DearerSide
  <1>5. up = down => legs = [side \in Entry!Sides |-> b \div 2]
    BY DEF Entry!Split
  <1>6. up # down => legs = [side \in Entry!Sides |->
                               IF side = Entry!Dearer(asks)
                               THEN (((b * k) \div 100) * asks[Entry!Dearer(asks)]) \div (up + down)
                               ELSE b - (((b * k) \div 100) * asks[Entry!Dearer(asks)]) \div (up + down)]
    BY DEF Entry!Split
  <1> HIDE DEF k, surplus, legs, up, down
  <1>7. CASE up = down
    <2>1. legs["UP"] = b \div 2 /\ legs["DOWN"] = b \div 2 /\ legs = [side \in Entry!Sides |-> b \div 2]
      BY <1>3, <1>5, <1>7
    <2>2. /\ b \div 2 \in Nat /\ b \div 2 + b \div 2 <= b
          /\ (b \div 2 + 2) * (up + up) >= (b * 80 * up) \div 100
          /\ Entry!EitherSideTrades(b) => b \div 2 >= MinTrade
      BY <1>2, EqualLegs
    <2> DEFINE h == b \div 2
    <2> HIDE DEF h
    <2>3. legs \in [Entry!Sides -> Nat]
      BY <2>1, <2>2
    <2>4. legs["UP"] + legs["DOWN"] <= b
      BY <2>1, <2>2
    <2>5. \A side \in Entry!Sides : (legs[side] + 2) * (up + down) >= (b * 80 * asks[side]) \div 100
      <3>1. (legs["UP"] + 2) * (up + down) >= (b * 80 * asks["UP"]) \div 100
        BY <1>3, <1>7, <2>1, <2>2
      <3>2. (legs["DOWN"] + 2) * (up + down) >= (b * 80 * asks["DOWN"]) \div 100
        BY <1>3, <1>7, <2>1, <2>2
      <3> QED BY <1>3, <3>1, <3>2
    <2>6. Entry!EitherSideTrades(b) => \A side \in Entry!Sides : legs[side] >= MinTrade
      BY <1>3, <2>1, <2>2
    <2> QED BY <1>3, <2>3, <2>4, <2>5, <2>6 DEF SplitOK, legs
  <1>8. CASE up > down
    <2>1. /\ legs["UP"] = DearOf(b, k, up, down) /\ legs["DOWN"] = b - DearOf(b, k, up, down)
          /\ DOMAIN legs = Entry!Sides /\ legs = [side \in Entry!Sides |-> legs[side]]
      BY <1>2, <1>3, <1>4, <1>6, <1>8 DEF DearOf, CoreOf
    <2>2. /\ DearOf(b, k, up, down) \in Nat /\ b - DearOf(b, k, up, down) \in Nat
          /\ (DearOf(b, k, up, down) + 2) * (up + down) >= (b * 80 * up) \div 100
          /\ (b - DearOf(b, k, up, down) + 2) * (up + down) >= (b * 80 * down) \div 100
      BY <1>1, <1>2, UnequalLegs
    <2>3. ASSUME Entry!EitherSideTrades(b), MinAsk <= down, up <= MaxAsk
          PROVE  DearOf(b, k, up, down) >= MinTrade /\ b - DearOf(b, k, up, down) >= MinTrade
      <3>1. down <= up
        BY <1>2, <1>8
      <3>2. DearOf(b, k, up, down) >= MinTrade
        BY <1>1, <1>2, <2>3, <3>1, DearTrades
      <3>3. b - DearOf(b, k, up, down) >= MinTrade
        BY <1>1, <1>2, <2>3, CheapTrades
      <3> QED BY <3>2, <3>3
    <2> QED BY <1>3, <2>1, <2>2, <2>3 DEF SplitOK, legs
  <1>9. CASE up < down
    <2>1. /\ legs["DOWN"] = DearOf(b, k, down, up) /\ legs["UP"] = b - DearOf(b, k, down, up)
          /\ DOMAIN legs = Entry!Sides /\ legs = [side \in Entry!Sides |-> legs[side]]
      <3>1. up + down = down + up
        BY <1>2
      <3> QED BY <1>2, <1>3, <1>4, <1>6, <1>9, <3>1 DEF DearOf, CoreOf
    <2>2. /\ DearOf(b, k, down, up) \in Nat /\ b - DearOf(b, k, down, up) \in Nat
          /\ (DearOf(b, k, down, up) + 2) * (down + up) >= (b * 80 * down) \div 100
          /\ (b - DearOf(b, k, down, up) + 2) * (down + up) >= (b * 80 * up) \div 100
      BY <1>1, <1>2, UnequalLegs
    <2>3. ASSUME Entry!EitherSideTrades(b), MinAsk <= up, down <= MaxAsk
          PROVE  DearOf(b, k, down, up) >= MinTrade /\ b - DearOf(b, k, down, up) >= MinTrade
      <3>1. up <= down
        BY <1>2, <1>9
      <3>2. DearOf(b, k, down, up) >= MinTrade
        BY <1>1, <1>2, <2>3, <3>1, DearTrades
      <3>3. b - DearOf(b, k, down, up) >= MinTrade
        BY <1>1, <1>2, <2>3, CheapTrades
      <3> QED BY <3>2, <3>3
    <2>4. up + down = down + up
      BY <1>2
    <2> QED BY <1>3, <2>1, <2>2, <2>3, <2>4 DEF SplitOK, legs
  <1> QED BY <1>2, <1>7, <1>8, <1>9

\* Everything of the entry that the quotes, the clock and the forecast leave alone.
Booked == <<spent, cost, status, next_status, entered, entry>>

\* A step that books nothing keeps the facts about what is booked.
LEMMA NothingBooked ==
  ASSUME EntryInv, UNCHANGED Booked, Entry!TypeOK', requests' = IF attempted' THEN 1 ELSE 0
  PROVE  EntryInv'
  <1>1. Entry!LiveMeansPaid' /\ Entry!EntryWithinBudget'
    BY DEF EntryInv, Booked, Entry!LiveMeansPaid, Entry!EntryWithinBudget
  <1>2. Entry!PairedFloor'
    <2>1. Entry!PairedFloor
      BY DEF EntryInv
    <2> QED BY <2>1, Zenon DEF Booked, Entry!PairedFloor, Entry!EitherSideTrades, Entry!Sides
  <1> QED BY <1>1, <1>2 DEF EntryInv, Booked, Entry!NoEntry, Entry!Sides

LEMMA EntryStart ==
  ASSUME Entry!Init
  PROVE  EntryInv
  <1> USE DEF Entry!Init, Entry!NoEntry, Entry!Sides
  <1>1. Entry!TypeOK
    <2>1. secs \in Entry!Least(-1, Latest - LlmTimeout) .. (Earliest + 1)
      BY EntryConstants DEF Entry!Least
    <2>2. ask \in [Entry!Sides -> Asks] /\ cost \in [Entry!Sides -> Nat]
      BY EntryConstants
    <2>3. cash \in Nat /\ equity \in Nat /\ spent \in Nat /\ requests \in Nat
      BY EntryConstants
    <2> QED BY <2>1, <2>2, <2>3 DEF Entry!TypeOK
  <1>2. Entry!LiveMeansPaid /\ Entry!EntryWithinBudget /\ Entry!PairedFloor
    BY EntryConstants DEF Entry!LiveMeansPaid, Entry!EntryWithinBudget, Entry!PairedFloor
  <1> QED BY <1>1, <1>2 DEF EntryInv

\* What an accepted entry buys: both legs within the budget, each if it is large enough.
LEMMA LegsWithinBudget ==
  ASSUME Entry!TypeOK, Entry!Accepts, NEW signal \in Entry!Signals
  PROVE  LET budget == Entry!Budget(signal.multiplier)
             legs   == Entry!Legs(budget, ask, signal)
         IN  /\ budget \in 0 .. MaxBudget
             /\ legs \in [Entry!Sides -> Nat] /\ legs["UP"] + legs["DOWN"] <= budget
             /\ signal.mode = "both" /\ budget # 0 => SplitOK(budget, ask, legs)
  <1> DEFINE budget == Entry!Budget(signal.multiplier)
             legs   == Entry!Legs(budget, ask, signal)
  <1> SUFFICES /\ budget \in 0 .. MaxBudget
               /\ legs \in [Entry!Sides -> Nat] /\ legs["UP"] + legs["DOWN"] <= budget
               /\ signal.mode = "both" /\ budget # 0 => SplitOK(budget, ask, legs)
    OBVIOUS
  <1>1. /\ signal.multiplier \in 0 .. 100 /\ signal.ratio \in Nat
        /\ signal.mode \in {"both", "UP", "DOWN"}
    BY EntryConstants DEF Entry!Signals, Entry!Sides
  <1>2. budget \in 0 .. MaxBudget
    BY <1>1, BudgetBounded DEF Entry!TypeOK
  <1>3. ask \in [Entry!Sides -> 1 .. 100]
    <2>1. ask \in [Entry!Sides -> 0 .. 100]
      BY EntryConstants DEF Entry!TypeOK
    <2>2. \A side \in Entry!Sides : ask[side] > 0
      BY DEF Entry!Accepts
    <2>3. \A side \in Entry!Sides : ask[side] \in 1 .. 100
      BY <2>1, <2>2
    <2> QED BY <2>1, <2>3
  <1> HIDE DEF budget
  <1>4. budget \in Nat
    BY <1>2, EntryConstants
  <1>5. Entry!Sides = {"UP", "DOWN"}
    BY DEF Entry!Sides
  <1>6. CASE budget = 0
    BY <1>2, <1>4, <1>5, <1>6 DEF Entry!Legs
  <1>7. CASE budget # 0 /\ signal.mode = "both"
    <2>1. legs = Entry!Split(budget, ask, signal.ratio)
      BY <1>7 DEF Entry!Legs
    <2>2. SplitOK(budget, ask, legs)
      BY <1>1, <1>3, <1>4, <2>1, SplitLegs
    <2> QED BY <1>2, <2>2 DEF SplitOK
  <1>8. CASE budget # 0 /\ signal.mode \in {"UP", "DOWN"}
    <2>1. legs = [side \in {"UP", "DOWN"} |-> IF side = signal.mode THEN budget ELSE 0]
      BY <1>5, <1>8 DEF Entry!Legs
    <2> QED BY <1>2, <1>4, <1>5, <1>8, <2>1
  <1> QED BY <1>1, <1>6, <1>7, <1>8

\* An entry that is made: nothing was booked before, the two buys are within the
\* budget and the cash, and a budget on both sides that either can trade buys both.
LEMMA EntryMade ==
  ASSUME EntryInv, next_status = "WAITING_ENTRY", Entry!Accepts,
         NEW signal \in Entry!Signals, Entry!Enter(signal)
  PROVE  /\ cash' \in Nat /\ equity' \in Nat /\ spent' \in Nat /\ cost' \in [Entry!Sides -> Nat]
         /\ next_status' = status'
         /\ \/ status' = "WAITING_ENTRY" /\ spent' = 0
            \/ status' = "ENTERED_PRE_START" /\ spent' > 0
         /\ Entry!EntryWithinBudget' /\ Entry!PairedFloor'
  <1> DEFINE budget == Entry!Budget(signal.multiplier)
             legs   == Entry!Legs(budget, ask, signal)
             paidNow == Entry!AfterBuys(legs)
             total   == paidNow["UP"] + paidNow["DOWN"]
             asked   == legs["UP"] + legs["DOWN"] > 0 /\ cash >= legs["UP"] + legs["DOWN"]
  <1>1. /\ Entry!TypeOK /\ spent = 0 /\ entry = Entry!NoEntry /\ ~entered
        /\ status = "WAITING_ENTRY" /\ cost = [side \in Entry!Sides |-> 0]
    BY Zenon DEF EntryInv, Entry!Accepts
  <1>2. cash \in Nat /\ equity \in Nat
    BY <1>1 DEF Entry!TypeOK
  <1>3. /\ budget \in 0 .. MaxBudget
        /\ legs \in [Entry!Sides -> Nat] /\ legs["UP"] + legs["DOWN"] <= budget
        /\ signal.mode = "both" /\ budget # 0 => SplitOK(budget, ask, legs)
    BY <1>1, LegsWithinBudget
  <1>4. Entry!Sides = {"UP", "DOWN"}
    BY DEF Entry!Sides
  <1>5. IF asked
        THEN /\ cash' = cash - total /\ equity' = equity /\ spent' = spent + total
             /\ cost' = [side \in Entry!Sides |-> cost[side] + paidNow[side]]
             /\ status' = IF total > 0 THEN "ENTERED_PRE_START" ELSE status
             /\ next_status' = status'
             /\ entry' = [budget |-> budget, ask |-> ask, mode |-> signal.mode]
        ELSE UNCHANGED <<cash, equity, spent, cost, status, next_status, entry>>
    BY DEF Entry!Enter, Entry!CopyOf
  <1>6. paidNow = [side \in Entry!Sides |->
                     IF side = "UP"
                     THEN IF legs["UP"] >= MinTrade /\ cash >= legs["UP"] THEN legs["UP"] ELSE 0
                     ELSE IF legs["DOWN"] >= MinTrade
                             /\ cash - (IF legs["UP"] >= MinTrade /\ cash >= legs["UP"]
                                        THEN legs["UP"] ELSE 0) >= legs["DOWN"]
                          THEN legs["DOWN"] ELSE 0]
    BY DEF Entry!AfterBuys, Entry!Bought
  <1> HIDE DEF budget, legs
  <1>7. legs["UP"] \in Nat /\ legs["DOWN"] \in Nat
    BY <1>3, <1>4
  <1>8. /\ paidNow["UP"] = IF legs["UP"] >= MinTrade /\ cash >= legs["UP"] THEN legs["UP"] ELSE 0
        /\ paidNow["DOWN"] = IF legs["DOWN"] >= MinTrade /\ cash - paidNow["UP"] >= legs["DOWN"]
                             THEN legs["DOWN"] ELSE 0
    BY <1>4, <1>6
  <1> HIDE DEF paidNow
  <1>9. /\ paidNow["UP"] \in Nat /\ paidNow["DOWN"] \in Nat
        /\ paidNow["UP"] <= legs["UP"] /\ paidNow["DOWN"] <= legs["DOWN"]
    BY <1>7, <1>8
  <1>10. CASE ~asked
    <2>1. UNCHANGED <<cash, equity, spent, cost, status, next_status, entry>>
      BY <1>5, <1>10
    <2>2. Entry!EntryWithinBudget' /\ Entry!PairedFloor'
      BY <1>1, <2>1, EntryConstants DEF Entry!EntryWithinBudget, Entry!PairedFloor, Entry!NoEntry
    <2> QED BY <1>1, <1>2, <2>1, <2>2 DEF Entry!TypeOK
  <1>11. CASE asked
    <2>1. total \in Nat /\ total <= budget /\ total <= cash /\ budget \in 0 .. MaxBudget
      BY <1>2, <1>3, <1>7, <1>9, <1>11, EntryConstants
    <2>2. /\ cash' = cash - total /\ equity' = equity /\ spent' = total
          /\ cost' = [side \in Entry!Sides |-> cost[side] + paidNow[side]]
          /\ status' = IF total > 0 THEN "ENTERED_PRE_START" ELSE "WAITING_ENTRY"
          /\ next_status' = status'
          /\ entry' = [budget |-> budget, ask |-> ask, mode |-> signal.mode]
      BY <1>1, <1>5, <1>11, <2>1
    <2>3. cost'["UP"] = paidNow["UP"] /\ cost'["DOWN"] = paidNow["DOWN"]
          /\ cost' \in [Entry!Sides -> Nat]
      <3>1. \A side \in Entry!Sides : cost[side] + paidNow[side] \in Nat
                                      /\ cost[side] + paidNow[side] = paidNow[side]
        BY <1>1, <1>4, <1>9
      <3> QED BY <1>4, <2>2, <3>1
    <2>4. cash' \in Nat /\ equity' \in Nat /\ spent' \in Nat
      BY <1>2, <2>1, <2>2
    <2>5. \/ status' = "WAITING_ENTRY" /\ spent' = 0
          \/ status' = "ENTERED_PRE_START" /\ spent' > 0
      BY <2>1, <2>2
    <2>6. /\ entry'.budget = budget /\ entry'.ask = ask /\ entry'.mode = signal.mode
      BY <2>2
    <2>7. Entry!EntryWithinBudget'
      BY <2>1, <2>2, <2>6, EntryConstants DEF Entry!EntryWithinBudget
    <2>8. Entry!PairedFloor'
      <3> SUFFICES ASSUME entry'.mode = "both", spent' > 0, Entry!EitherSideTrades(entry'.budget)
                   PROVE  \A side \in Entry!Sides :
                            (cost'[side] + 2) * (entry'.ask["UP"] + entry'.ask["DOWN"])
                              >= (entry'.budget * 80 * entry'.ask[side]) \div 100
        BY DEF Entry!PairedFloor
      <3>1. SplitOK(budget, ask, legs)
        <4>1. budget # 0
          BY <1>3, <1>7, <1>11, EntryConstants
        <4> QED BY <1>3, <2>6, <4>1
      <3>2. \A side \in Entry!Sides : legs[side] >= MinTrade
        <4>1. \A side \in Entry!Sides : ask[side] >= MinAsk /\ ask[side] <= MaxAsk
          BY DEF Entry!Accepts
        <4>2. Entry!EitherSideTrades(budget)
          BY <2>6
        <4> QED BY <3>1, <4>1, <4>2 DEF SplitOK
      <3>3. legs["UP"] >= MinTrade /\ legs["DOWN"] >= MinTrade
        BY <1>4, <3>2
      <3>4. cost'["UP"] = legs["UP"] /\ cost'["DOWN"] = legs["DOWN"]
        BY <1>2, <1>7, <1>8, <1>11, <2>3, <3>3, EntryConstants
      <3>5. \A side \in Entry!Sides : cost'[side] = legs[side]
        BY <1>4, <3>4
      <3>6. \A side \in Entry!Sides :
              (legs[side] + 2) * (ask["UP"] + ask["DOWN"]) >= (budget * 80 * ask[side]) \div 100
        BY <3>1 DEF SplitOK
      <3> QED BY <2>6, <3>5, <3>6, Zenon
    <2> QED BY <2>2, <2>3, <2>4, <2>5, <2>7, <2>8
  <1> QED BY <1>10, <1>11

\* monitor_time with its forecast and its entry.
LEMMA MonitorStep ==
  ASSUME EntryInv, Entry!Monitor
  PROVE  EntryInv'
  <1>1. /\ Entry!TypeOK /\ next_status = "WAITING_ENTRY" /\ requests = IF attempted THEN 1 ELSE 0
        /\ secs \in Latest .. Earliest
    BY EntryConstants DEF EntryInv, Entry!Monitor, Entry!Asked, Entry!InCorridor, Entry!TypeOK, Entry!Least
  <1>2. /\ attempted' = (attempted \/ Entry!ForecastDue)
        /\ requests' = requests + (IF Entry!ForecastDue THEN 1 ELSE 0)
        /\ UNCHANGED <<ask, volatile, shutdown_pending>>
    BY Zenon DEF Entry!Monitor
  <1>3. Entry!ForecastDue => ~attempted
    BY Zenon DEF Entry!ForecastDue
  <1>4. attempted' \in BOOLEAN /\ requests' = (IF attempted' THEN 1 ELSE 0) /\ requests' \in Nat
    <2>1. attempted \in BOOLEAN
      BY <1>1, Zenon DEF Entry!TypeOK
    <2>2. CASE Entry!ForecastDue
      <3>1. (attempted' <=> TRUE) /\ attempted' \in BOOLEAN /\ ~attempted
        BY <1>2, <1>3, <2>2, Zenon
      <3>2. requests' = requests + 1
        BY <1>2, <2>2
      <3>3. requests = 0
        BY <1>1, <3>1
      <3> QED BY <3>1, <3>2, <3>3
    <2>3. CASE ~Entry!ForecastDue
      <3>1. (attempted' <=> attempted) /\ attempted' \in BOOLEAN
        BY <1>2, <2>1, <2>3, Zenon
      <3> QED BY <1>1, <1>2, <2>3, <3>1
    <2> QED BY <2>2, <2>3
  <1>5. secs' \in Entry!Least(-1, Latest - LlmTimeout) .. (Earliest + 1)
    <2>1. PICK took \in IF Entry!ForecastDue THEN 0 .. LlmTimeout ELSE {0} : secs' = secs - took
      BY Zenon DEF Entry!Monitor
    <2>2. took \in 0 .. LlmTimeout
      BY <2>1, EntryConstants
    <2> QED BY <1>1, <2>1, <2>2, EntryConstants DEF Entry!Least
  <1>6. CASE Entry!Accepts
    <2>1. entered' = TRUE /\ \E signal \in Entry!Signals : Entry!Enter(signal)
      BY <1>6, Zenon DEF Entry!Monitor
    <2>2. PICK signal \in Entry!Signals : Entry!Enter(signal)
      BY <2>1, Zenon
    <2>3. /\ cash' \in Nat /\ equity' \in Nat /\ spent' \in Nat /\ cost' \in [Entry!Sides -> Nat]
          /\ next_status' = status'
          /\ \/ status' = "WAITING_ENTRY" /\ spent' = 0
             \/ status' = "ENTERED_PRE_START" /\ spent' > 0
          /\ Entry!EntryWithinBudget' /\ Entry!PairedFloor'
      BY <1>1, <1>6, <2>2, EntryMade
    <2>4. ask' \in [Entry!Sides -> Asks] /\ volatile' \in BOOLEAN /\ shutdown_pending' \in BOOLEAN
      BY <1>1, <1>2, Zenon DEF Entry!TypeOK
    <2>5. entered' \in BOOLEAN
      BY <2>1, Zenon
    <2>6. Entry!TypeOK'
      BY <1>4, <1>5, <2>3, <2>4, <2>5 DEF Entry!TypeOK, Entry!Least
    <2>7. next_status' # "none"
      BY <2>3
    <2>8. Entry!LiveMeansPaid'
      BY <2>7 DEF Entry!LiveMeansPaid
    <2> QED BY <1>4, <2>1, <2>3, <2>6, <2>7, <2>8 DEF EntryInv
  <1>7. CASE ~Entry!Accepts
    <2>1. UNCHANGED <<cash, equity, spent, cost, status, next_status, entered, entry>>
      BY <1>7, Zenon DEF Entry!Monitor
    <2>2. Entry!TypeOK'
      BY <1>1, <1>2, <1>4, <1>5, <2>1 DEF Entry!TypeOK, Entry!Least
    <2> QED BY <1>4, <2>1, <2>2, NothingBooked DEF Booked
  <1> QED BY <1>6, <1>7

\* promote_next_to_current: the loop's copy decides, and it is the ledger's.
LEMMA PromoteStep ==
  ASSUME EntryInv, Entry!Promote
  PROVE  EntryInv'
  <1>1. /\ Entry!TypeOK /\ next_status \in {"WAITING_ENTRY", "ENTERED_PRE_START"}
        /\ next_status = "WAITING_ENTRY" => spent = 0
        /\ next_status = "ENTERED_PRE_START" => spent > 0
    BY DEF EntryInv, Entry!Promote
  <1>2. /\ status' = IF next_status = "ENTERED_PRE_START" THEN "LIVE" ELSE "SKIPPED"
        /\ next_status' = "none"
        /\ UNCHANGED <<secs, ask, volatile, shutdown_pending, cash, equity, spent,
                       cost, entered, attempted, requests, entry>>
    BY DEF Entry!Promote
  <1>3. Entry!TypeOK'
    BY <1>1, <1>2 DEF Entry!TypeOK, Entry!Least
  <1>4. Entry!LiveMeansPaid'
    BY <1>1, <1>2, <1>3 DEF Entry!LiveMeansPaid, Entry!TypeOK
  <1>5. Entry!EntryWithinBudget'
    BY <1>2 DEF EntryInv, Entry!EntryWithinBudget
  <1>6. Entry!PairedFloor'
    <2>1. Entry!PairedFloor /\ UNCHANGED <<cost, spent, entry>>
      BY <1>2 DEF EntryInv
    <2> QED BY <2>1, Zenon DEF Entry!PairedFloor, Entry!EitherSideTrades, Entry!Sides
  <1> QED BY <1>2, <1>3, <1>4, <1>5, <1>6 DEF EntryInv, Entry!NoEntry, Entry!Sides

LEMMA EntryStep ==
  ASSUME EntryInv, Entry!Next
  PROVE  EntryInv'
  <1>1. Entry!TypeOK /\ requests = IF attempted THEN 1 ELSE 0
    BY DEF EntryInv
  <1>2. CASE Entry!PassTime
    <2>1. /\ secs > -1 /\ secs' = secs - 1
          /\ UNCHANGED <<ask, volatile, shutdown_pending, cash, equity, spent, cost,
                         status, next_status, entered, attempted, requests, entry>>
      BY <1>2 DEF Entry!PassTime
    <2>2. secs' \in Entry!Least(-1, Latest - LlmTimeout) .. (Earliest + 1)
      BY <1>1, <2>1, EntryConstants DEF Entry!TypeOK, Entry!Least
    <2>3. Entry!TypeOK'
      BY <1>1, <2>1, <2>2 DEF Entry!TypeOK, Entry!Least
    <2> QED BY <1>1, <2>1, <2>3, NothingBooked DEF Booked
  <1>3. CASE Entry!Quote
    <2>1. PICK up \in Asks, down \in Asks :
            ask' = [side \in Entry!Sides |-> IF side = "UP" THEN up ELSE down]
      BY <1>3 DEF Entry!Quote
    <2>2. UNCHANGED <<secs, volatile, shutdown_pending, cash, equity, spent, cost,
                      status, next_status, entered, attempted, requests, entry>>
      BY <1>3 DEF Entry!Quote
    <2>3. Entry!TypeOK'
      BY <1>1, <2>1, <2>2 DEF Entry!TypeOK, Entry!Least
    <2> QED BY <1>1, <2>2, <2>3, NothingBooked DEF Booked
  <1>4. CASE Entry!Elsewhere
    <2>1. UNCHANGED <<secs, ask, spent, cost, status, next_status, entered,
                      attempted, requests, entry>>
      BY <1>4 DEF Entry!Elsewhere
    <2>2. cash' \in Nat /\ equity' \in Nat
      BY <1>1, <1>4, EntryConstants DEF Entry!Elsewhere, Entry!TypeOK
    <2>3. volatile' \in BOOLEAN /\ shutdown_pending' \in BOOLEAN
      BY <1>1, <1>4, Zenon DEF Entry!Elsewhere, Entry!TypeOK
    <2>4. Entry!TypeOK'
      BY <1>1, <2>1, <2>2, <2>3 DEF Entry!TypeOK, Entry!Least
    <2> QED BY <1>1, <2>1, <2>4, NothingBooked DEF Booked
  <1> QED BY <1>2, <1>3, <1>4, MonitorStep, PromoteStep DEF Entry!Next

-----------------------------------------------------------------------------
(* The exits of strategies A, B and C                                      *)

\* A ladder has all of a side until its first step.
ExitsInv ==
  /\ Exits!TypeOK /\ Exits!SoldLeavesNothing /\ Exits!LadderKeepsHalf
  /\ strategy = "asymmetric_ladder" =>
       \A side \in Exits!Sides :
         ~sold[side] /\ steps_hit[side] = 0 => shares[side] = initial_shares[side]

\* The facts on the constants that the proofs about the exits use.
LEMMA ExitConstants ==
  /\ Strategies \subseteq {"simple_both", "asymmetric_ladder", "dynamic_breakeven"}
  /\ Ladders \subseteq BOOLEAN
  /\ ExitDuration \in Nat \ {0} /\ ExitMoments \subseteq 0 .. ExitDuration
  /\ ExitDuration \in ExitMoments
  /\ Bids \subseteq 0 .. 100 /\ Shares \subseteq Nat \ {0}
  /\ EntryAsk \in Nat /\ ExitBid \in Nat /\ SlippageBuffer \in Nat
  /\ \A n \in Shares : n % 2 = 0
  /\ StrongSteps \in Seq(0 .. 100) /\ WeakSteps \in Seq(0 .. 100)
  BY InstancesSound DEF Exits!ExitAssumption

\* The ledger sells an amount of each side as far as it goes.
LEMMA SaleOf ==
  ASSUME shares \in [Exits!Sides -> Nat], cash_returned \in Nat,
         NEW bids \in [Exits!Sides -> Bids], NEW amounts \in [Exits!Sides -> Nat],
         Exits!Sold(amounts, bids)
  PROVE  /\ shares' \in [Exits!Sides -> Nat] /\ cash_returned' \in Nat
         /\ UNCHANGED <<initial_shares, paid>>
         /\ \A side \in Exits!Sides :
              /\ amounts[side] >= shares[side] => shares'[side] = 0
              /\ amounts[side] <= shares[side] => shares'[side] = shares[side] - amounts[side]
         /\ (\A side \in Exits!Sides : amounts[side] <= shares[side])
              => cash_returned' = cash_returned + amounts["UP"] * bids["UP"] + amounts["DOWN"] * bids["DOWN"]
  <1> DEFINE taken == [side \in Exits!Sides |->
                         IF amounts[side] < shares[side] THEN amounts[side] ELSE shares[side]]
  <1>1. Exits!Sides = {"UP", "DOWN"}
    BY DEF Exits!Sides
  <1>2. /\ shares' = [side \in Exits!Sides |-> shares[side] - taken[side]]
        /\ cash_returned' = cash_returned + taken["UP"] * bids["UP"] + taken["DOWN"] * bids["DOWN"]
        /\ UNCHANGED <<initial_shares, paid>>
    BY DEF Exits!Sold
  <1>3. \A side \in Exits!Sides :
          /\ taken[side] \in Nat /\ taken[side] <= shares[side]
          /\ amounts[side] >= shares[side] => taken[side] = shares[side]
          /\ amounts[side] <= shares[side] => taken[side] = amounts[side]
    OBVIOUS
  <1> HIDE DEF taken
  <1>4. shares' \in [Exits!Sides -> Nat]
    BY <1>2, <1>3
  <1>5. cash_returned' \in Nat
    <2>1. taken["UP"] \in Nat /\ taken["DOWN"] \in Nat /\ bids["UP"] \in Nat /\ bids["DOWN"] \in Nat
      <3>1. bids["UP"] \in Bids /\ bids["DOWN"] \in Bids
        BY <1>1
      <3>a. Bids \subseteq 0 .. 100
        BY ExitConstants, Zenon
      <3>b. bids["UP"] \in 0 .. 100 /\ bids["DOWN"] \in 0 .. 100
        BY <3>1, <3>a, Zenon
      <3>2. bids["UP"] \in Nat /\ bids["DOWN"] \in Nat
        BY <3>b
      <3> QED BY <1>1, <1>3, <3>2
    <2>2. taken["UP"] * bids["UP"] \in Nat /\ taken["DOWN"] * bids["DOWN"] \in Nat
      BY <2>1, Products
    <2> QED BY <1>2, <2>2
  <1>6. \A side \in Exits!Sides :
          /\ amounts[side] >= shares[side] => shares'[side] = 0
          /\ amounts[side] <= shares[side] => shares'[side] = shares[side] - amounts[side]
    BY <1>2, <1>3
  <1>7. (\A side \in Exits!Sides : amounts[side] <= shares[side])
          => taken["UP"] = amounts["UP"] /\ taken["DOWN"] = amounts["DOWN"]
    BY <1>1, <1>3
  <1> QED BY <1>2, <1>4, <1>5, <1>6, <1>7

\* The sale of whole sides: those are emptied, the others kept.
LEMMA WholeSale ==
  ASSUME shares \in [Exits!Sides -> Nat], cash_returned \in Nat,
         NEW bids \in [Exits!Sides -> Bids], NEW leaving \in SUBSET Exits!Sides,
         Exits!Sold(Exits!WholeOf(leaving), bids)
  PROVE  /\ shares' \in [Exits!Sides -> Nat] /\ cash_returned' \in Nat
         /\ UNCHANGED <<initial_shares, paid>>
         /\ \A side \in Exits!Sides :
              shares'[side] = IF side \in leaving THEN 0 ELSE shares[side]
         /\ cash_returned' = cash_returned
              + (IF "UP" \in leaving THEN shares["UP"] ELSE 0) * bids["UP"]
              + (IF "DOWN" \in leaving THEN shares["DOWN"] ELSE 0) * bids["DOWN"]
  <1> DEFINE amounts == [side \in Exits!Sides |-> IF side \in leaving THEN shares[side] ELSE 0]
  <1>1. Exits!WholeOf(leaving) = amounts
    BY DEF Exits!WholeOf
  <1>2. /\ amounts \in [Exits!Sides -> Nat]
        /\ \A side \in Exits!Sides : amounts[side] <= shares[side]
    OBVIOUS
  <1>3. \A side \in Exits!Sides : amounts[side] = IF side \in leaving THEN shares[side] ELSE 0
    OBVIOUS
  <1>a. "UP" \in Exits!Sides /\ "DOWN" \in Exits!Sides
    BY DEF Exits!Sides
  <1>4. /\ amounts["UP"] = IF "UP" \in leaving THEN shares["UP"] ELSE 0
        /\ amounts["DOWN"] = IF "DOWN" \in leaving THEN shares["DOWN"] ELSE 0
    BY <1>a
  <1> HIDE DEF amounts
  <1>5. /\ shares' \in [Exits!Sides -> Nat] /\ cash_returned' \in Nat
        /\ UNCHANGED <<initial_shares, paid>>
        /\ \A side \in Exits!Sides :
             /\ amounts[side] >= shares[side] => shares'[side] = 0
             /\ amounts[side] <= shares[side] => shares'[side] = shares[side] - amounts[side]
        /\ cash_returned' = cash_returned + amounts["UP"] * bids["UP"] + amounts["DOWN"] * bids["DOWN"]
    BY <1>1, <1>2, SaleOf
  <1>6. \A side \in Exits!Sides : shares'[side] = IF side \in leaving THEN 0 ELSE shares[side]
    BY <1>2, <1>3, <1>5
  <1> QED BY <1>4, <1>5, <1>6

\* The strategy's state of a side after its rules: the sides sold are empty.
LEMMA SalvagedSides ==
  ASSUME NEW bids
  PROVE  Exits!Salvaged(bids) \in SUBSET Exits!Sides
  BY DEF Exits!Salvaged

LEMMA FirstSide ==
  ASSUME NEW leaving \in SUBSET Exits!Sides, first_sold_side \in Exits!Sides \cup {"none"}
  PROVE  /\ Exits!FirstOf(leaving) \in Exits!Sides \cup {"none"}
         /\ leaving # {} /\ first_sold_side = "none" => Exits!FirstOf(leaving) \in leaving
         /\ leaving = {} => Exits!FirstOf(leaving) = first_sold_side
  BY DEF Exits!FirstOf, Exits!Sides

\* What a live tick of any of the three strategies leaves alone, and what it shows.
Shown(bids) == bids \in [Exits!Sides -> Bids] /\ bid' = bids /\ UNCHANGED <<strategy, decay, left>>

\* The facts about the state that every tick starts from.
LEMMA ExitFacts ==
  ASSUME ExitsInv
  PROVE  /\ shares \in [Exits!Sides -> Nat] /\ initial_shares \in [Exits!Sides -> Shares]
         /\ initial_shares \in [Exits!Sides -> Nat]
         /\ paid \in Nat /\ cash_returned \in Nat
         /\ sold \in [Exits!Sides -> BOOLEAN]
         /\ first_sold_side \in Exits!Sides \cup {"none"}
         /\ \A side \in Exits!Sides : sold[side] => shares[side] = 0
         /\ Exits!Sides = {"UP", "DOWN"}
  BY ExitConstants DEF ExitsInv, Exits!TypeOK, Exits!SoldLeavesNothing, Exits!Sides

\* The ladder of a side depends on the entry only.
LEMMA SameLadder ==
  ASSUME UNCHANGED initial_shares, NEW side
  PROVE  /\ Exits!StepsOf(side)' = Exits!StepsOf(side)
  BY DEF Exits!StepsOf, Exits!Strong

LEMMA LadderLength ==
  ASSUME NEW side
  PROVE  Len(Exits!StepsOf(side)) \in Nat
  BY ExitConstants DEF Exits!StepsOf

\* Strategy A sells whole sides.
LEMMA SimpleStep ==
  ASSUME ExitsInv, NEW bids, Shown(bids), Exits!SimpleTick(bids)
  PROVE  ExitsInv'
  <1> DEFINE leaving == Exits!Salvaged(bids) \cup Exits!SimpleExits(bids)
  <1>1. leaving \in SUBSET Exits!Sides /\ Exits!SimpleExits(bids) \in SUBSET Exits!Sides
    BY DEF Exits!Salvaged, Exits!SimpleExits
  <1>2. /\ Exits!Sold(Exits!WholeOf(leaving), bids)
        /\ sold' = [side \in Exits!Sides |-> sold[side] \/ side \in leaving]
        /\ first_sold_side' = Exits!FirstOf(Exits!SimpleExits(bids))
        /\ strategy = "simple_both" /\ UNCHANGED <<ptb_baseline, ptb_crossed, steps_hit>>
    BY DEF Exits!SimpleTick
  <1> HIDE DEF leaving
  <1>3. /\ shares' \in [Exits!Sides -> Nat] /\ cash_returned' \in Nat
        /\ UNCHANGED <<initial_shares, paid>>
        /\ \A side \in Exits!Sides :
             shares'[side] = IF side \in leaving THEN 0 ELSE shares[side]
    BY <1>1, <1>2, ExitFacts, WholeSale DEF Shown
  <1>4. sold' \in [Exits!Sides -> BOOLEAN]
    BY <1>2, ExitFacts
  <1>5. first_sold_side' \in Exits!Sides \cup {"none"}
    BY <1>1, <1>2, ExitFacts, FirstSide
  <1>6. \A side \in Exits!Sides : steps_hit'[side] \in 0 .. Len(Exits!StepsOf(side)')
    <2>1. \A side \in Exits!Sides : steps_hit[side] \in 0 .. Len(Exits!StepsOf(side))
      BY DEF ExitsInv, Exits!TypeOK
    <2> QED BY <1>2, <1>3, <2>1, SameLadder
  <1>7. Exits!TypeOK'
    <2>1. /\ strategy' \in {"simple_both", "asymmetric_ladder", "dynamic_breakeven"}
          /\ left' \in ExitMoments /\ initial_shares' \in [Exits!Sides -> Shares] /\ paid' \in Nat
          /\ ptb_baseline' \in {"none", "below", "above"} /\ ptb_crossed' \in BOOLEAN
      BY <1>2, <1>3 DEF Shown, ExitsInv, Exits!TypeOK
    <2> QED BY <1>3, <1>4, <1>5, <1>6, <2>1 DEF Exits!TypeOK, Exits!Sides
  <1>8. Exits!SoldLeavesNothing'
    <2> SUFFICES ASSUME NEW side \in Exits!Sides, sold'[side]
                 PROVE  shares'[side] = 0
      BY DEF Exits!SoldLeavesNothing, Exits!Sides
    <2>1. sold[side] \/ side \in leaving
      BY <1>2
    <2> QED BY <1>3, <2>1, ExitFacts
  <1>9. strategy' = "simple_both"
    BY <1>2 DEF Shown
  <1> QED BY <1>7, <1>8, <1>9 DEF ExitsInv, Exits!LadderKeepsHalf

\* The first leg of strategy C that a tick sells, and its second.
LEMMA FirstLeg ==
  ASSUME ExitsInv, NEW bids
  PROVE  Exits!FirstExits(bids) \in SUBSET Exits!Sides
  <1> DEFINE ready == {side \in Exits!Sides \ Exits!Salvaged(bids) :
                         bids[side] >= ExitBid /\ ~sold[side] /\ shares[side] > 0}
  <1>1. Exits!FirstExits(bids) = IF first_sold_side # "none" \/ ready = {} THEN {}
                                 ELSE {Exits!FirstOf(ready)}
    BY DEF Exits!FirstExits
  <1>2. ready \in SUBSET Exits!Sides
    OBVIOUS
  <1> HIDE DEF ready
  <1> QED BY <1>1, <1>2, ExitFacts, FirstSide

LEMMA SecondSide ==
  ASSUME ExitsInv, NEW bids
  PROVE  LET first == Exits!FirstOf(Exits!FirstExits(bids))
         IN  /\ first \in Exits!Sides \cup {"none"}
             /\ first # "none" => Exits!Other(first) \in Exits!Sides
  <1>1. Exits!FirstOf(Exits!FirstExits(bids)) \in Exits!Sides \cup {"none"}
    BY FirstLeg, ExitFacts, FirstSide
  <1> QED BY <1>1, ExitFacts DEF Exits!Other

\* The sides strategy C leaves on a tick.
LEMMA LeavingSides ==
  ASSUME ExitsInv, NEW bids, NEW spot
  PROVE  LET out    == Exits!Salvaged(bids) \cup Exits!FirstExits(bids)
             first  == Exits!FirstOf(Exits!FirstExits(bids))
             second == Exits!Other(first)
             open   == first # "none" /\ shares[second] > 0 /\ ~sold[second] /\ second \notin out
             even   == IF (open /\ Exits!CameBack(first, spot)) /\ Exits!EvenAt(second, bids)
                       THEN {second} ELSE {}
         IN  out \cup even \in SUBSET Exits!Sides
  BY FirstLeg, SecondSide, SalvagedSides

\* Strategy C sells whole sides too.
LEMMA BreakEvenStep ==
  ASSUME ExitsInv, NEW bids, NEW spot \in Exits!Places, Shown(bids), Exits!BreakEvenTick(bids, spot)
  PROVE  ExitsInv'
  <1> DEFINE out    == Exits!Salvaged(bids) \cup Exits!FirstExits(bids)
             first  == Exits!FirstOf(Exits!FirstExits(bids))
             second == Exits!Other(first)
             open   == first # "none" /\ shares[second] > 0 /\ ~sold[second] /\ second \notin out
             back   == open /\ Exits!CameBack(first, spot)
             even   == IF back /\ Exits!EvenAt(second, bids) THEN {second} ELSE {}
             leaving == out \cup even
  <1>1. /\ first \in Exits!Sides \cup {"none"}
        /\ leaving \in SUBSET Exits!Sides
    BY SecondSide, LeavingSides
  <1>5. /\ strategy = "dynamic_breakeven"
        /\ Exits!Sold(Exits!WholeOf(leaving), bids)
        /\ sold' = [side \in Exits!Sides |-> sold[side] \/ side \in leaving]
        /\ first_sold_side' = first
        /\ ptb_baseline' = IF open THEN Exits!Baseline(first, spot) ELSE ptb_baseline
        /\ ptb_crossed' = (ptb_crossed \/ back)
        /\ UNCHANGED steps_hit
    BY DEF Exits!BreakEvenTick
  <1> HIDE DEF out, first, second, open, back, even, leaving
  <1>6. /\ shares' \in [Exits!Sides -> Nat] /\ cash_returned' \in Nat
        /\ UNCHANGED <<initial_shares, paid>>
        /\ \A side \in Exits!Sides :
             shares'[side] = IF side \in leaving THEN 0 ELSE shares[side]
    BY <1>1, <1>5, ExitFacts, WholeSale DEF Shown
  <1>7. sold' \in [Exits!Sides -> BOOLEAN]
    BY <1>5, ExitFacts
  <1>8. first_sold_side' \in Exits!Sides \cup {"none"}
    BY <1>1, <1>5
  <1>9. \A side \in Exits!Sides : steps_hit'[side] \in 0 .. Len(Exits!StepsOf(side)')
    <2>1. \A side \in Exits!Sides : steps_hit[side] \in 0 .. Len(Exits!StepsOf(side))
      BY DEF ExitsInv, Exits!TypeOK
    <2> QED BY <1>5, <1>6, <2>1, SameLadder
  <1>10. ptb_baseline' \in {"none", "below", "above"} /\ ptb_crossed' \in BOOLEAN
    <2>1. ptb_baseline \in {"none", "below", "above"} /\ ptb_crossed \in BOOLEAN
      BY DEF ExitsInv, Exits!TypeOK
    <2>2. Exits!Baseline(first, spot) \in {"none", "below", "above"}
      BY <2>1 DEF Exits!Baseline, Exits!Favoured, Exits!Places
    <2>3. ptb_crossed' \in BOOLEAN
      BY <1>5, Zenon
    <2> QED BY <1>5, <2>1, <2>2, <2>3
  <1>11. Exits!TypeOK'
    <2>1. /\ strategy' \in {"simple_both", "asymmetric_ladder", "dynamic_breakeven"}
          /\ left' \in ExitMoments /\ initial_shares' \in [Exits!Sides -> Shares] /\ paid' \in Nat
      BY <1>6 DEF Shown, ExitsInv, Exits!TypeOK
    <2> QED BY <1>6, <1>7, <1>8, <1>9, <1>10, <2>1 DEF Exits!TypeOK, Exits!Sides
  <1>12. Exits!SoldLeavesNothing'
    <2> SUFFICES ASSUME NEW side \in Exits!Sides, sold'[side]
                 PROVE  shares'[side] = 0
      BY DEF Exits!SoldLeavesNothing, Exits!Sides
    <2>1. sold[side] \/ side \in leaving
      BY <1>5
    <2> QED BY <1>6, <2>1, ExitFacts
  <1>13. strategy' = "dynamic_breakeven"
    BY <1>5 DEF Shown
  <1> QED BY <1>11, <1>12, <1>13 DEF ExitsInv, Exits!LadderKeepsHalf

\* Strategy B sells whole sides in the last ticks and at the last step, and half of the
\* entry at the first of several.
LEMMA LadderStep ==
  ASSUME ExitsInv, NEW bids, Shown(bids), Exits!LadderTick(bids)
  PROVE  ExitsInv'
  <1> DEFINE saved    == Exits!Salvaged(bids)
             climbing == {side \in Exits!Sides : Exits!StepReached(side, bids)}
             amounts  == [side \in Exits!Sides |->
                            IF side \in saved THEN shares[side]
                            ELSE IF side \in climbing THEN Exits!StepAmount(side) ELSE 0]
  <1>1. climbing \in SUBSET Exits!Sides /\ saved \in SUBSET Exits!Sides
    BY SalvagedSides
  <1>2. \A side \in climbing : /\ ~sold[side] /\ side \notin saved
                               /\ steps_hit[side] < Len(Exits!StepsOf(side))
    BY DEF Exits!StepReached
  <1>3. /\ strategy = "asymmetric_ladder"
        /\ Exits!Sold(amounts, bids)
        /\ steps_hit' = [side \in Exits!Sides |->
                           steps_hit[side] + (IF side \in climbing THEN 1 ELSE 0)]
        /\ sold' = [side \in Exits!Sides |->
                      sold[side] \/ side \in saved \/ (side \in climbing /\ Exits!LastStep(side))]
        /\ first_sold_side' = Exits!FirstOf(climbing)
        /\ UNCHANGED <<ptb_baseline, ptb_crossed>>
    BY DEF Exits!LadderTick
  <1>4. \A side \in Exits!Sides :
          amounts[side] = IF side \in saved THEN shares[side]
                          ELSE IF side \in climbing THEN Exits!StepAmount(side) ELSE 0
    OBVIOUS
  <1> HIDE DEF saved, climbing
  <1>5. \A side \in Exits!Sides : /\ steps_hit[side] \in 0 .. Len(Exits!StepsOf(side))
                                  /\ Len(Exits!StepsOf(side)) \in Nat
    BY LadderLength DEF ExitsInv, Exits!TypeOK
  <1>6. \A side \in Exits!Sides :
          Exits!StepAmount(side) = IF steps_hit[side] = 0 /\ Len(Exits!StepsOf(side)) > 1
                                   THEN initial_shares[side] \div 2 ELSE shares[side]
    BY DEF Exits!StepAmount
  <1>7. \A side \in Exits!Sides : /\ initial_shares[side] \in Nat /\ initial_shares[side] % 2 = 0
                                  /\ initial_shares[side] > 0
                                  /\ shares[side] \in Nat
                                  /\ sold[side] => shares[side] = 0
                                  /\ ~sold[side] /\ steps_hit[side] = 0
                                       => shares[side] = initial_shares[side]
    <2>1. \A side \in Exits!Sides : initial_shares[side] \in Shares
      BY ExitFacts
    <2>2. \A side \in Exits!Sides : initial_shares[side] % 2 = 0 /\ initial_shares[side] \in Nat \ {0}
      BY <2>1, ExitConstants
    <2> QED BY <1>3, <2>2, ExitFacts DEF ExitsInv
  <1>8. \A side \in Exits!Sides : /\ Exits!StepAmount(side) \in Nat
                                  /\ side \in climbing => Exits!StepAmount(side) <= shares[side]
    BY <1>2, <1>6, <1>7
  <1>9. amounts \in [Exits!Sides -> Nat] /\ \A side \in Exits!Sides : amounts[side] <= shares[side]
    BY <1>7, <1>8
  <1> HIDE DEF amounts
  <1>10. /\ shares' \in [Exits!Sides -> Nat] /\ cash_returned' \in Nat
         /\ UNCHANGED <<initial_shares, paid>>
         /\ \A side \in Exits!Sides : shares'[side] = shares[side] - amounts[side]
    BY <1>3, <1>9, ExitFacts, SaleOf DEF Shown
  <1>11. \A side \in Exits!Sides : steps_hit'[side] \in 0 .. Len(Exits!StepsOf(side)')
    <2>1. \A side \in Exits!Sides : steps_hit'[side] \in 0 .. Len(Exits!StepsOf(side))
      BY <1>2, <1>3, <1>5
    <2> QED BY <1>10, <2>1, SameLadder
  <1>12. Exits!TypeOK'
    <2>1. /\ strategy' \in {"simple_both", "asymmetric_ladder", "dynamic_breakeven"}
          /\ left' \in ExitMoments /\ initial_shares' \in [Exits!Sides -> Shares] /\ paid' \in Nat
          /\ ptb_baseline' \in {"none", "below", "above"} /\ ptb_crossed' \in BOOLEAN
      BY <1>3, <1>10 DEF Shown, ExitsInv, Exits!TypeOK
    <2>2. sold' \in [Exits!Sides -> BOOLEAN]
      BY <1>3, ExitFacts
    <2>3. first_sold_side' \in Exits!Sides \cup {"none"}
      BY <1>1, <1>3, ExitFacts, FirstSide
    <2> QED BY <1>10, <1>11, <2>1, <2>2, <2>3 DEF Exits!TypeOK, Exits!Sides
  <1>13. Exits!SoldLeavesNothing'
    <2> SUFFICES ASSUME NEW side \in Exits!Sides, sold'[side]
                 PROVE  shares'[side] = 0
      BY DEF Exits!SoldLeavesNothing, Exits!Sides
    <2>1. sold[side] \/ side \in saved \/ (side \in climbing /\ Exits!LastStep(side))
      BY <1>3
    <2>2. CASE sold[side]
      BY <1>4, <1>7, <1>9, <1>10, <2>2
    <2>3. CASE side \in saved
      BY <1>4, <1>7, <1>10, <2>3
    <2>4. CASE side \notin saved /\ side \in climbing /\ Exits!LastStep(side)
      <3>1. Exits!StepAmount(side) = shares[side]
        BY <1>5, <1>6, <2>4 DEF Exits!LastStep
      <3> QED BY <1>4, <1>7, <1>10, <2>4, <3>1
    <2> QED BY <2>1, <2>2, <2>3, <2>4
  <1>14. ASSUME NEW side \in Exits!Sides, ~sold'[side]
         PROVE  /\ ~sold[side] /\ side \notin saved
                /\ ~(side \in climbing /\ Exits!LastStep(side))
    BY <1>3, <1>14
  <1>15. ASSUME NEW side \in Exits!Sides, ~sold'[side], steps_hit'[side] = 0
         PROVE  shares'[side] = initial_shares'[side]
    <2>1. steps_hit[side] = 0 /\ side \notin climbing
      BY <1>3, <1>5, <1>15
    <2>2. amounts[side] = 0
      BY <1>4, <1>14, <1>15, <2>1
    <2> QED BY <1>7, <1>10, <1>14, <1>15, <2>1, <2>2
  <1>16. ASSUME NEW side \in Exits!Sides, ~sold'[side], Len(Exits!StepsOf(side)) > 1,
                steps_hit'[side] = 1
         PROVE  2 * shares'[side] = initial_shares'[side]
    <2>1. CASE side \in climbing
      <3>1. steps_hit[side] = 0
        BY <1>3, <1>5, <1>16, <2>1
      <3>2. amounts[side] = initial_shares[side] \div 2
        BY <1>4, <1>6, <1>14, <1>16, <2>1, <3>1
      <3>3. shares'[side] = initial_shares[side] - initial_shares[side] \div 2
        BY <1>7, <1>10, <1>14, <1>16, <3>1, <3>2
      <3> QED BY <1>7, <1>10, <3>3
    <2>2. CASE side \notin climbing
      <3>1. steps_hit[side] = 1
        BY <1>3, <1>5, <1>16, <2>2
      <3>2. amounts[side] = 0
        BY <1>4, <1>14, <1>16, <2>2
      <3>3. 2 * shares[side] = initial_shares[side]
        BY <1>3, <1>14, <1>16, <3>1 DEF ExitsInv, Exits!LadderKeepsHalf, Exits!Sides
      <3> QED BY <1>7, <1>10, <3>2, <3>3
    <2> QED BY <2>1, <2>2
  <1>17. Exits!LadderKeepsHalf'
    <2>1. \A side \in Exits!Sides : Len(Exits!StepsOf(side)') = Len(Exits!StepsOf(side))
      BY <1>10, SameLadder
    <2> QED BY <1>16, <2>1 DEF Exits!LadderKeepsHalf, Exits!Sides
  <1> QED BY <1>12, <1>13, <1>15, <1>17 DEF ExitsInv, Exits!Sides

LEMMA ExitsStart ==
  ASSUME Exits!Init
  PROVE  ExitsInv
  <1> USE DEF Exits!Init
  <1>1. Exits!Sides = {"UP", "DOWN"}
    BY DEF Exits!Sides
  <1>2. shares \in [Exits!Sides -> Nat]
    BY ExitConstants
  <1>3. paid \in Nat
    <2>1. shares["UP"] + shares["DOWN"] \in Nat
      BY <1>1, <1>2
    <2> QED BY <2>1, ExitConstants, Products
  <1>4. Exits!TypeOK
    <2>1. \A side \in Exits!Sides : steps_hit[side] \in 0 .. Len(Exits!StepsOf(side))
      BY LadderLength
    <2>2. left \in ExitMoments /\ strategy \in {"simple_both", "asymmetric_ladder", "dynamic_breakeven"}
      BY ExitConstants
    <2>3. /\ initial_shares \in [Exits!Sides -> Shares] /\ cash_returned \in Nat
          /\ sold \in [Exits!Sides -> BOOLEAN] /\ first_sold_side \in Exits!Sides \cup {"none"}
          /\ ptb_baseline \in {"none", "below", "above"} /\ ptb_crossed \in BOOLEAN
      OBVIOUS
    <2> QED BY <1>2, <1>3, <2>1, <2>2, <2>3 DEF Exits!TypeOK, Exits!Sides
  <1> QED BY <1>4 DEF ExitsInv, Exits!SoldLeavesNothing, Exits!LadderKeepsHalf, Exits!Sides

LEMMA ExitsStep ==
  ASSUME ExitsInv, Exits!Next
  PROVE  ExitsInv'
  <1>1. CASE Exits!Pass
    <2>1. /\ left' \in ExitMoments
          /\ UNCHANGED <<strategy, decay, bid, shares, initial_shares, paid, cash_returned,
                         sold, first_sold_side, ptb_baseline, ptb_crossed, steps_hit>>
      BY <1>1 DEF Exits!Pass, Exits!ledger, Exits!state
    <2> QED BY <2>1 DEF ExitsInv, Exits!TypeOK, Exits!SoldLeavesNothing, Exits!LadderKeepsHalf,
                        Exits!StepsOf, Exits!Strong, Exits!Sides
  <1>2. CASE Exits!Tick
    <2>1. PICK bids \in [Exits!Sides -> Bids] :
            /\ \/ Exits!SimpleTick(bids) \/ Exits!LadderTick(bids)
               \/ \E spot \in Exits!Places : Exits!BreakEvenTick(bids, spot)
            /\ bid' = bids /\ UNCHANGED <<strategy, decay, left>>
      BY <1>2 DEF Exits!Tick
    <2>2. Shown(bids)
      BY <2>1 DEF Shown
    <2> QED BY <2>1, <2>2, SimpleStep, LadderStep, BreakEvenStep
  <1> QED BY <1>1, <1>2 DEF Exits!Next

\* A tick in the last 15% of the window takes all it bids 20 cents for: what a rule
\* marked as sold is empty already.
LEMMA LastTick ==
  ASSUME ExitsInv, Exits!Next
  PROVE  Exits!LastTicksSellOut
  <1> SUFFICES ASSUME left' = left, Exits!Emergency, NEW side \in Exits!Sides, bid'[side] >= 20
               PROVE  shares'[side] = 0
    BY DEF Exits!LastTicksSellOut
  <1>1. ~Exits!Pass
    <2>1. left \in ExitMoments
      BY DEF ExitsInv, Exits!TypeOK
    <2>2. left \in Nat
      BY <2>1, ExitConstants
    <2> QED BY <2>2 DEF Exits!Pass
  <1>2. PICK bids \in [Exits!Sides -> Bids] :
          /\ \/ Exits!SimpleTick(bids) \/ Exits!LadderTick(bids)
             \/ \E spot \in Exits!Places : Exits!BreakEvenTick(bids, spot)
          /\ bid' = bids /\ UNCHANGED <<strategy, decay, left>>
    BY <1>1 DEF Exits!Next, Exits!Tick
  <1>3. shares[side] \in Nat /\ (sold[side] => shares[side] = 0)
    BY ExitFacts
  <1>4. sold[side] \/ shares[side] = 0 \/ side \in Exits!Salvaged(bids)
    BY <1>2, <1>3 DEF Exits!Salvaged
  <1>5. ASSUME NEW leaving \in SUBSET Exits!Sides, Exits!Salvaged(bids) \subseteq leaving,
               Exits!Sold(Exits!WholeOf(leaving), bids)
        PROVE  shares'[side] = 0
    <2>1. shares'[side] = IF side \in leaving THEN 0 ELSE shares[side]
      BY <1>2, <1>5, ExitFacts, WholeSale
    <2> QED BY <1>3, <1>4, <1>5, <2>1
  <1>6. CASE Exits!SimpleTick(bids)
    <2> DEFINE leaving == Exits!Salvaged(bids) \cup Exits!SimpleExits(bids)
    <2>1. leaving \in SUBSET Exits!Sides
      BY DEF Exits!Salvaged, Exits!SimpleExits
    <2>2. Exits!Sold(Exits!WholeOf(leaving), bids)
      BY <1>6 DEF Exits!SimpleTick
    <2> QED BY <1>5, <2>1, <2>2
  <1>7. CASE Exits!LadderTick(bids)
    <2> DEFINE climbing == {s \in Exits!Sides : Exits!StepReached(s, bids)}
               amounts  == [s \in Exits!Sides |->
                              IF s \in Exits!Salvaged(bids) THEN shares[s]
                              ELSE IF s \in climbing THEN Exits!StepAmount(s) ELSE 0]
    <2>1. Exits!Sold(amounts, bids)
      BY <1>7 DEF Exits!LadderTick
    <2>2. side \in Exits!Salvaged(bids) => amounts[side] = shares[side]
      OBVIOUS
    <2> DEFINE taken == [s \in Exits!Sides |->
                           IF amounts[s] < shares[s] THEN amounts[s] ELSE shares[s]]
    <2>3. shares' = [s \in Exits!Sides |-> shares[s] - taken[s]]
      BY <2>1 DEF Exits!Sold
    <2>4. taken[side] = IF amounts[side] < shares[side] THEN amounts[side] ELSE shares[side]
      OBVIOUS
    <2>a. sold[side] => side \notin climbing
      BY DEF Exits!StepReached
    <2>b. shares[side] = 0 => side \notin climbing
      BY DEF Exits!StepReached
    <2>c. side \notin climbing /\ shares[side] = 0 => amounts[side] = 0
      OBVIOUS
    <2> HIDE DEF amounts, taken, climbing
    <2>5. shares'[side] = shares[side] - taken[side]
      BY <2>3
    <2>6. taken[side] = shares[side]
      BY <1>3, <1>4, <2>2, <2>4, <2>b, <2>c
    <2> QED BY <1>3, <2>5, <2>6
  <1>8. CASE \E spot \in Exits!Places : Exits!BreakEvenTick(bids, spot)
    <2>1. PICK spot \in Exits!Places : Exits!BreakEvenTick(bids, spot)
      BY <1>8
    <2> DEFINE out    == Exits!Salvaged(bids) \cup Exits!FirstExits(bids)
               first  == Exits!FirstOf(Exits!FirstExits(bids))
               second == Exits!Other(first)
               open   == first # "none" /\ shares[second] > 0 /\ ~sold[second] /\ second \notin out
               even   == IF (open /\ Exits!CameBack(first, spot)) /\ Exits!EvenAt(second, bids)
                         THEN {second} ELSE {}
               leaving == out \cup even
    <2>2. Exits!Sold(Exits!WholeOf(leaving), bids)
      BY <2>1 DEF Exits!BreakEvenTick
    <2>3. leaving \in SUBSET Exits!Sides
      BY LeavingSides
    <2>4. Exits!Salvaged(bids) \subseteq leaving
      OBVIOUS
    <2> HIDE DEF leaving
    <2> QED BY <1>5, <2>2, <2>3, <2>4
  <1> QED BY <1>2, <1>6, <1>7, <1>8

\* What is owed, and a slippage, is covered: the sale leaves no loss.
LEMMA Covered ==
  ASSUME NEW price \in Nat, NEW amount \in Nat, paid \in Nat, cash_returned \in Nat,
         price * amount >= (paid - cash_returned) + SlippageBuffer * amount
  PROVE  cash_returned + amount * price >= paid
  <1>1. SlippageBuffer * amount \in Nat
    BY ExitConstants, Products
  <1>2. price * amount \in Nat /\ amount * price = price * amount
    OBVIOUS
  <1> DEFINE x == price * amount
             y == SlippageBuffer * amount
  <1>3. x \in Nat /\ y \in Nat /\ x >= (paid - cash_returned) + y /\ amount * price = x
    BY <1>1, <1>2
  <1> HIDE DEF x, y
  <1> QED BY <1>3

\* The second leg of strategy C, before the last 15% of the window.
LEMMA SecondLeg ==
  ASSUME ExitsInv, Exits!Next
  PROVE  Exits!SecondLegBreaksEven
  <1> SUFFICES ASSUME strategy = "dynamic_breakeven", ~Exits!Emergency,
                      first_sold_side # "none", shares' # shares
               PROVE  cash_returned' >= paid
    BY DEF Exits!SecondLegBreaksEven
  <1>1. ~Exits!Pass
    BY DEF Exits!Pass, Exits!ledger
  <1>2. PICK bids \in [Exits!Sides -> Bids], spot \in Exits!Places : Exits!BreakEvenTick(bids, spot)
    BY <1>1 DEF Exits!Next, Exits!Tick, Exits!SimpleTick, Exits!LadderTick
  <1> DEFINE out    == Exits!Salvaged(bids) \cup Exits!FirstExits(bids)
             first  == Exits!FirstOf(Exits!FirstExits(bids))
             second == Exits!Other(first)
             open   == first # "none" /\ shares[second] > 0 /\ ~sold[second] /\ second \notin out
             even   == IF (open /\ Exits!CameBack(first, spot)) /\ Exits!EvenAt(second, bids)
                       THEN {second} ELSE {}
             leaving == out \cup even
  <1>3. out = {}
    BY DEF Exits!Salvaged, Exits!FirstExits
  <1>4. leaving \in SUBSET Exits!Sides
    BY LeavingSides
  <1>5. Exits!Sold(Exits!WholeOf(leaving), bids)
    BY <1>2 DEF Exits!BreakEvenTick
  <1>6. leaving = {} \/ (leaving = {second} /\ Exits!EvenAt(second, bids))
    BY <1>3
  <1> HIDE DEF out, first, second, open, even, leaving
  <1>7. /\ shares' \in [Exits!Sides -> Nat]
        /\ \A side \in Exits!Sides :
             shares'[side] = IF side \in leaving THEN 0 ELSE shares[side]
        /\ cash_returned' = cash_returned
             + (IF "UP" \in leaving THEN shares["UP"] ELSE 0) * bids["UP"]
             + (IF "DOWN" \in leaving THEN shares["DOWN"] ELSE 0) * bids["DOWN"]
    BY <1>4, <1>5, ExitFacts, WholeSale
  <1>8. leaving # {}
    BY <1>7, ExitFacts
  <1>9. /\ second \in Exits!Sides /\ leaving = {second}
        /\ bids[second] * shares[second]
             >= (paid - cash_returned) + SlippageBuffer * shares[second]
    BY <1>4, <1>6, <1>8 DEF Exits!EvenAt
  <1>10. /\ paid \in Nat /\ cash_returned \in Nat /\ shares[second] \in Nat
         /\ Exits!Sides = {"UP", "DOWN"}
    BY <1>9, ExitFacts
  <1>11. bids["UP"] \in Nat /\ bids["DOWN"] \in Nat
    <2>1. Bids \subseteq 0 .. 100
      BY ExitConstants, Zenon
    <2>2. bids["UP"] \in 0 .. 100 /\ bids["DOWN"] \in 0 .. 100
      BY <1>10, <2>1
    <2> QED BY <2>2
  <1>12. bids[second] \in Nat
    BY <1>9, <1>10, <1>11
  <1>13. cash_returned + shares[second] * bids[second] >= paid
    BY <1>9, <1>10, <1>12, Covered
  <1>14. cash_returned' = cash_returned + shares[second] * bids[second]
    <2>1. CASE second = "UP"
      <3>1. cash_returned' = cash_returned + shares["UP"] * bids["UP"] + 0 * bids["DOWN"]
        BY <1>7, <1>9, <2>1
      <3>2. shares["UP"] * bids["UP"] \in Nat
        BY <1>10, <1>11, <2>1, Products
      <3> QED BY <1>10, <1>11, <2>1, <3>1, <3>2
    <2>2. CASE second = "DOWN"
      <3>1. cash_returned' = cash_returned + 0 * bids["UP"] + shares["DOWN"] * bids["DOWN"]
        BY <1>7, <1>9, <2>2
      <3>2. shares["DOWN"] * bids["DOWN"] \in Nat
        BY <1>10, <1>11, <2>2, Products
      <3> QED BY <1>10, <1>11, <2>2, <3>1, <3>2
    <2> QED BY <1>9, <1>10, <2>1, <2>2
  <1> QED BY <1>13, <1>14

-----------------------------------------------------------------------------
(* The grid of strategy D                                                  *)

\* The plans of a tick, and the state as one of them.
Tranches == [tranches : 0 .. 2, shares : Nat, cost : Nat]
Plans ==
  [shares : [Grid!Sides -> Nat], returned : Nat, sold : [Grid!Sides -> BOOLEAN],
   first : Grid!Sides \cup {"none"}, steps : [Grid!Sides -> 0 .. 3],
   scalp : [Grid!Sides -> Tranches], reserve : [Grid!Sides -> Nat], buys : Nat,
   scalped : BOOLEAN, waived : BOOLEAN]

\* What a side keeps while no rule has waived its insurance and no scalp was bought:
\* the reserve of its last exit, or the part its steps of the grid leave.
Keeps(p, side) ==
  /\ p.scalp[side].shares = 0
  /\ p.shares[side] >= p.reserve[side]
  /\ p.reserve[side] > 0 => 100 * p.reserve[side] >= 7 * initial_shares[side]
  /\ p.reserve[side] = 0 =>
       /\ p.steps[side] = 0 => 100 * p.shares[side] >= 100 * initial_shares[side]
       /\ p.steps[side] = 1 => 100 * p.shares[side] >= 75 * initial_shares[side]
       /\ p.steps[side] = 2 => 100 * p.shares[side] >= 50 * initial_shares[side]
       /\ p.steps[side] = 3 => 100 * p.shares[side] >= 34 * initial_shares[side]

\* A side that was not bought holds nothing; one that is sold holds a scalp at most,
\* and then one that still has its cost.
Sound(p) ==
  /\ p \in Plans
  /\ \A side \in Grid!Sides : initial_shares[side] >= 100
                              \/ (initial_shares[side] = 0 /\ p.shares[side] = 0)
  /\ \A side \in Grid!Sides : p.sold[side] =>
       /\ p.shares[side] <= p.scalp[side].shares
       /\ p.shares[side] = 0 \/ p.scalp[side].cost > 0
  /\ released \/ p.waived \/ p.buys > 0 \/ \A side \in Grid!Sides : Keeps(p, side)

GridInv == Grid!TypeOK /\ Sound(Grid!Plan)

\* The facts on the constants that the proofs about the grid use.
LEMMA GridConstants ==
  /\ GridDuration \in Nat \ {0} /\ GridMoments \subseteq 0 .. GridDuration /\ 0 \in GridMoments
  /\ MinTrade \in Nat \ {0}
  /\ \A e \in Entries : e.spent \in Nat \ {0} /\ e.shares \in [Grid!Sides -> {0} \cup Grid!Bought]
  /\ \A b \in Books : b.bid \in [Grid!Sides -> 0 .. 100] /\ b.ask \in [Grid!Sides -> 0 .. 100]
  BY InstancesSound DEF Grid!PairGridAssumption

LEMMA BookOfTick ==
  ASSUME NEW t \in Grid!Ticks, NEW side \in Grid!Sides
  PROVE  Grid!Bid(side, t) \in 0 .. 100 /\ Grid!Ask(side, t) \in 0 .. 100
  <1>1. t.book \in Books
    BY DEF Grid!Ticks
  <1>2. t.book.bid \in [Grid!Sides -> 0 .. 100] /\ t.book.ask \in [Grid!Sides -> 0 .. 100]
    BY <1>1, GridConstants, Zenon
  <1> QED BY <1>2 DEF Grid!Bid, Grid!Ask

LEMMA GridSides ==
  /\ Grid!Sides = {"UP", "DOWN"}
  /\ \A side \in Grid!Sides : Grid!Other(side) \in Grid!Sides /\ Grid!Other(side) # side
  /\ \A t : Grid!Leader(t) \in Grid!Sides
  BY DEF Grid!Sides, Grid!Other, Grid!Leader

\* A part of an amount.
LEMMA PartOf ==
  ASSUME NEW percent \in Nat, NEW amount \in Nat
  PROVE  /\ Grid!Part(percent, amount) \in Nat
         /\ 100 * Grid!Part(percent, amount) <= amount * percent
         /\ amount * percent <= 100 * Grid!Part(percent, amount) + 99
  <1> DEFINE x == amount * percent
  <1>1. x \in Nat
    BY Products
  <1>2. Grid!Part(percent, amount) = x \div 100
    BY DEF Grid!Part
  <1> HIDE DEF x
  <1>3. x \div 100 \in Nat /\ 100 * (x \div 100) <= x /\ x <= 100 * (x \div 100) + 99
    BY <1>1
  <1> QED BY <1>2, <1>3 DEF x

\* The plan after a sale that a side has the shares for.
LEMMA PlanOfSale ==
  ASSUME NEW p \in Plans, NEW side \in Grid!Sides, NEW amount \in Nat, amount <= p.shares[side],
         NEW t \in Grid!Ticks
  PROVE  LET q == Grid!Sells(p, side, amount, t)
         IN  /\ q \in Plans
             /\ q.shares[side] = p.shares[side] - amount
             /\ \A s \in Grid!Sides \ {side} : q.shares[s] = p.shares[s]
             /\ q.sold = p.sold /\ q.first = p.first /\ q.steps = p.steps /\ q.scalp = p.scalp
             /\ q.reserve = p.reserve /\ q.buys = p.buys /\ q.waived = p.waived
             /\ q.scalped = p.scalped
  <1> DEFINE x == amount * Grid!Bid(side, t)
             y == x \div 100
             held == [p.shares EXCEPT ![side] = @ - amount]
             back == p.returned + y
  <1>1. Grid!Sells(p, side, amount, t) = [p EXCEPT !.shares = held, !.returned = back]
    BY DEF Grid!Sells, Plans
  <1>2. held \in [Grid!Sides -> Nat] /\ held[side] = p.shares[side] - amount
        /\ \A s \in Grid!Sides \ {side} : held[s] = p.shares[s]
    BY DEF Plans
  <1>3. x \in Nat
    BY BookOfTick, Products
  <1> HIDE DEF x, held
  <1>4. back \in Nat
    BY <1>3 DEF Plans
  <1> HIDE DEF back
  <1>5. [p EXCEPT !.shares = held, !.returned = back] \in Plans
    BY <1>2, <1>4 DEF Plans
  <1>6. [p EXCEPT !.shares = held, !.returned = back].shares = held
    BY DEF Plans
  <1> QED BY <1>1, <1>2, <1>5, <1>6 DEF Plans

\* The surplus of a side over the other is of its shares.
LEMMA SurplusOf ==
  ASSUME NEW p \in Plans, NEW side \in Grid!Sides, NEW t
  PROVE  Grid!Surplus(p, side, t) \in 0 .. p.shares[side]
  <1>1. p.shares[side] \in Nat /\ p.shares[Grid!Other(side)] \in Nat
    BY GridSides DEF Plans
  <1> QED BY <1>1 DEF Grid!Surplus, Grid!Most

\* The emergency of the last 15% waives the insurance whenever it sells.
LEMMA EmergencyKeeps ==
  ASSUME NEW p, Sound(p), NEW side \in Grid!Sides, NEW t \in Grid!Ticks
  PROVE  Sound(Grid!Emergency(p, side, t)) /\ Grid!Emergency(p, side, t).buys = p.buys
  <1> DEFINE amount == Grid!Surplus(p, side, t)
             after  == Grid!Sells(p, side, amount, t)
             r      == Grid!Emergency(p, side, t)
             closed == [after EXCEPT !.sold[side] = TRUE, !.reserve[side] = 0, !.waived = TRUE,
                                     !.scalp[side].shares = 0, !.scalp[side].cost = 0]
             opened == [after EXCEPT !.waived = TRUE]
  <1>1. /\ p \in Plans
        /\ \A s \in Grid!Sides : initial_shares[s] >= 100
                                 \/ (initial_shares[s] = 0 /\ p.shares[s] = 0)
        /\ \A s \in Grid!Sides : p.sold[s] =>
             /\ p.shares[s] <= p.scalp[s].shares
             /\ p.shares[s] = 0 \/ p.scalp[s].cost > 0
    BY DEF Sound
  <1>2. amount \in 0 .. p.shares[side]
    BY <1>1, SurplusOf
  <1>3. p.shares[side] \in Nat
    BY <1>1 DEF Plans
  <1>4. \/ r = p
        \/ ~p.sold[side] /\ amount > 0 /\ after.shares[side] = 0 /\ r = closed
        \/ ~p.sold[side] /\ amount > 0 /\ r = opened
    BY DEF Grid!Emergency
  <1> SUFFICES Sound(r) /\ r.buys = p.buys
    OBVIOUS
  <1> HIDE DEF amount, r
  <1>5. /\ after \in Plans
        /\ after.shares[side] = p.shares[side] - amount
        /\ \A s \in Grid!Sides \ {side} : after.shares[s] = p.shares[s]
        /\ after.sold = p.sold /\ after.scalp = p.scalp /\ after.buys = p.buys
    BY <1>1, <1>2, <1>3, PlanOfSale
  <1> HIDE DEF after
  <1>6. CASE ~p.sold[side] /\ amount > 0 /\ after.shares[side] = 0 /\ r = closed
    <2> DEFINE marks == [after.sold EXCEPT ![side] = TRUE]
               kept  == [after.reserve EXCEPT ![side] = 0]
               none  == [after.scalp EXCEPT ![side].shares = 0, ![side].cost = 0]
    <2>a. closed = [after EXCEPT !.sold = marks, !.reserve = kept, !.waived = TRUE, !.scalp = none]
      BY <1>5 DEF Plans
    <2>b. /\ marks \in [Grid!Sides -> BOOLEAN] /\ kept \in [Grid!Sides -> Nat]
      BY <1>5 DEF Plans
    <2>c. none \in [Grid!Sides -> Tranches]
      <3>1. after.scalp \in [Grid!Sides -> Tranches]
        BY <1>5 DEF Plans
      <3> QED BY <3>1 DEF Tranches
    <2>1. closed \in Plans
      <3> HIDE DEF marks, kept, none, closed
      <3> QED BY <1>5, <2>a, <2>b, <2>c DEF Plans
    <2>2. /\ closed.waived = TRUE /\ closed.shares = after.shares /\ closed.buys = after.buys
          /\ \A s \in Grid!Sides \ {side} : closed.sold[s] = p.sold[s] /\ closed.scalp[s] = p.scalp[s]
          /\ closed.scalp[side].shares = 0
      BY <1>5 DEF Plans, Tranches
    <2> HIDE DEF closed
    <2>3. \A s \in Grid!Sides : initial_shares[s] >= 100
                                \/ (initial_shares[s] = 0 /\ r.shares[s] = 0)
      BY <1>1, <1>5, <1>6, <2>2
    <2>4. \A s \in Grid!Sides : r.sold[s] =>
            /\ r.shares[s] <= r.scalp[s].shares
            /\ r.shares[s] = 0 \/ r.scalp[s].cost > 0
      BY <1>1, <1>5, <1>6, <2>2
    <2> QED BY <1>5, <1>6, <2>1, <2>2, <2>3, <2>4 DEF Sound
  <1>7. CASE ~p.sold[side] /\ amount > 0 /\ r = opened
    <2>1. opened \in Plans
      BY <1>5 DEF Plans
    <2>2. /\ opened.waived = TRUE /\ opened.shares = after.shares /\ opened.buys = after.buys
          /\ opened.sold = p.sold /\ opened.scalp = p.scalp
      BY <1>5 DEF Plans
    <2> HIDE DEF opened
    <2>3. \A s \in Grid!Sides : initial_shares[s] >= 100
                                \/ (initial_shares[s] = 0 /\ r.shares[s] = 0)
      BY <1>1, <1>2, <1>5, <1>7, <2>2
    <2>4. \A s \in Grid!Sides : r.sold[s] =>
            /\ r.shares[s] <= r.scalp[s].shares
            /\ r.shares[s] = 0 \/ r.scalp[s].cost > 0
      BY <1>1, <1>5, <1>7, <2>2
    <2> QED BY <1>5, <1>7, <2>1, <2>2, <2>3, <2>4 DEF Sound
  <1> QED BY <1>4, <1>6, <1>7

\* The type of the ledger's entry and of what the window has cost.
LEMMA GridFacts ==
  ASSUME Grid!TypeOK
  PROVE  /\ initial_shares \in [Grid!Sides -> Nat] /\ paid \in Nat /\ cash_returned \in Nat
         /\ shares \in [Grid!Sides -> Nat]
         /\ now \in Nat
  BY GridConstants DEF Grid!TypeOK

\* The last step of the grid keeps its runner: no more than 35 percent of the entry, or
\* all there is.
LEMMA LastStepOf ==
  ASSUME Grid!TypeOK, NEW p \in Plans, NEW side \in Grid!Sides, NEW t \in Grid!Ticks
  PROVE  /\ Grid!LastStep(p, side, t) \in Nat
         /\ Grid!LastStep(p, side, t)
              <= Grid!Most(p.shares[side] - Grid!Part(35, initial_shares[side]), 0)
  <1> DEFINE mine     == p.shares[side]
             others   == p.shares[Grid!Other(side)]
             part35   == Grid!Part(35, initial_shares[side])
             proposed == Grid!Most(mine - part35, 0)
             surplus  == Grid!Least(proposed, Grid!Most(mine - others, 0))
             gap      == Grid!Most(100 - Grid!Bid(side, t), 1)
             spared   == (100 * Grid!MaxSacrifice(p.returned)) \div gap
             picked   == Grid!LastStep(p, side, t)
  <1>1. mine \in Nat /\ others \in Nat
    BY GridSides DEF Plans
  <1>2. part35 \in Nat
    BY GridFacts, PartOf
  <1>3. spared \in Nat
    <2>1. Grid!MaxSacrifice(p.returned) \in Nat
      BY GridFacts, PartOf DEF Grid!MaxSacrifice
    <2>2. gap \in Nat \ {0}
      BY BookOfTick DEF Grid!Most
    <2>3. 100 * Grid!MaxSacrifice(p.returned) \in Nat
      BY <2>1
    <2> HIDE DEF gap
    <2> QED BY <2>2, <2>3, Quotient
  <1>4. \/ picked = proposed
        \/ picked = Grid!Least(surplus + Grid!Least(proposed - surplus, spared), proposed)
    BY DEF Grid!LastStep
  <1> HIDE DEF mine, others, part35, spared, picked
  <1>5. proposed \in Nat /\ surplus \in 0 .. proposed
    BY <1>1, <1>2 DEF Grid!Most, Grid!Least
  <1> HIDE DEF proposed, surplus
  <1>6. picked \in Nat /\ picked <= proposed
    BY <1>3, <1>4, <1>5 DEF Grid!Least
  <1> QED BY <1>6 DEF picked, proposed, mine, part35

LEMMA GridAmountOf ==
  ASSUME Grid!TypeOK, NEW p \in Plans, NEW side \in Grid!Sides, NEW step \in 0 .. 3,
         NEW t \in Grid!Ticks
  PROVE  Grid!GridAmount(p, side, step, t) \in 0 .. p.shares[side]
  <1>1. p.shares[side] \in Nat
    BY DEF Plans
  <1>2. /\ Grid!Part(20, initial_shares[side]) \in Nat
        /\ Grid!Part(25, initial_shares[side]) \in Nat
        /\ Grid!Part(35, initial_shares[side]) \in Nat
    BY GridFacts, PartOf
  <1>3. Grid!LastStep(p, side, t) \in 0 .. p.shares[side]
    BY <1>1, <1>2, LastStepOf DEF Grid!Most
  <1> QED BY <1>1, <1>2, <1>3 DEF Grid!GridAmount, Grid!Least

LEMMA CappedOf ==
  ASSUME NEW p \in Plans, NEW side \in Grid!Sides, NEW amount \in 0 .. p.shares[side], NEW t
  PROVE  /\ Grid!Capped(p, side, amount, t) \in 0 .. amount
         /\ ~Grid!Releases(side, t) /\ p.reserve[side] > 0 /\ p.shares[side] >= p.reserve[side]
              => p.shares[side] - Grid!Capped(p, side, amount, t) >= p.reserve[side]
  <1>1. p.shares[side] \in Nat /\ p.reserve[side] \in Nat
    BY DEF Plans
  <1> QED BY <1>1 DEF Grid!Capped, Grid!Least, Grid!Most

\* The part of the entry that a step of the grid leaves.
LEMMA StepLeaves ==
  ASSUME Grid!TypeOK, NEW p \in Plans, NEW side \in Grid!Sides, NEW step \in 0 .. 2,
         NEW t \in Grid!Ticks, ~(Grid!Holds(t) /\ step >= 1), Grid!Bid(side, t) < 90,
         initial_shares[side] >= 100
  PROVE  LET rest == p.shares[side] - Grid!GridAmount(p, side, step, t)
         IN  /\ step = 0 /\ 100 * p.shares[side] >= 100 * initial_shares[side]
                  => 100 * rest >= 75 * initial_shares[side]
             /\ step = 1 /\ 100 * p.shares[side] >= 75 * initial_shares[side]
                  => 100 * rest >= 50 * initial_shares[side]
             /\ step = 2 /\ 100 * p.shares[side] >= 50 * initial_shares[side]
                  => 100 * rest >= 34 * initial_shares[side]
  <1> DEFINE mine    == p.shares[side]
             initial == initial_shares[side]
             quarter == Grid!Part(25, initial)
             third   == Grid!Part(35, initial)
             amount  == Grid!GridAmount(p, side, step, t)
             final   == Grid!LastStep(p, side, t)
  <1>1. mine \in Nat /\ initial \in Nat /\ initial >= 100
    BY GridFacts DEF Plans
  <1>2. /\ quarter \in Nat /\ 100 * quarter <= initial * 25
        /\ third \in Nat /\ initial * 35 <= 100 * third + 99
    BY <1>1, PartOf
  <1>3. final \in Nat /\ final <= Grid!Most(mine - third, 0)
    BY LastStepOf
  <1>4. /\ step < 2 => amount = Grid!Least(quarter, mine)
        /\ step = 2 => amount = final
    <2>1. Grid!Bid(side, t) \in 0 .. 100
      BY BookOfTick
    <2> HIDE DEF quarter, final
    <2>2. amount = IF Grid!Holds(t) /\ step >= 1
                   THEN Grid!Least(Grid!Part(20, initial_shares[side]), p.shares[side])
                   ELSE IF step < 2 THEN Grid!Least(quarter, mine)
                   ELSE IF Grid!Bid(side, t) >= 90 THEN p.shares[side] ELSE final
      BY DEF Grid!GridAmount, quarter, final
    <2> HIDE DEF amount, mine
    <2> QED BY <2>1, <2>2
  <1> HIDE DEF mine, initial, quarter, third, amount, final
  <1>5. /\ step = 0 /\ 100 * mine >= 100 * initial => 100 * (mine - amount) >= 75 * initial
        /\ step = 1 /\ 100 * mine >= 75 * initial => 100 * (mine - amount) >= 50 * initial
    BY <1>1, <1>2, <1>4 DEF Grid!Least
  <1>6. step = 2 /\ 100 * mine >= 50 * initial => 100 * (mine - amount) >= 34 * initial
    BY <1>1, <1>2, <1>3, <1>4 DEF Grid!Most
  <1> QED BY <1>5, <1>6 DEF mine, initial, amount

\* A step of the grid keeps the insurance of its side unless it waives it, and marks the
\* side as sold only when nothing is left.
LEMMA StrongKeeps ==
  ASSUME Grid!TypeOK, NEW p, Sound(p), NEW t \in Grid!Ticks
  PROVE  Sound(Grid!StrongGrid(p, t)) /\ Grid!StrongGrid(p, t).buys = p.buys
  <1> DEFINE side    == Grid!Leader(t)
             step    == p.steps[side]
             wanted  == Grid!GridAmount(p, side, step, t)
             amount  == Grid!Capped(p, side, wanted, t)
             climbed == IF Grid!Holds(t) /\ step >= 1 THEN 3 ELSE step + 1
             after   == Grid!Sells(p, side, amount, t)
             steps   == [after.steps EXCEPT ![side] = climbed]
             marks   == [after.sold EXCEPT ![side] =
                           @ \/ (~Grid!Holds(t) /\ climbed = 3 /\ after.shares[side] = 0)]
             leads   == IF after.first = "none" THEN side ELSE after.first
             waives  == after.waived \/ Grid!Bid(side, t) >= 90 \/ Grid!Releases(side, t)
             moved   == [after EXCEPT !.steps = steps, !.sold = marks, !.first = leads,
                                      !.waived = waives]
             r       == Grid!StrongGrid(p, t)
  <1> SUFFICES Sound(r) /\ r.buys = p.buys
    OBVIOUS
  <1>1. /\ p \in Plans
        /\ \A s \in Grid!Sides : initial_shares[s] >= 100
                                 \/ (initial_shares[s] = 0 /\ p.shares[s] = 0)
        /\ \A s \in Grid!Sides : p.sold[s] =>
             /\ p.shares[s] <= p.scalp[s].shares
             /\ p.shares[s] = 0 \/ p.scalp[s].cost > 0
        /\ released \/ p.waived \/ p.buys > 0 \/ \A s \in Grid!Sides : Keeps(p, s)
    BY DEF Sound
  <1>2. side \in Grid!Sides
    BY GridSides
  <1>3. \/ r = p
        \/ /\ ~p.sold[side] /\ p.shares[side] > 0 /\ step < 3
           /\ ~(Grid!Holds(t) /\ step >= 1 /\ Grid!Bid(side, t) < 90)
           /\ amount > 0
           /\ r = [after EXCEPT
                     !.steps[side] = climbed,
                     !.sold[side] = @ \/ (~Grid!Holds(t) /\ climbed = 3 /\ after.shares[side] = 0),
                     !.first = IF @ = "none" THEN side ELSE @,
                     !.waived = @ \/ Grid!Bid(side, t) >= 90 \/ Grid!Releases(side, t)]
    BY DEF Grid!StrongGrid
  <1>4. step \in 0 .. 3 /\ p.shares[side] \in Nat /\ p.reserve[side] \in Nat
    BY <1>1, <1>2 DEF Plans
  <1> HIDE DEF side, step, r
  <1>5. wanted \in 0 .. p.shares[side]
    BY <1>1, <1>2, <1>4, GridAmountOf
  <1> HIDE DEF wanted
  <1>6. /\ amount \in 0 .. wanted
        /\ ~Grid!Releases(side, t) /\ p.reserve[side] > 0 /\ p.shares[side] >= p.reserve[side]
             => p.shares[side] - amount >= p.reserve[side]
    BY <1>1, <1>2, <1>5, CappedOf
  <1> HIDE DEF amount
  <1>7. amount \in Nat /\ amount <= p.shares[side]
    BY <1>4, <1>5, <1>6
  <1>8. /\ after \in Plans
        /\ after.shares[side] = p.shares[side] - amount
        /\ \A s \in Grid!Sides \ {side} : after.shares[s] = p.shares[s]
        /\ after.sold = p.sold /\ after.scalp = p.scalp /\ after.buys = p.buys
        /\ after.reserve = p.reserve /\ after.steps = p.steps /\ after.waived = p.waived
    BY <1>1, <1>2, <1>7, PlanOfSale
  <1> HIDE DEF after
  <1>9. CASE /\ ~p.sold[side] /\ p.shares[side] > 0 /\ step < 3
             /\ ~(Grid!Holds(t) /\ step >= 1 /\ Grid!Bid(side, t) < 90)
             /\ amount > 0
             /\ r = [after EXCEPT
                       !.steps[side] = climbed,
                       !.sold[side] = @ \/ (~Grid!Holds(t) /\ climbed = 3 /\ after.shares[side] = 0),
                       !.first = IF @ = "none" THEN side ELSE @,
                       !.waived = @ \/ Grid!Bid(side, t) >= 90 \/ Grid!Releases(side, t)]
    <2>1. r = moved
      BY <1>8, <1>9 DEF Plans
    <2>2. climbed \in 0 .. 3
      BY <1>4, <1>9
    <2>3. steps \in [Grid!Sides -> 0 .. 3] /\ steps[side] = climbed
          /\ \A s \in Grid!Sides \ {side} : steps[s] = p.steps[s]
      BY <1>2, <1>8, <2>2 DEF Plans
    <2>4. marks \in [Grid!Sides -> BOOLEAN]
      BY <1>8, Zenon DEF Plans
    <2>5. /\ marks[side] => after.shares[side] = 0
          /\ \A s \in Grid!Sides \ {side} : marks[s] = p.sold[s]
      BY <1>2, <1>8, <1>9 DEF Plans
    <2>6. leads \in Grid!Sides \cup {"none"}
      BY <1>2, <1>8 DEF Plans
    <2>7. waives \in BOOLEAN
      <3>1. after.waived \in BOOLEAN
        BY <1>8 DEF Plans
      <3> QED BY <3>1, Zenon
    <2>8. /\ moved.shares = after.shares /\ moved.steps = steps /\ moved.sold = marks
          /\ moved.scalp = p.scalp /\ moved.reserve = p.reserve /\ moved.buys = p.buys
      BY <1>8 DEF Plans
    <2>9. moved.waived = waives
      BY <1>8, Zenon DEF Plans
    <2> HIDE DEF steps, marks, leads
    <2>10. moved \in Plans
      <3> HIDE DEF moved, waives
      <3> QED BY <1>8, <2>3, <2>4, <2>6, <2>7 DEF Plans, moved
    <2>11. released \/ waives \/ p.buys > 0 \/ \A s \in Grid!Sides : Keeps(moved, s)
      <3> SUFFICES ASSUME ~released, ~waives, ~(p.buys > 0), NEW s \in Grid!Sides
                   PROVE  Keeps(moved, s)
        BY Zenon
      <3>1. ~p.waived /\ ~(Grid!Bid(side, t) >= 90) /\ ~Grid!Releases(side, t)
        BY <1>8, Zenon
      <3>2. Keeps(p, s) /\ Keeps(p, side)
        BY <1>1, <1>2, <3>1
      <3> HIDE DEF moved, waives
      <3>3. CASE s # side
        BY <1>8, <2>3, <2>8, <3>2, <3>3 DEF Keeps
      <3>4. CASE s = side
        <4>1. Grid!Bid(side, t) < 90 /\ ~(Grid!Holds(t) /\ step >= 1)
          BY <1>2, <1>9, <3>1, BookOfTick
        <4>2. initial_shares[side] >= 100 /\ initial_shares[side] \in Nat
          BY <1>1, <1>2, <1>9, GridFacts
        <4>3. /\ moved.shares[side] = p.shares[side] - amount /\ moved.scalp[side] = p.scalp[side]
              /\ moved.reserve[side] = p.reserve[side] /\ moved.steps[side] = step + 1
          BY <1>8, <2>3, <2>8, <4>1
        <4>4. CASE p.reserve[side] > 0
          <5>1. p.shares[side] - amount >= p.reserve[side]
            BY <1>6, <3>1, <3>2, <4>4 DEF Keeps
          <5> QED BY <1>4, <3>2, <3>4, <4>3, <4>4, <5>1 DEF Keeps
        <4>5. CASE p.reserve[side] = 0
          <5>1. LET rest == p.shares[side] - wanted
                IN  /\ step = 0 /\ 100 * p.shares[side] >= 100 * initial_shares[side]
                         => 100 * rest >= 75 * initial_shares[side]
                    /\ step = 1 /\ 100 * p.shares[side] >= 75 * initial_shares[side]
                         => 100 * rest >= 50 * initial_shares[side]
                    /\ step = 2 /\ 100 * p.shares[side] >= 50 * initial_shares[side]
                         => 100 * rest >= 34 * initial_shares[side]
            <6>1. step \in 0 .. 2
              BY <1>4, <1>9
            <6> QED BY <1>1, <1>2, <4>1, <4>2, <6>1, StepLeaves DEF wanted
          <5>2. /\ step = 0 => 100 * p.shares[side] >= 100 * initial_shares[side]
                /\ step = 1 => 100 * p.shares[side] >= 75 * initial_shares[side]
                /\ step = 2 => 100 * p.shares[side] >= 50 * initial_shares[side]
            BY <3>2, <4>5 DEF Keeps, step
          <5>3. 100 * (p.shares[side] - amount) >= 100 * (p.shares[side] - wanted)
            BY <1>4, <1>5, <1>6
          <5>4. /\ step = 0 => 100 * (p.shares[side] - amount) >= 75 * initial_shares[side]
                /\ step = 1 => 100 * (p.shares[side] - amount) >= 50 * initial_shares[side]
                /\ step = 2 => 100 * (p.shares[side] - amount) >= 34 * initial_shares[side]
            BY <1>4, <1>5, <1>6, <4>2, <5>1, <5>2, <5>3
          <5>5. p.shares[side] - amount >= 0 /\ step \in 0 .. 2
            BY <1>4, <1>7, <1>9
          <5> QED BY <3>2, <3>4, <4>3, <4>5, <5>4, <5>5 DEF Keeps
        <4> QED BY <1>4, <4>4, <4>5
      <3> QED BY <3>3, <3>4
    <2> HIDE DEF moved
    <2>12. \A s \in Grid!Sides : initial_shares[s] >= 100
                                 \/ (initial_shares[s] = 0 /\ moved.shares[s] = 0)
      <3>1. \A s \in Grid!Sides : p.shares[s] = 0 => moved.shares[s] = 0
        BY <1>8, <1>9, <2>8
      <3> QED BY <1>1, <3>1
    <2>13. \A s \in Grid!Sides : moved.sold[s] =>
             /\ moved.shares[s] <= moved.scalp[s].shares
             /\ moved.shares[s] = 0 \/ moved.scalp[s].cost > 0
      <3> SUFFICES ASSUME NEW s \in Grid!Sides, moved.sold[s]
                   PROVE  /\ moved.shares[s] <= moved.scalp[s].shares
                          /\ moved.shares[s] = 0 \/ moved.scalp[s].cost > 0
        OBVIOUS
      <3>1. CASE s = side
        <4>1. moved.shares[s] = 0
          BY <2>5, <2>8, <3>1
        <4>2. moved.scalp[s].shares \in Nat
          BY <2>10 DEF Plans, Tranches
        <4> QED BY <4>1, <4>2
      <3>2. CASE s # side
        BY <1>1, <1>8, <2>5, <2>8, <3>2
      <3> QED BY <3>1, <3>2
    <2>14. Sound(moved)
      BY <2>8, <2>9, <2>10, <2>11, <2>12, <2>13 DEF Sound
    <2> QED BY <2>1, <2>8, <2>14
  <1>10. CASE r = p
    BY <1>10
  <1> QED BY <1>3, <1>9, <1>10

\* Thirty-five cents and more buy a whole share at the asks a scalp pays.
LEMMA ScalpBuys ==
  ASSUME NEW usd \in Nat, usd >= 35, NEW price \in 1 .. 22
  PROVE  (usd * 100) \div price \in Nat /\ (usd * 100) \div price >= 100
  <1> DEFINE x == usd * 100
             q == x \div price
  <1>1. x \in Nat /\ x >= 3500
    OBVIOUS
  <1> HIDE DEF x
  <1>2. q \in Nat /\ x < q * price + price
    BY <1>1, Quotient
  <1> HIDE DEF q
  <1>3. q <= 99 => q * price <= 99 * price
    BY <1>2
  <1>4. q > 99
    BY <1>1, <1>2, <1>3
  <1> QED BY <1>2, <1>4 DEF q, x

\* A scalp signalled on this tick: what it buys, when it is signalled, and that a side
\* marked as sold holds nothing else.
BuySound(p, t) ==
  p.buys > 0 =>
    LET side   == Grid!Other(Grid!Leader(t))
        bought == (p.buys * 100) \div Grid!Ask(side, t)
    IN  /\ bought \in Nat /\ bought >= 100
        /\ Grid!TimePct <= 55 /\ t.spot.zone \in {"near", "moderate"}
        /\ p.sold[side] => /\ p.shares[side] = 0
                           /\ p.scalp[side].shares = bought /\ p.scalp[side].cost > 0

\* The sale of a scalp takes what there is of it, and a scalp is bought on a side that
\* holds no other.
LEMMA ScalpKeeps ==
  ASSUME Grid!TypeOK, NEW p, Sound(p), p.buys = 0, NEW t \in Grid!Ticks
  PROVE  Sound(Grid!Scalp(p, t)) /\ BuySound(Grid!Scalp(p, t), t)
  <1> DEFINE side   == Grid!Other(Grid!Leader(t))
             s      == p.scalp[side]
             usd    == Grid!ScalpUsd
             bought == (usd * 100) \div Grid!Ask(side, t)
             amount == Grid!Least(s.shares, p.shares[side])
             after  == Grid!Sells(p, side, amount, t)
             none   == [after.scalp EXCEPT ![side].shares = 0, ![side].cost = 0]
             taken  == [tranches |-> s.tranches + 1, shares |-> bought, cost |-> usd]
             held   == [p.scalp EXCEPT ![side] = taken]
             r      == Grid!Scalp(p, t)
  <1> SUFFICES Sound(r) /\ BuySound(r, t)
    OBVIOUS
  <1>1. /\ p \in Plans
        /\ \A x \in Grid!Sides : initial_shares[x] >= 100
                                 \/ (initial_shares[x] = 0 /\ p.shares[x] = 0)
        /\ \A x \in Grid!Sides : p.sold[x] =>
             /\ p.shares[x] <= p.scalp[x].shares
             /\ p.shares[x] = 0 \/ p.scalp[x].cost > 0
        /\ released \/ p.waived \/ p.buys > 0 \/ \A x \in Grid!Sides : Keeps(p, x)
    BY DEF Sound
  <1>2. side \in Grid!Sides
    BY GridSides
  <1>3. \/ r = p
        \/ /\ s.shares > 0 /\ s.cost > 0
           /\ r = [after EXCEPT !.scalp[side].shares = 0, !.scalp[side].cost = 0, !.scalped = TRUE]
        \/ /\ ~(s.shares > 0 /\ s.cost > 0) /\ Grid!ScalpDue(p, side, t)
           /\ r = [p EXCEPT !.buys = usd, !.scalp[side] = taken]
    BY DEF Grid!Scalp
  <1> HIDE DEF side, r
  <1>4. /\ s.tranches \in 0 .. 2 /\ s.shares \in Nat /\ s.cost \in Nat
        /\ p.shares[side] \in Nat
    BY <1>1, <1>2 DEF Plans, Tranches
  <1>5. CASE r = p
    BY <1>5 DEF BuySound
  <1>6. CASE /\ s.shares > 0 /\ s.cost > 0
             /\ r = [after EXCEPT !.scalp[side].shares = 0, !.scalp[side].cost = 0, !.scalped = TRUE]
    <2>1. amount \in Nat /\ amount <= p.shares[side] /\ (p.shares[side] <= s.shares => amount = p.shares[side])
      BY <1>4 DEF Grid!Least
    <2> HIDE DEF amount, usd, bought, taken, held
    <2>2. /\ after \in Plans
          /\ after.shares[side] = p.shares[side] - amount
          /\ \A x \in Grid!Sides \ {side} : after.shares[x] = p.shares[x]
          /\ after.sold = p.sold /\ after.scalp = p.scalp /\ after.buys = p.buys
          /\ after.waived = p.waived
      BY <1>1, <1>2, <2>1, PlanOfSale
    <2> HIDE DEF after
    <2>3. r = [after EXCEPT !.scalp = none, !.scalped = TRUE]
      BY <1>6, ZenonT(60)
    <2>a. none \in [Grid!Sides -> Tranches]
      <3>1. after.scalp \in [Grid!Sides -> Tranches]
        BY <2>2 DEF Plans
      <3> QED BY <1>2, <3>1 DEF Tranches
    <2>b. none[side].shares = 0 /\ \A x \in Grid!Sides \ {side} : none[x] = p.scalp[x]
      BY <1>2, <2>2 DEF Plans, Tranches
    <2>4. none \in [Grid!Sides -> Tranches] /\ none[side].shares = 0
          /\ \A x \in Grid!Sides \ {side} : none[x] = p.scalp[x]
      BY <2>a, <2>b
    <2> HIDE DEF none
    <2>5. r \in Plans
      BY <2>2, <2>3, <2>4 DEF Plans
    <2>6. /\ r.shares = after.shares /\ r.sold = p.sold /\ r.scalp = none /\ r.buys = p.buys
          /\ r.waived = p.waived
      BY <2>2, <2>3 DEF Plans
    <2>7. \A x \in Grid!Sides : initial_shares[x] >= 100
                                \/ (initial_shares[x] = 0 /\ r.shares[x] = 0)
      <3>1. \A x \in Grid!Sides : p.shares[x] = 0 => r.shares[x] = 0
        BY <1>2, <2>1, <2>2, <2>6, <1>4
      <3> QED BY <1>1, <3>1
    <2>8. \A x \in Grid!Sides : r.sold[x] =>
            /\ r.shares[x] <= r.scalp[x].shares
            /\ r.shares[x] = 0 \/ r.scalp[x].cost > 0
      <3> SUFFICES ASSUME NEW x \in Grid!Sides, p.sold[x]
                   PROVE  /\ r.shares[x] <= r.scalp[x].shares
                          /\ r.shares[x] = 0 \/ r.scalp[x].cost > 0
        BY <2>6
      <3>1. CASE x = side
        <4>1. r.shares[x] = 0
          BY <1>1, <1>4, <2>1, <2>2, <2>6, <3>1
        <4> QED BY <2>4, <2>6, <3>1, <4>1
      <3>2. CASE x # side
        BY <1>1, <2>2, <2>4, <2>6, <3>2
      <3> QED BY <3>1, <3>2
    <2>9. released \/ p.waived \/ p.buys > 0
      BY <1>1, <1>2, <1>6 DEF Keeps
    <2> QED BY <2>5, <2>6, <2>7, <2>8, <2>9 DEF Sound, BuySound
  <1>7. CASE /\ ~(s.shares > 0 /\ s.cost > 0) /\ Grid!ScalpDue(p, side, t)
             /\ r = [p EXCEPT !.buys = usd, !.scalp[side] = taken]
    <2>1. /\ Grid!TimePct <= 55 /\ t.spot.zone \in {"near", "moderate"}
          /\ Grid!Ask(side, t) > 0 /\ Grid!Ask(side, t) <= Grid!ScalpCap(t)
          /\ s.tranches < 2 /\ usd >= 35
      BY <1>7 DEF Grid!ScalpDue
    <2>2. Grid!Ask(side, t) \in 1 .. 22
      <3>1. Grid!ScalpCap(t) \in {12, 18, 20, 22}
        BY DEF Grid!ScalpCap
      <3> QED BY <1>2, <2>1, <3>1, BookOfTick
    <2>3. usd \in Nat
      <3>1. paid * 35 \in Nat
        BY GridFacts
      <3>2. usd = (paid * 35) \div 1000
        BY DEF Grid!ScalpUsd
      <3> HIDE DEF usd
      <3> QED BY <3>1, <3>2
    <2> HIDE DEF usd
    <2>4. bought \in Nat /\ bought >= 100
      BY <2>1, <2>2, <2>3, ScalpBuys
    <2> HIDE DEF bought
    <2>5. taken \in Tranches /\ taken.shares = bought /\ taken.cost = usd
      BY <1>4, <2>1, <2>3, <2>4 DEF Tranches
    <2> HIDE DEF taken
    <2>6. held \in [Grid!Sides -> Tranches] /\ held[side] = taken
          /\ \A x \in Grid!Sides \ {side} : held[x] = p.scalp[x]
      BY <1>1, <1>2, <2>5 DEF Plans
    <2>7. r = [p EXCEPT !.buys = usd, !.scalp = held]
      BY <1>1, <1>7 DEF Plans
    <2> HIDE DEF held
    <2>8. r \in Plans
      BY <1>1, <2>3, <2>6, <2>7 DEF Plans
    <2>9. /\ r.shares = p.shares /\ r.sold = p.sold /\ r.scalp = held /\ r.buys = usd
      BY <1>1, <2>7 DEF Plans
    <2>10. p.sold[side] => p.shares[side] = 0
      BY <1>1, <1>2, <1>4, <1>7
    <2>11. \A x \in Grid!Sides : r.sold[x] =>
            /\ r.shares[x] <= r.scalp[x].shares
            /\ r.shares[x] = 0 \/ r.scalp[x].cost > 0
      <3> SUFFICES ASSUME NEW x \in Grid!Sides, p.sold[x]
                   PROVE  /\ r.shares[x] <= r.scalp[x].shares
                          /\ r.shares[x] = 0 \/ r.scalp[x].cost > 0
        BY <2>9
      <3>1. CASE x = side
        BY <2>4, <2>5, <2>6, <2>9, <2>10, <3>1
      <3>2. CASE x # side
        BY <1>1, <2>6, <2>9, <3>2
      <3> QED BY <3>1, <3>2
    <2>12. Sound(r)
      BY <1>1, <2>1, <2>3, <2>8, <2>9, <2>11 DEF Sound
    <2>13. BuySound(r, t)
      <3>1. (r.buys * 100) \div Grid!Ask(side, t) = bought
        BY <2>9 DEF bought
      <3>2. r.sold[side] => r.shares[side] = 0 /\ r.scalp[side].shares = bought /\ r.scalp[side].cost > 0
        BY <2>1, <2>3, <2>5, <2>6, <2>9, <2>10
      <3> QED BY <2>1, <2>4, <3>1, <3>2 DEF BuySound, side
    <2> QED BY <2>12, <2>13
  <1> QED BY <1>3, <1>5, <1>6, <1>7

\* What is kept covers the insurance, whatever the steps of the grid.
LEMMA KeepsFloor ==
  ASSUME NEW p \in Plans, NEW side \in Grid!Sides, initial_shares[side] \in Nat, Keeps(p, side)
  PROVE  100 * p.shares[side] >= 7 * initial_shares[side]
  <1>1. p.shares[side] \in Nat /\ p.reserve[side] \in Nat /\ p.steps[side] \in 0 .. 3
    BY DEF Plans
  <1>2. CASE p.reserve[side] > 0
    BY <1>1, <1>2 DEF Keeps
  <1>3. CASE p.reserve[side] = 0
    BY <1>1, <1>3 DEF Keeps
  <1> QED BY <1>1, <1>2, <1>3

\* No insurance is asked in the last tenth of the window, and of a runaway spot.
LEMMA InsurancePctOf ==
  ASSUME Grid!TypeOK, NEW t
  PROVE  /\ Grid!InsurancePct(t) \in Nat
         /\ Grid!InsurancePct(t) >= 8
              \/ (Grid!InsurancePct(t) = 0 /\ (Grid!TimePct >= 90 \/ t.spot.zone = "runaway"))
  BY DEF Grid!InsurancePct, Grid!Most, Grid!Least

LEMMA InsuranceOf ==
  ASSUME Grid!TypeOK, NEW p \in Plans, NEW side \in Grid!Sides, NEW t
  PROVE  /\ Grid!Insurance(p, side, t) \in 0 .. p.shares[side]
         /\ Grid!InsurancePct(t) # 0 /\ initial_shares[side] >= 100 /\ p.shares[side] > 0
              => /\ Grid!Insurance(p, side, t) > 0
                 /\ 100 * p.shares[side] >= 7 * initial_shares[side]
                      => 100 * Grid!Insurance(p, side, t) >= 7 * initial_shares[side]
  <1> DEFINE pct     == Grid!InsurancePct(t)
             initial == initial_shares[side]
             base    == IF initial > 0 THEN initial ELSE p.shares[side]
             cut     == Grid!Part(pct, base)
             mine    == p.shares[side]
  <1>1. initial \in Nat /\ mine \in Nat
    BY GridFacts DEF Plans
  <1>2. pct \in Nat /\ (pct >= 8 \/ pct = 0)
    BY InsurancePctOf
  <1>3. Grid!Insurance(p, side, t) = Grid!Least(cut, mine)
    BY DEF Grid!Insurance
  <1>a. base \in Nat /\ (initial > 0 => base = initial)
    BY <1>1
  <1> HIDE DEF pct, base
  <1>4. cut \in Nat /\ base * pct <= 100 * cut + 99
    BY <1>2, <1>a, PartOf
  <1>5. pct >= 8 => base * pct >= base * 8
    BY <1>2, <1>a
  <1>6. base * pct \in Nat
    BY <1>2, <1>a
  <1> HIDE DEF cut, mine, initial
  <1>7. pct >= 8 /\ initial >= 100 => 100 * cut >= 7 * initial
    BY <1>1, <1>4, <1>5, <1>6, <1>a
  <1>8. Grid!Least(cut, mine) \in 0 .. mine
    BY <1>1, <1>4 DEF Grid!Least
  <1>9. pct # 0 /\ initial >= 100 /\ mine > 0
          => /\ Grid!Least(cut, mine) > 0
             /\ 100 * mine >= 7 * initial => 100 * Grid!Least(cut, mine) >= 7 * initial
    BY <1>1, <1>2, <1>4, <1>7 DEF Grid!Least
  <1> QED BY <1>3, <1>8, <1>9 DEF pct, mine, initial

\* An exit leaves at least the insurance.
LEMMA ExitAmountOf ==
  ASSUME Grid!TypeOK, NEW p \in Plans, NEW side \in Grid!Sides, NEW t \in Grid!Ticks,
         Grid!ExitAmount(p, side, t) > 0
  PROVE  /\ Grid!ExitAmount(p, side, t) \in Nat
         /\ Grid!ExitAmount(p, side, t) <= p.shares[side]
         /\ p.shares[side] - Grid!ExitAmount(p, side, t) >= Grid!Insurance(p, side, t)
  <1> DEFINE mine    == p.shares[side]
             core    == Grid!Least(p.shares[side], p.shares[Grid!Other(side)])
             owed    == Grid!Most(paid - p.returned, 0)
             price   == Grid!Most(Grid!Bid(side, t), 1)
             spared  == (100 * owed) \div price
             share   == Grid!Part(Grid!CorePct(side, t), core)
             ofCore  == Grid!Least(Grid!Least(core, spared), share)
             planned == mine - core + ofCore
             kept    == Grid!Insurance(p, side, t)
             amount  == Grid!ExitAmount(p, side, t)
  <1>1. mine \in Nat /\ p.shares[Grid!Other(side)] \in Nat /\ p.returned \in Nat
    BY GridSides DEF Plans
  <1>2. core \in Nat
    BY <1>1 DEF Grid!Least
  <1>3. spared \in Nat
    <2>1. owed \in Nat
      BY <1>1, GridFacts DEF Grid!Most
    <2>2. price \in Nat \ {0}
      BY BookOfTick DEF Grid!Most
    <2> HIDE DEF owed, price
    <2>3. 100 * owed \in Nat
      BY <2>1
    <2> QED BY <2>2, <2>3, Quotient
  <1>4. share \in Nat
    <2>1. Grid!CorePct(side, t) \in Nat
      BY DEF Grid!CorePct
    <2> HIDE DEF core
    <2> QED BY <1>2, <2>1, PartOf
  <1>5. kept \in 0 .. mine
    BY InsuranceOf
  <1>6. amount = Grid!Least(planned, Grid!Most(mine - kept, 0))
    BY DEF Grid!ExitAmount
  <1> HIDE DEF core, spared, share, mine, kept
  <1>7. planned \in Int
    BY <1>1, <1>2, <1>3, <1>4 DEF Grid!Least
  <1> HIDE DEF planned, amount
  <1>8. amount > 0
    BY DEF amount
  <1>9. amount \in Nat /\ amount <= mine /\ mine - amount >= kept
    BY <1>1, <1>5, <1>6, <1>7, <1>8 DEF Grid!Least, Grid!Most
  <1> QED BY <1>9 DEF amount, mine, kept

\* An exit of the other side leaves the reserve it records, and a side it empties is one
\* without insurance.
LEMMA WeakKeeps ==
  ASSUME Grid!TypeOK, NEW p, NEW t \in Grid!Ticks, Sound(p), BuySound(p, t)
  PROVE  Sound(Grid!WeakExit(p, t)) /\ BuySound(Grid!WeakExit(p, t), t)
  <1> DEFINE side   == Grid!Other(p.first)
             amount == Grid!ExitAmount(p, side, t)
             rest   == p.shares[side] - amount
             s      == p.scalp[side]
             kept   == Grid!Least(Grid!Most(s.shares - amount, 0), rest)
             after  == Grid!Sells(p, side, amount, t)
             less   == (s.cost * kept) \div s.shares
             stays  == IF s.shares = 0 THEN s ELSE [s EXCEPT !.shares = kept, !.cost = less]
             marks  == [after.sold EXCEPT ![side] = (rest = 0)]
             held   == [after.scalp EXCEPT ![side] = stays]
             kepts  == [after.reserve EXCEPT ![side] = rest]
             waives == after.waived \/ Grid!InsurancePct(t) = 0
             r      == Grid!WeakExit(p, t)
  <1> SUFFICES Sound(r) /\ BuySound(r, t)
    OBVIOUS
  <1>1. /\ p \in Plans
        /\ \A x \in Grid!Sides : initial_shares[x] >= 100
                                 \/ (initial_shares[x] = 0 /\ p.shares[x] = 0)
        /\ \A x \in Grid!Sides : p.sold[x] =>
             /\ p.shares[x] <= p.scalp[x].shares
             /\ p.shares[x] = 0 \/ p.scalp[x].cost > 0
        /\ released \/ p.waived \/ p.buys > 0 \/ \A x \in Grid!Sides : Keeps(p, x)
    BY DEF Sound
  <1>2. \/ r = p
        \/ /\ p.first # "none" /\ Grid!ExitDue(p, side, t)
           /\ r = [after EXCEPT
                     !.sold[side] = (rest = 0),
                     !.scalp[side] = IF s.shares = 0 THEN s
                                     ELSE [s EXCEPT !.shares = kept,
                                                    !.cost = (s.cost * kept) \div s.shares],
                     !.reserve[side] = rest,
                     !.waived = @ \/ Grid!InsurancePct(t) = 0]
    BY DEF Grid!WeakExit
  <1> HIDE DEF r
  <1>3. CASE r = p
    BY <1>3
  <1>4. CASE /\ p.first # "none" /\ Grid!ExitDue(p, side, t)
             /\ r = [after EXCEPT
                       !.sold[side] = (rest = 0),
                       !.scalp[side] = IF s.shares = 0 THEN s
                                       ELSE [s EXCEPT !.shares = kept,
                                                      !.cost = (s.cost * kept) \div s.shares],
                       !.reserve[side] = rest,
                       !.waived = @ \/ Grid!InsurancePct(t) = 0]
    <2>1. side \in Grid!Sides
      BY <1>1, <1>4, GridSides DEF Plans
    <2>2. /\ p.shares[side] > 0 /\ ~p.sold[side] /\ side # Grid!Leader(t) /\ amount > 0
      BY <1>4 DEF Grid!ExitDue
    <2>3. side = Grid!Other(Grid!Leader(t))
      BY <2>1, <2>2, GridSides DEF Grid!Other
    <2> HIDE DEF side
    <2>4. amount \in Nat /\ amount <= p.shares[side] /\ rest >= Grid!Insurance(p, side, t)
      BY <1>1, <2>1, <2>2, ExitAmountOf
    <2>5. p.shares[side] \in Nat /\ initial_shares[side] >= 100 /\ initial_shares[side] \in Nat
      BY <1>1, <2>1, <2>2, GridFacts DEF Plans
    <2>6. /\ s \in Tranches /\ s.shares \in Nat /\ s.cost \in Nat
      BY <1>1, <2>1 DEF Plans, Tranches
    <2> HIDE DEF amount
    <2>7. rest \in Nat
      BY <2>4, <2>5
    <2>8. /\ after \in Plans
          /\ after.shares[side] = p.shares[side] - amount
          /\ \A x \in Grid!Sides \ {side} : after.shares[x] = p.shares[x]
          /\ after.sold = p.sold /\ after.scalp = p.scalp /\ after.buys = p.buys
          /\ after.reserve = p.reserve /\ after.steps = p.steps /\ after.waived = p.waived
      BY <1>1, <2>1, <2>4, PlanOfSale
    <2> HIDE DEF after
    <2>9. after.shares[side] = rest
      BY <2>8
    <2>10. r = [after EXCEPT !.sold = marks, !.scalp = held, !.reserve = kepts, !.waived = waives]
      BY <1>4, Zenon
    <2> HIDE DEF rest, s
    <2>11. kept \in Nat
      BY <2>4, <2>6, <2>7 DEF Grid!Least, Grid!Most
    <2> HIDE DEF kept
    <2>12. stays \in Tranches /\ (s.shares = 0 => stays = s)
      <3>1. s.shares # 0 => less \in Nat
        <4> DEFINE x == s.cost * kept
        <4>1. x \in Nat
          BY <2>6, <2>11, Products
        <4> HIDE DEF x
        <4>2. s.shares # 0 => x \div s.shares \in Nat
          BY <2>6, <4>1, Quotient
        <4> QED BY <4>2 DEF x
      <3> HIDE DEF less
      <3> QED BY <2>6, <2>11, <3>1 DEF Tranches
    <2> HIDE DEF stays
    <2>13. held \in [Grid!Sides -> Tranches] /\ held[side] = stays
           /\ \A x \in Grid!Sides \ {side} : held[x] = p.scalp[x]
      BY <2>1, <2>8, <2>12 DEF Plans
    <2>14. kepts \in [Grid!Sides -> Nat] /\ kepts[side] = rest
           /\ \A x \in Grid!Sides \ {side} : kepts[x] = p.reserve[x]
      BY <2>1, <2>7, <2>8 DEF Plans
    <2>15. marks \in [Grid!Sides -> BOOLEAN]
      BY <2>8, Zenon DEF Plans
    <2>16. (marks[side] => rest = 0) /\ \A x \in Grid!Sides \ {side} : marks[x] = p.sold[x]
      BY <2>1, <2>8 DEF Plans
    <2>17. waives \in BOOLEAN
      <3>1. after.waived \in BOOLEAN
        BY <2>8 DEF Plans
      <3> QED BY <3>1, Zenon
    <2>18. ~waives => ~p.waived /\ Grid!InsurancePct(t) # 0
      BY <2>8, Zenon
    <2> HIDE DEF held, kepts, marks, waives
    <2>19. r \in Plans
      BY <2>8, <2>10, <2>13, <2>14, <2>15, <2>17 DEF Plans
    <2>20. /\ r.shares = after.shares /\ r.sold = marks /\ r.scalp = held /\ r.reserve = kepts
           /\ r.steps = p.steps /\ r.buys = p.buys
      BY <2>8, <2>10 DEF Plans
    <2>21. r.waived = waives
      BY <2>8, <2>10 DEF Plans
    <2>22. Grid!InsurancePct(t) # 0 =>
             /\ rest > 0
             /\ 100 * p.shares[side] >= 7 * initial_shares[side] => 100 * rest >= 7 * initial_shares[side]
      <3>1. /\ Grid!Insurance(p, side, t) \in 0 .. p.shares[side]
            /\ Grid!InsurancePct(t) # 0 /\ initial_shares[side] >= 100 /\ p.shares[side] > 0
                 => /\ Grid!Insurance(p, side, t) > 0
                    /\ 100 * p.shares[side] >= 7 * initial_shares[side]
                         => 100 * Grid!Insurance(p, side, t) >= 7 * initial_shares[side]
        BY <1>1, <2>1, InsuranceOf
      <3>2. rest >= Grid!Insurance(p, side, t)
        BY <2>4
      <3> QED BY <2>2, <2>5, <2>7, <3>1, <3>2
    <2>23. \A x \in Grid!Sides : initial_shares[x] >= 100
                                 \/ (initial_shares[x] = 0 /\ r.shares[x] = 0)
      BY <1>1, <2>5, <2>8, <2>20
    <2>24. \A x \in Grid!Sides : r.sold[x] =>
             /\ r.shares[x] <= r.scalp[x].shares
             /\ r.shares[x] = 0 \/ r.scalp[x].cost > 0
      <3> SUFFICES ASSUME NEW x \in Grid!Sides, r.sold[x]
                   PROVE  /\ r.shares[x] <= r.scalp[x].shares
                          /\ r.shares[x] = 0 \/ r.scalp[x].cost > 0
        OBVIOUS
      <3>1. CASE x = side
        <4>1. r.shares[x] = 0
          BY <2>9, <2>16, <2>20, <3>1
        <4>2. r.scalp[x].shares \in Nat
          BY <2>19 DEF Plans, Tranches
        <4> QED BY <4>1, <4>2
      <3>2. CASE x # side
        BY <1>1, <2>8, <2>13, <2>16, <2>20, <3>2
      <3> QED BY <3>1, <3>2
    <2>25. released \/ r.waived \/ r.buys > 0 \/ \A x \in Grid!Sides : Keeps(r, x)
      <3> SUFFICES ASSUME ~released, ~waives, ~(p.buys > 0), NEW x \in Grid!Sides
                   PROVE  Keeps(r, x)
        BY <2>20, <2>21, Zenon
      <3>1. Keeps(p, x) /\ Keeps(p, side) /\ Grid!InsurancePct(t) # 0
        BY <1>1, <2>1, <2>18
      <3>2. CASE x # side
        BY <2>8, <2>13, <2>14, <2>20, <3>1, <3>2 DEF Keeps
      <3>3. CASE x = side
        <4>1. 100 * p.shares[side] >= 7 * initial_shares[side]
          BY <1>1, <2>1, <2>5, <3>1, KeepsFloor
        <4>2. rest > 0 /\ 100 * rest >= 7 * initial_shares[side]
          BY <2>22, <3>1, <4>1
        <4>3. r.scalp[side].shares = 0
          BY <2>12, <2>13, <2>20, <3>1 DEF Keeps, s
        <4>4. r.shares[side] = rest /\ r.reserve[side] = rest
          BY <2>9, <2>14, <2>20
        <4> QED BY <2>7, <3>3, <4>2, <4>3, <4>4 DEF Keeps
      <3> QED BY <3>2, <3>3
    <2>26. Sound(r)
      BY <2>19, <2>23, <2>24, <2>25 DEF Sound
    <2>27. BuySound(r, t)
      <3> SUFFICES ASSUME p.buys > 0
                   PROVE  BuySound(r, t)
        BY <2>20 DEF BuySound
      <3>1. LET bought == (p.buys * 100) \div Grid!Ask(side, t)
            IN  /\ bought \in Nat /\ bought >= 100
                /\ Grid!TimePct <= 55 /\ t.spot.zone \in {"near", "moderate"}
        BY <2>3 DEF BuySound
      <3>2. Grid!TimePct \in Nat
        <4>1. now * 100 \in Nat /\ GridDuration \in Nat \ {0}
          BY GridFacts, GridConstants
        <4> QED BY <4>1, Quotient DEF Grid!TimePct
      <3>3. Grid!InsurancePct(t) # 0
        BY <3>1, <3>2, InsurancePctOf
      <3>4. ~r.sold[side]
        BY <2>7, <2>16, <2>20, <2>22, <3>3
      <3> QED BY <2>3, <2>20, <3>1, <3>4 DEF BuySound
    <2> QED BY <2>26, <2>27
  <1> QED BY <1>2, <1>3, <1>4

\* The state as a plan.
LEMMA PlanOfState ==
  ASSUME Grid!TypeOK
  PROVE  /\ Grid!Plan \in Plans
         /\ Grid!Plan.shares = shares /\ Grid!Plan.sold = sold /\ Grid!Plan.scalp = scalp
         /\ Grid!Plan.reserve = reserve /\ Grid!Plan.steps = steps_hit
         /\ Grid!Plan.buys = 0 /\ Grid!Plan.waived = FALSE /\ Grid!Plan.first = first_sold_side
         /\ Grid!Plan.returned = cash_returned
  BY DEF Grid!Plan, Grid!TypeOK, Plans, Tranches

\* The rules of a tick, one after the other.
LEMMA PlannedSound ==
  ASSUME GridInv, NEW t \in Grid!Ticks, NEW p \in Grid!Planned(t)
  PROVE  Sound(p) /\ BuySound(p, t)
  <1>1. PICK e, g, q : /\ e = Grid!Emergency(Grid!Emergency(Grid!Plan, "UP", t), "DOWN", t)
                       /\ g = Grid!StrongGrid(e, t) /\ q = Grid!Scalp(g, t)
                       /\ p = Grid!WeakExit(q, t)
    BY DEF Grid!Planned
  <1>2. Grid!TypeOK /\ Sound(Grid!Plan) /\ Grid!Plan.buys = 0
    BY PlanOfState DEF GridInv
  <1>3. "UP" \in Grid!Sides /\ "DOWN" \in Grid!Sides
    BY DEF Grid!Sides
  <1>4. Sound(e) /\ e.buys = 0
    BY <1>1, <1>2, <1>3, EmergencyKeeps
  <1>5. Sound(g) /\ g.buys = 0
    BY <1>1, <1>2, <1>4, StrongKeeps
  <1>6. Sound(q) /\ BuySound(q, t)
    BY <1>1, <1>2, <1>5, ScalpKeeps
  <1> QED BY <1>1, <1>2, <1>6, WeakKeeps

\* The ledger makes the sales of the plan, and its buy or none.
LEMMA TickStep ==
  ASSUME GridInv, NEW t \in Grid!Ticks, Grid!Tick(t)
  PROVE  GridInv'
  <1> DEFINE side == Grid!Other(Grid!Leader(t))
  <1>1. PICK p \in Grid!Planned(t) :
          /\ \/ /\ p.buys >= MinTrade
                /\ shares' = [p.shares EXCEPT ![side] = @ + (p.buys * 100) \div Grid!Ask(side, t)]
                /\ initial_shares' = [initial_shares EXCEPT ![side] =
                                        @ + (p.buys * 100) \div Grid!Ask(side, t)]
                /\ paid' = paid + p.buys
             \/ shares' = p.shares /\ UNCHANGED <<initial_shares, paid>>
          /\ cash_returned' = p.returned
          /\ sold' = p.sold /\ first_sold_side' = p.first /\ steps_hit' = p.steps
          /\ scalp' = p.scalp /\ reserve' = p.reserve
          /\ released' = (released \/ p.waived \/ p.buys > 0)
          /\ now' \in GridMoments
    BY DEF Grid!Tick
  <1> DEFINE bought == (p.buys * 100) \div Grid!Ask(side, t)
  <1>2. Grid!TypeOK /\ Sound(p) /\ BuySound(p, t)
    BY PlannedSound DEF GridInv
  <1>3. /\ p \in Plans
        /\ \A x \in Grid!Sides : initial_shares[x] >= 100
                                 \/ (initial_shares[x] = 0 /\ p.shares[x] = 0)
        /\ \A x \in Grid!Sides : p.sold[x] =>
             /\ p.shares[x] <= p.scalp[x].shares
             /\ p.shares[x] = 0 \/ p.scalp[x].cost > 0
        /\ released \/ p.waived \/ p.buys > 0 \/ \A x \in Grid!Sides : Keeps(p, x)
    BY <1>2 DEF Sound
  <1>4. side \in Grid!Sides /\ \A x \in Grid!Sides : p.shares[x] \in Nat /\ initial_shares[x] \in Nat
    BY <1>2, <1>3, GridSides, GridFacts DEF Plans
  <1>5. p.buys > 0 => /\ bought \in Nat /\ bought >= 100
                      /\ p.sold[side] => /\ p.shares[side] = 0
                                         /\ p.scalp[side].shares = bought /\ p.scalp[side].cost > 0
    BY <1>2 DEF BuySound
  <1> HIDE DEF side, bought
  <1>6. p.buys \in Nat /\ MinTrade \in Nat \ {0}
    BY <1>3, GridConstants DEF Plans
  <1>7. \/ /\ p.buys > 0 /\ bought \in Nat /\ bought >= 100
           /\ shares' = [p.shares EXCEPT ![side] = @ + bought]
           /\ initial_shares' = [initial_shares EXCEPT ![side] = @ + bought]
           /\ paid' = paid + p.buys
        \/ shares' = p.shares /\ UNCHANGED <<initial_shares, paid>>
    BY <1>1, <1>5, <1>6 DEF bought
  <1>8. shares' \in [Grid!Sides -> Nat] /\ initial_shares' \in [Grid!Sides -> Nat] /\ paid' \in Nat
    BY <1>2, <1>3, <1>4, <1>6, <1>7, GridFacts DEF Plans
  <1>9. Grid!TypeOK'
    <2>1. /\ now' \in GridMoments /\ cash_returned' \in Nat /\ sold' \in [Grid!Sides -> BOOLEAN]
          /\ first_sold_side' \in Grid!Sides \cup {"none"} /\ steps_hit' \in [Grid!Sides -> 0 .. 3]
          /\ scalp' \in [Grid!Sides -> Tranches] /\ reserve' \in [Grid!Sides -> Nat]
      BY <1>1, <1>3 DEF Plans
    <2> QED BY <1>8, <2>1 DEF Grid!TypeOK, Grid!Sides, Tranches
  <1>10. /\ (Grid!Plan)' \in Plans
         /\ (Grid!Plan)'.shares = shares' /\ (Grid!Plan)'.sold = sold' /\ (Grid!Plan)'.scalp = scalp'
         /\ (Grid!Plan)'.reserve = reserve' /\ (Grid!Plan)'.steps = steps_hit'
    BY <1>9 DEF Grid!Plan, Grid!TypeOK, Plans, Tranches, Grid!Sides
  <1>11. \A x \in Grid!Sides : /\ shares'[x] >= p.shares[x]
                               /\ x # side => shares'[x] = p.shares[x] /\ initial_shares'[x] = initial_shares[x]
                               /\ initial_shares'[x] >= 100
                                    \/ (initial_shares'[x] = 0 /\ shares'[x] = 0)
    <2>1. CASE /\ p.buys > 0 /\ bought \in Nat /\ bought >= 100
               /\ shares' = [p.shares EXCEPT ![side] = @ + bought]
               /\ initial_shares' = [initial_shares EXCEPT ![side] = @ + bought]
      <3>1. \A x \in Grid!Sides :
              /\ shares'[x] = IF x = side THEN p.shares[x] + bought ELSE p.shares[x]
              /\ initial_shares'[x] = IF x = side THEN initial_shares[x] + bought ELSE initial_shares[x]
        BY <1>2, <1>3, <1>4, <2>1, GridFacts DEF Plans
      <3> QED BY <1>3, <1>4, <2>1, <3>1
    <2>2. CASE shares' = p.shares /\ UNCHANGED <<initial_shares, paid>>
      BY <1>3, <1>4, <2>2
    <2> QED BY <1>7, <2>1, <2>2
  <1>12. \A x \in Grid!Sides : sold'[x] =>
           /\ shares'[x] <= scalp'[x].shares
           /\ shares'[x] = 0 \/ scalp'[x].cost > 0
    <2> SUFFICES ASSUME NEW x \in Grid!Sides, p.sold[x]
                 PROVE  /\ shares'[x] <= p.scalp[x].shares
                        /\ shares'[x] = 0 \/ p.scalp[x].cost > 0
      BY <1>1
    <2>1. CASE shares'[x] = p.shares[x]
      BY <1>3, <2>1
    <2>2. CASE shares'[x] # p.shares[x]
      <3>1. x = side
        BY <1>11, <2>2
      <3>2. /\ p.buys > 0 /\ shares' = [p.shares EXCEPT ![side] = @ + bought] /\ bought \in Nat
        BY <1>7, <2>2
      <3>3. shares'[x] = p.shares[x] + bought
        BY <1>3, <1>4, <3>1, <3>2 DEF Plans
      <3>4. shares'[x] = bought
        BY <1>5, <3>1, <3>2, <3>3
      <3> QED BY <1>5, <3>1, <3>2, <3>4
    <2> QED BY <2>1, <2>2
  <1>13. released' \/ \A x \in Grid!Sides : Keeps(p, x)
    BY <1>1, <1>3
  <1>14. released' \/ (UNCHANGED initial_shares /\ shares' = p.shares)
    BY <1>1, <1>7
  <1>15. released' \/ \A x \in Grid!Sides : Keeps(Grid!Plan, x)'
    <2> SUFFICES ASSUME ~released', NEW x \in Grid!Sides
                 PROVE  Keeps(Grid!Plan, x)'
      BY DEF Grid!Sides
    <2>1. Keeps(p, x) /\ UNCHANGED initial_shares /\ shares' = p.shares
      BY <1>13, <1>14
    <2> QED BY <1>1, <1>10, <2>1 DEF Keeps
  <1>16. Sound(Grid!Plan)'
    <2>1. /\ (Grid!Plan)' \in Plans
          /\ \A x \in Grid!Sides : initial_shares'[x] >= 100
                                   \/ (initial_shares'[x] = 0 /\ (Grid!Plan)'.shares[x] = 0)
          /\ \A x \in Grid!Sides : (Grid!Plan)'.sold[x] =>
               /\ (Grid!Plan)'.shares[x] <= (Grid!Plan)'.scalp[x].shares
               /\ (Grid!Plan)'.shares[x] = 0 \/ (Grid!Plan)'.scalp[x].cost > 0
      BY <1>10, <1>11, <1>12
    <2> QED BY <1>15, <2>1 DEF Sound, Plans, Grid!Sides
  <1> QED BY <1>9, <1>16 DEF GridInv

LEMMA GridStart ==
  ASSUME Grid!Init
  PROVE  GridInv
  <1>1. PICK e \in Entries : shares = e.shares /\ paid = e.spent
    BY DEF Grid!Init
  <1>2. e.spent \in Nat \ {0} /\ e.shares \in [Grid!Sides -> {0} \cup Grid!Bought]
    BY GridConstants
  <1>3. /\ shares \in [Grid!Sides -> Nat] /\ paid \in Nat /\ initial_shares = shares
        /\ \A x \in Grid!Sides : shares[x] >= 100 \/ shares[x] = 0
    BY <1>1, <1>2 DEF Grid!Init, Grid!Bought
  <1>4. Grid!TypeOK
    BY <1>3, GridConstants DEF Grid!Init, Grid!TypeOK, Grid!NoScalp
  <1>5. /\ Grid!Plan \in Plans
        /\ Grid!Plan.shares = shares /\ Grid!Plan.sold = sold /\ Grid!Plan.scalp = scalp
        /\ Grid!Plan.reserve = reserve /\ Grid!Plan.steps = steps_hit
    BY <1>4, PlanOfState
  <1>6. \A x \in Grid!Sides : Keeps(Grid!Plan, x)
    BY <1>3, <1>5 DEF Keeps, Grid!Init, Grid!NoScalp
  <1>7. \A x \in Grid!Sides : ~sold[x]
    BY DEF Grid!Init
  <1> QED BY <1>3, <1>4, <1>5, <1>6, <1>7 DEF GridInv, Sound

-----------------------------------------------------------------------------
(* The three parts together                                                *)

\* One of the three parts runs, in its invariant.
PartsInv ==
  /\ part = "entry" => EntryInv
  /\ part = "exits" => ExitsInv
  /\ part = "grid"  => GridInv

LEMMA PartsStart ==
  ASSUME Init
  PROVE  PartsInv
  BY EntryStart, ExitsStart, GridStart DEF Init, PartsInv

LEMMA PartsStutter ==
  ASSUME PartsInv, UNCHANGED vars
  PROVE  PartsInv'
  <1> USE DEF vars, entryVars, saleVars, exitVars, gridVars
  <1>1. part = "entry" => EntryInv'
    <2> SUFFICES ASSUME part = "entry"
                 PROVE  EntryInv'
      OBVIOUS
    <2>1. EntryInv /\ requests' = (IF attempted' THEN 1 ELSE 0)
      BY DEF PartsInv, EntryInv
    <2>2. UNCHANGED Booked
      BY DEF Booked
    <2>3. Entry!TypeOK'
      BY <2>1 DEF EntryInv, Entry!TypeOK, Entry!Least
    <2> QED BY <2>1, <2>2, <2>3, NothingBooked
  <1>2. part = "exits" => ExitsInv'
    BY DEF PartsInv, ExitsInv, Exits!TypeOK, Exits!SoldLeavesNothing, Exits!LadderKeepsHalf,
           Exits!StepsOf, Exits!Strong, Exits!Sides
  <1>3. part = "grid" => GridInv'
    <2> SUFFICES ASSUME part = "grid"
                 PROVE  GridInv'
      OBVIOUS
    <2>1. Grid!TypeOK /\ Sound(Grid!Plan)
      BY DEF PartsInv, GridInv
    <2>2. Grid!TypeOK'
      BY <2>1 DEF Grid!TypeOK, Grid!Sides
    <2>3. (Grid!Plan)' = Grid!Plan
      BY DEF Grid!Plan
    <2>4. Sound(Grid!Plan)'
      BY <2>1, <2>3 DEF Sound, Keeps, Plans, Grid!Sides
    <2> QED BY <2>2, <2>4 DEF GridInv
  <1> QED BY <1>1, <1>2, <1>3 DEF PartsInv

LEMMA PartsStep ==
  ASSUME PartsInv, Next
  PROVE  PartsInv'
  <1>1. CASE part = "entry" /\ Entry!Next /\ UNCHANGED <<part, saleVars, exitVars, gridVars>>
    <2>1. EntryInv'
      BY <1>1, EntryStep DEF PartsInv
    <2> QED BY <1>1, <2>1 DEF PartsInv
  <1>2. CASE part = "exits" /\ Exits!Next /\ UNCHANGED <<part, entryVars, gridVars>>
    <2>1. ExitsInv'
      BY <1>2, ExitsStep DEF PartsInv
    <2> QED BY <1>2, <2>1 DEF PartsInv
  <1>3. CASE part = "grid" /\ Grid!Next /\ UNCHANGED <<part, entryVars, exitVars>>
    <2>1. PICK t \in Grid!Ticks : Grid!Tick(t)
      BY <1>3 DEF Grid!Next
    <2>2. GridInv'
      BY <1>3, <2>1, TickStep DEF PartsInv
    <2> QED BY <1>3, <2>2 DEF PartsInv
  <1> QED BY <1>1, <1>2, <1>3 DEF Next

\* The invariants of the parts are stronger than the properties.
LEMMA PartsAreSafe ==
  ASSUME PartsInv
  PROVE  PairsInv
  <1>1. EntryInv => Entry!OneRequest
    BY DEF EntryInv, Entry!OneRequest
  <1>2. GridInv => Grid!InsuranceKept /\ Grid!SoldIsScalpOnly
    <2> SUFFICES ASSUME GridInv
                 PROVE  Grid!InsuranceKept /\ Grid!SoldIsScalpOnly
      OBVIOUS
    <2>1. /\ Grid!TypeOK /\ Grid!Plan \in Plans
          /\ Grid!Plan.shares = shares /\ Grid!Plan.sold = sold /\ Grid!Plan.scalp = scalp
          /\ Grid!Plan.reserve = reserve /\ Grid!Plan.buys = 0 /\ Grid!Plan.waived = FALSE
      BY PlanOfState DEF GridInv
    <2>2. Grid!SoldIsScalpOnly
      BY <2>1 DEF GridInv, Sound, Grid!SoldIsScalpOnly
    <2>3. released \/ \A side \in Grid!Sides : Keeps(Grid!Plan, side)
      BY <2>1 DEF GridInv, Sound
    <2>4. Grid!InsuranceKept
      <3> SUFFICES ASSUME ~released, NEW side \in Grid!Sides
                   PROVE  shares[side] >= reserve[side] /\ 100 * shares[side] >= 7 * initial_shares[side]
        BY DEF Grid!InsuranceKept
      <3>1. Keeps(Grid!Plan, side) /\ initial_shares[side] \in Nat
        BY <2>1, <2>3, GridFacts
      <3>2. 100 * Grid!Plan.shares[side] >= 7 * initial_shares[side]
        BY <2>1, <3>1, KeepsFloor
      <3> QED BY <2>1, <3>1, <3>2 DEF Keeps
    <2> QED BY <2>2, <2>4
  <1> QED BY <1>1, <1>2 DEF PartsInv, PairsInv, EntryInv, ExitsInv, GridInv

\* Whatever the bank, the quotes, the signals and the pauses for the model: a window is
\* LIVE exactly when money was put into it, within its budget, with a paired core, after
\* one request (monitor_time, calculate_window_budget, allocate_entry_usd); no side marked
\* as sold keeps shares, and a ladder keeps half between its first two steps (strategies A,
\* B and C); the grid of strategy D keeps its insurance and never sells a share twice.
THEOREM PairsAreSafe == Spec => []PairsInv
  <1>1. Init => PartsInv
    BY PartsStart
  <1>2. PartsInv /\ [Next]_vars => PartsInv'
    BY PartsStep, PartsStutter
  <1>3. PartsInv => PairsInv
    BY PartsAreSafe
  <1> QED BY <1>1, <1>2, <1>3, PTL DEF Spec

\* No step of strategy C sells its second leg at a loss before the last 15% of a window,
\* and no tick of the last 15% leaves a share it bids 20 cents for (the live-tick rules of
\* src/src/strategy/strategy_a.rs, strategy_b.rs and strategy_c.rs).
THEOREM ExitsHold == Spec => ExitRules
  <1>1. Init => PartsInv
    BY PartsStart
  <1>2. PartsInv /\ [Next]_vars => PartsInv'
    BY PartsStep, PartsStutter
  <1>3. PartsInv /\ [Next]_vars
          => [part = "exits" => Exits!SecondLegBreaksEven /\ Exits!LastTicksSellOut]_vars
    <2> SUFFICES ASSUME PartsInv, Next, part = "exits"
                 PROVE  Exits!SecondLegBreaksEven /\ Exits!LastTicksSellOut
      OBVIOUS
    <2>1. ExitsInv /\ Exits!Next
      BY DEF PartsInv, Next
    <2> QED BY <2>1, SecondLeg, LastTick
  <1> QED BY <1>1, <1>2, <1>3, PTL DEF Spec, ExitRules
=============================================================================
