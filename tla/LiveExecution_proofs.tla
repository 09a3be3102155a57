------------------------ MODULE LiveExecution_proofs ------------------------
(***************************************************************************)
(* Theorems about the orders of strategy J on the exchange, for any bank,  *)
(* budget, sizes, number of attempts and of lost answers, with whole and   *)
(* with partial fills, and with sales or without.                          *)
(***************************************************************************)
EXTENDS LiveExecution, TLAPS

\* MAX_ATTEMPTS of execute_j_signal_inner, one for an order that may fill in part.
LEMMA AttemptsType == MaxAttempts \in Nat \ {0}
  BY LiveAssumption DEF MaxAttempts

\* An order: an intent of a positive size, in dollars or shares.
LEMMA OrderType ==
  ASSUME NEW sig \in Orders
  PROVE  sig.op \in {"BUY", "SELL"} /\ sig.amount \in Nat /\ sig.amount > 0
  <1>1. sig.op \in {"BUY", "SELL"} /\ sig.amount \in Sizes
    BY DEF Orders
  <1>2. \A a \in Sizes : a \in Nat /\ a > 0
    BY LiveAssumption
  <1> QED BY <1>1, <1>2

\* The first order of a tick, and what is left of it afterwards.
LEMMA HeadAndTail ==
  ASSUME NEW queue \in Seq(Orders), queue # <<>>
  PROVE  /\ Head(queue) \in Orders /\ Head(queue) = queue[1] /\ 1 \in DOMAIN queue
         /\ Tail(queue) \in Seq(Orders)
         /\ \A i \in DOMAIN Tail(queue) :
              i \in Nat /\ i > 0 /\ i + 1 \in DOMAIN queue /\ Tail(queue)[i] = queue[i + 1]
  OBVIOUS

\* What the exchange may make of an order: amounts, for a buy within its dollars.
LEMMA FillsType ==
  ASSUME NEW sig \in Orders, NEW fill \in Fills(sig)
  PROVE  /\ fill \in [usd : Nat, shares : Nat]
         /\ sig.op = "BUY" => fill.usd <= sig.amount
  <1>1. sig.amount \in Nat
    BY OrderType
  <1>2. /\ SharesFor(sig.amount) \in Nat /\ SharesFor(sig.amount) + 1 \in Nat
        /\ ValueOf(sig.amount) \in Nat
    BY <1>1 DEF SharesFor, ValueOf
  <1>3. \A k \in Nat : SharesFor(k) \in Nat /\ ValueOf(k) \in Nat
    BY DEF SharesFor, ValueOf
  <1>4. CASE sig.op = "BUY"
    <2>1. \/ \E more \in {0, 1} :
               fill = [usd |-> sig.amount, shares |-> SharesFor(sig.amount) + more]
          \/ \E k \in 1..(sig.amount - 1) : fill = [usd |-> k, shares |-> SharesFor(k)]
      BY <1>4 DEF Fills
    <2>2. ASSUME NEW more \in {0, 1},
                 fill = [usd |-> sig.amount, shares |-> SharesFor(sig.amount) + more]
          PROVE  fill \in [usd : Nat, shares : Nat] /\ fill.usd <= sig.amount
      BY <1>1, <1>2, <2>2
    <2>3. ASSUME NEW k \in 1..(sig.amount - 1),
                 fill = [usd |-> k, shares |-> SharesFor(k)]
          PROVE  fill \in [usd : Nat, shares : Nat] /\ fill.usd <= sig.amount
      BY <1>1, <1>3, <2>3
    <2> QED BY <2>1, <2>2, <2>3
  <1>5. CASE sig.op # "BUY"
    <2>1. \/ \E v \in {ValueOf(sig.amount), 1} : fill = [usd |-> v, shares |-> sig.amount]
          \/ \E k \in 2..(sig.amount - 1) : fill = [usd |-> ValueOf(k), shares |-> k]
      BY <1>5 DEF Fills
    <2> QED BY <1>1, <1>2, <1>3, <1>5, <2>1
  <1> QED BY <1>4, <1>5

\* What a signal meant is an amount that it may spend.
LEMMA IntentType ==
  ASSUME NEW sig \in Orders
  PROVE  /\ ByIntent(sig) \in [usd : Nat, shares : Nat]
         /\ sig.op = "BUY" => ByIntent(sig).usd = sig.amount
  <1>1. sig.amount \in Nat
    BY OrderType
  <1>2. SharesFor(sig.amount) \in Nat /\ ValueOf(sig.amount) \in Nat
    BY <1>1 DEF SharesFor, ValueOf
  <1> QED BY <1>1, <1>2 DEF ByIntent

\* apply_live_result_to_portfolio: the ledger after an answer, its cash and its
\* shares clamped at zero.
LEMMA AppliedType ==
  ASSUME LiveTypeOK, NEW sig \in Orders, AnsweredFill(sig) \in [usd : Nat, shares : Nat]
  PROVE  LET l == Applied(sig)
             fill == AnsweredFill(sig)
         IN  /\ l \in [cash : Nat, shares : Nat, spent : Nat]
             /\ sig.op = "BUY" => /\ l.cash = Greater(ledger.cash - fill.usd, 0)
                                  /\ l.shares = ledger.shares + fill.shares
                                  /\ l.spent = ledger.spent + fill.usd
             /\ sig.op # "BUY" => /\ l.cash = ledger.cash + fill.usd
                                  /\ l.shares = Greater(ledger.shares - fill.shares, 0)
                                  /\ l.spent = ledger.spent
  <1> DEFINE fill == AnsweredFill(sig)
  <1>1. /\ ledger \in [cash : Nat, shares : Nat, spent : Nat]
        /\ fill.usd \in Nat /\ fill.shares \in Nat
    BY DEF LiveTypeOK
  <1>2. CASE sig.op = "BUY"
    <2> DEFINE cash   == Greater(ledger.cash - fill.usd, 0)
               shares == ledger.shares + fill.shares
               spent  == ledger.spent + fill.usd
    <2>1. cash \in Nat /\ shares \in Nat /\ spent \in Nat
      BY <1>1 DEF Greater
    <2>2. Applied(sig) = [cash |-> cash, shares |-> shares, spent |-> spent]
      BY <1>2 DEF Applied
    <2> HIDE DEF cash, shares, spent
    <2>3. /\ Applied(sig) \in [cash : Nat, shares : Nat, spent : Nat]
          /\ Applied(sig).cash = cash /\ Applied(sig).shares = shares
          /\ Applied(sig).spent = spent
      BY <2>1, <2>2
    <2> QED BY <1>2, <2>3 DEF cash, shares, spent
  <1>3. CASE sig.op # "BUY"
    <2> DEFINE cash   == ledger.cash + fill.usd
               shares == Greater(ledger.shares - fill.shares, 0)
    <2>1. cash \in Nat /\ shares \in Nat
      BY <1>1 DEF Greater
    <2>2. Applied(sig) = [ledger EXCEPT !.cash = cash, !.shares = shares]
      BY <1>1, <1>3 DEF Applied
    <2> HIDE DEF cash, shares
    <2>3. /\ Applied(sig) \in [cash : Nat, shares : Nat, spent : Nat]
          /\ Applied(sig).cash = cash /\ Applied(sig).shares = shares
          /\ Applied(sig).spent = ledger.spent
      BY <1>1, <2>1, <2>2
    <2> QED BY <1>3, <2>3 DEF cash, shares
  <1> QED BY <1>2, <1>3

\* A sale or none, then clips of one size, two at most, fit a budget that covers them.
LEMMA SaleThenClipsFit ==
  ASSUME NEW s \in Seq(Orders), NEW c \in Seq(Orders), NEW deployed \in Nat,
         Len(s) <= 1, Len(c) <= 2, deployed <= MaxWindow,
         \A i \in DOMAIN s : s[i].op = "SELL",
         \A i \in DOMAIN c : /\ c[i] = c[1]
                             /\ deployed + Len(c) * c[1].amount <= MaxWindow
  PROVE  s \o c \in Seq(Orders) /\ ClipsFit(s \o c, deployed)
  <1> DEFINE queue == s \o c
  <1>1. /\ queue \in Seq(Orders) /\ Len(queue) = Len(s) + Len(c)
        /\ Len(s) \in Nat /\ Len(c) \in Nat
        /\ DOMAIN queue = 1..(Len(s) + Len(c))
        /\ DOMAIN s = 1..Len(s) /\ DOMAIN c = 1..Len(c)
        /\ \A i \in DOMAIN s : queue[i] = s[i]
        /\ \A i \in DOMAIN queue : i \notin DOMAIN s =>
             i - Len(s) \in DOMAIN c /\ queue[i] = c[i - Len(s)]
    OBVIOUS
  <1> HIDE DEF queue
  <1>2. ASSUME NEW i \in DOMAIN queue, queue[i].op = "BUY"
        PROVE  /\ deployed + queue[i].amount <= MaxWindow
               /\ \A j \in DOMAIN queue : j > i =>
                    /\ j = i + 1 /\ queue[j] = queue[i]
                    /\ deployed + 2 * queue[i].amount <= MaxWindow
    <2>1. i \notin DOMAIN s
      BY <1>1, <1>2
    <2>2. /\ i - Len(s) \in DOMAIN c /\ queue[i] = c[1]
          /\ deployed + Len(c) * c[1].amount <= MaxWindow
          /\ c[1] \in Orders /\ 1 <= Len(c)
      BY <1>1, <2>1
    <2> DEFINE a == c[1].amount
    <2>3. a \in Nat /\ MaxWindow \in Nat
      BY <2>2, OrderType, LiveAssumption
    <2>4. deployed + Len(c) * a <= MaxWindow
      BY <2>2
    <2> HIDE DEF a
    <2>5. (Len(c) = 1 \/ Len(c) = 2) /\ deployed + a <= MaxWindow
      BY <1>1, <2>2, <2>3, <2>4
    <2>6. ASSUME NEW j \in DOMAIN queue, j > i
          PROVE  j = i + 1 /\ queue[j] = c[1] /\ deployed + 2 * a <= MaxWindow
      <3>1. /\ j \notin DOMAIN s /\ j - Len(s) \in DOMAIN c
            /\ queue[j] = c[1] /\ i - Len(s) \in DOMAIN c
        BY <1>1, <2>1, <2>2, <2>6
      <3>2. Len(c) = 2 /\ j = i + 1
        BY <1>1, <2>5, <2>6, <3>1
      <3> QED BY <2>4, <3>1, <3>2
    <2> QED BY <2>2, <2>5, <2>6 DEF a
  <1>3. ClipsFit(queue, deployed)
    BY <1>2 DEF ClipsFit
  <1> QED BY <1>1, <1>3 DEF queue

\* run_j_endgame_live_tick plans clips within the budget of the window, at most two.
LEMMA PlansFit ==
  ASSUME LiveTypeOK, belief.deployed <= MaxWindow, NEW queue \in Plans
  PROVE  queue \in Seq(Orders) /\ ClipsFit(queue, belief.deployed)
  <1> DEFINE cost(c) == IF c = <<>> THEN 0 ELSE Len(c) * c[1].amount
  <1>1. PICK s, c :
          /\ s = <<>> \/ \E n \in Sizes : s = <<Sell(n)>>
          /\ \/ c = <<>>
             \/ \E a \in Sizes : c = <<Buy(a)>> \/ c = <<Buy(a), Buy(a)>>
          /\ belief.deployed + cost(c) <= MaxWindow
          /\ queue = s \o c
    <2> DEFINE sales == {<<>>} \cup
                 (IF MaySell /\ ~belief.cut
                  THEN {<<Sell(n)>> : n \in {n \in Sizes : n <= ledger.shares}} ELSE {})
               clips == {<<>>} \cup {<<Buy(a)>> : a \in Sizes}
                               \cup {<<Buy(a), Buy(a)>> : a \in Sizes}
    <2>1. queue \in { s \o c : s \in sales,
                               c \in {c \in clips : /\ cost(c) <= TradeCash
                                                    /\ belief.deployed + cost(c) <= MaxWindow} }
      BY DEF Plans
    <2>2. \A s \in sales : s = <<>> \/ \E n \in Sizes : s = <<Sell(n)>>
      OBVIOUS
    <2>3. \A c \in clips : \/ c = <<>>
                           \/ \E a \in Sizes : c = <<Buy(a)>> \/ c = <<Buy(a), Buy(a)>>
      OBVIOUS
    <2> HIDE DEF sales, clips, cost
    <2> QED BY <2>1, <2>2, <2>3
  <1>2. \A n \in Sizes : Sell(n) \in Orders /\ Sell(n).op = "SELL" /\ Buy(n) \in Orders
    BY DEF Sell, Buy, Orders
  <1>3. s \in Seq(Orders) /\ Len(s) <= 1 /\ \A i \in DOMAIN s : s[i].op = "SELL"
    <2>1. CASE s = <<>>
      BY <2>1
    <2>2. ASSUME NEW o \in Orders, s = <<o>>, o.op = "SELL"
          PROVE  s \in Seq(Orders) /\ Len(s) <= 1 /\ \A i \in DOMAIN s : s[i].op = "SELL"
      BY <2>2
    <2> QED BY <1>1, <1>2, <2>1, <2>2
  <1>4. c \in Seq(Orders) /\ Len(c) <= 2 /\ \A i \in DOMAIN c : c[i] = c[1]
    <2>1. CASE c = <<>>
      BY <2>1
    <2>2. ASSUME NEW o \in Orders, c = <<o>>
          PROVE  c \in Seq(Orders) /\ Len(c) <= 2 /\ \A i \in DOMAIN c : c[i] = c[1]
      BY <2>2
    <2>3. ASSUME NEW o \in Orders, c = <<o, o>>
          PROVE  c \in Seq(Orders) /\ Len(c) <= 2 /\ \A i \in DOMAIN c : c[i] = c[1]
      <3>1. c \in Seq(Orders) /\ Len(c) = 2
        BY <2>3
      <3>2. c[1] = o /\ c[2] = o
        BY <2>3
      <3>3. \A i \in DOMAIN c : i = 1 \/ i = 2
        BY <3>1
      <3> QED BY <3>1, <3>2, <3>3
    <2> QED BY <1>1, <1>2, <2>1, <2>2, <2>3
  <1>5. \A i \in DOMAIN c : belief.deployed + Len(c) * c[1].amount <= MaxWindow
    <2>1. DOMAIN c # {} => c # <<>>
      OBVIOUS
    <2> QED BY <1>1, <2>1
  <1>6. belief.deployed \in Nat
    BY DEF LiveTypeOK
  <1> QED BY <1>1, <1>3, <1>4, <1>5, <1>6, SaleThenClipsFit

\* The orders left fit what is left of the budget: a buy has used up its own share.
LEMMA RestFits ==
  ASSUME NEW queue \in Seq(Orders), queue # <<>>, NEW d \in Nat, NEW e \in Nat,
         ClipsFit(queue, d), e <= d \/ (Head(queue).op = "BUY" /\ e = d + Head(queue).amount)
  PROVE  ClipsFit(Tail(queue), e)
  <1> DEFINE rest == Tail(queue)
  <1>1. /\ Head(queue) \in Orders /\ Head(queue) = queue[1] /\ 1 \in DOMAIN queue
        /\ rest \in Seq(Orders)
        /\ \A i \in DOMAIN rest :
             i \in Nat /\ i > 0 /\ i + 1 \in DOMAIN queue /\ rest[i] = queue[i + 1]
    BY HeadAndTail
  <1> HIDE DEF rest
  <1>2. MaxWindow \in Nat
    BY LiveAssumption
  <1>3. \A i \in DOMAIN queue : queue[i] \in Orders /\ queue[i].amount \in Nat
    BY OrderType
  <1>4. CASE e <= d
    <2>1. e <= MaxWindow
      BY <1>2, <1>4 DEF ClipsFit
    <2>2. ASSUME NEW i \in DOMAIN rest, rest[i].op = "BUY"
          PROVE  /\ e + rest[i].amount <= MaxWindow
                 /\ \A j \in DOMAIN rest : j > i =>
                      /\ j = i + 1 /\ rest[j] = rest[i]
                      /\ e + 2 * rest[i].amount <= MaxWindow
      <3>1. /\ d + rest[i].amount <= MaxWindow /\ rest[i].amount \in Nat
            /\ \A j \in DOMAIN queue : j > i + 1 =>
                 /\ j = (i + 1) + 1 /\ queue[j] = rest[i]
                 /\ d + 2 * rest[i].amount <= MaxWindow
        BY <1>1, <1>3, <2>2 DEF ClipsFit
      <3>2. e + rest[i].amount <= MaxWindow
        BY <1>2, <1>4, <3>1
      <3>3. ASSUME NEW j \in DOMAIN rest, j > i
            PROVE  j = i + 1 /\ rest[j] = rest[i] /\ d + 2 * rest[i].amount <= MaxWindow
        BY <1>1, <3>1, <3>3
      <3>4. ASSUME NEW j \in DOMAIN rest, j > i
            PROVE  e + 2 * rest[i].amount <= MaxWindow
        BY <1>2, <1>4, <3>1, <3>3, <3>4
      <3> QED BY <3>2, <3>3, <3>4
    <2> QED BY <2>1, <2>2 DEF ClipsFit, rest
  <1>5. CASE Head(queue).op = "BUY" /\ e = d + Head(queue).amount
    <2> DEFINE a == queue[1].amount
    <2>1. /\ queue[1].op = "BUY" /\ e = d + a /\ a \in Nat
          /\ e <= MaxWindow
          /\ \A j \in DOMAIN queue : j > 1 =>
               j = 1 + 1 /\ queue[j] = queue[1] /\ d + 2 * a <= MaxWindow
      BY <1>1, <1>3, <1>5 DEF ClipsFit
    <2>2. \A i \in DOMAIN rest : i = 1 /\ rest[i] = queue[1] /\ d + 2 * a <= MaxWindow
      BY <1>1, <2>1
    <2> HIDE DEF a
    <2>3. d + 2 * a <= MaxWindow => e + a <= MaxWindow
      BY <1>2, <2>1
    <2>4. ASSUME NEW i \in DOMAIN rest
          PROVE  /\ e + rest[i].amount <= MaxWindow
                 /\ \A j \in DOMAIN rest : ~(j > i)
      <3>1. i = 1 /\ rest[i].amount = a /\ e + a <= MaxWindow
        BY <2>2, <2>3 DEF a
      <3>2. \A j \in DOMAIN rest : j = 1
        BY <2>2
      <3> QED BY <3>1, <3>2
    <2> QED BY <2>1, <2>4 DEF ClipsFit, rest
  <1> QED BY <1>4, <1>5

\* The session starts with equal books and no order under way.
LEMMA LiveInitInv == LiveInit => LiveInv
  <1> SUFFICES ASSUME LiveInit PROVE LiveInv
    OBVIOUS
  <1>1. LiveTypeOK
    <2>1. call \in Calls
      BY AttemptsType DEF LiveInit, NoCall, Calls
    <2>2. exch \in [coll : Nat, shares : Nat, redeem : Nat]
          /\ ledger \in [cash : Nat, shares : Nat, spent : Nat]
          /\ belief \in [deployed : Nat, cut : BOOLEAN]
          /\ lost \in [n : 0..MaxLost, shares : Nat]
      BY LiveAssumption DEF LiveInit
    <2>3. /\ account \in Nat /\ age \in 0..(MaxAge + 1)
          /\ window \in 0..MaxWindows /\ sent \in 0..(MaxAge + 1)
          /\ orders \in Seq(Orders)
      BY LiveAssumption DEF LiveInit
    <2> QED BY <2>1, <2>2, <2>3 DEF LiveTypeOK
  <1>2. CallConsistent
    BY DEF LiveInit, CallConsistent, NoCall
  <1>3. ClipsFit(orders, belief.deployed)
    BY LiveAssumption DEF LiveInit, ClipsFit
  <1>4. BookedLedger = ledger
    BY DEF LiveInit, NoCall, BookedLedger
  <1>5. BooksMatch /\ RiskKnown
    BY <1>4, LiveAssumption DEF LiveInit, BooksMatch, RiskKnown
  <1> QED BY <1>1, <1>2, <1>3, <1>5 DEF LiveInv

-----------------------------------------------------------------------------
(* One lemma per action                                                     *)

\* A tick plans only while nothing is under way, within the budget.
LEMMA TickPlansInv == ASSUME LiveInv, TickPlans PROVE LiveInv'
  <1>1. /\ orders = <<>> /\ orders' \in Plans /\ age' = 0
        /\ UNCHANGED <<exch, ledger, account, belief, call, window, lost, sent>>
    BY DEF TickPlans, books
  <1>2. LiveTypeOK /\ call.stage = "idle" /\ belief.deployed <= MaxWindow
    BY <1>1 DEF LiveInv, CallConsistent, ClipsFit
  <1>3. orders' \in Seq(Orders) /\ ClipsFit(orders', belief.deployed)
    BY <1>1, <1>2, PlansFit
  <1>4. LiveTypeOK'
    BY <1>1, <1>2, <1>3, LiveAssumption DEF LiveTypeOK
  <1>5. CallConsistent'
    BY <1>1, <1>2 DEF LiveInv, CallConsistent
  <1>6. BookedLedger = ledger /\ BookedLedger' = ledger'
    BY <1>1, <1>2 DEF BookedLedger
  <1>7. BooksMatch' /\ RiskKnown'
    BY <1>1, <1>6 DEF LiveInv, BooksMatch, RiskKnown
  <1> QED BY <1>1, <1>3, <1>4, <1>5, <1>7 DEF LiveInv

\* The end of a window pays both books the shares they hold, the exchange later.
LEMMA PromoteInv == ASSUME LiveInv, Promote PROVE LiveInv'
  <1>1. /\ orders = <<>> /\ window < MaxWindows /\ window' = window + 1
        /\ account' \in {account, exch.coll}
        /\ belief' = [deployed |-> 0, cut |-> FALSE]
        /\ lost' = [lost EXCEPT !.shares = 0]
        /\ UNCHANGED <<orders, call, age, sent>>
    BY DEF Promote, ReadBalance
  <1>2. PICK won \in BOOLEAN :
          /\ ledger' = [cash |-> ledger.cash + (IF won THEN ledger.shares ELSE 0),
                        shares |-> 0, spent |-> 0]
          /\ exch' = [exch EXCEPT !.shares = 0,
                                  !.redeem = @ + (IF won THEN exch.shares ELSE 0)]
    BY DEF Promote
  <1>3. LiveTypeOK /\ call.stage = "idle" /\ call'.stage = "idle"
    BY <1>1 DEF LiveInv, CallConsistent, ClipsFit
  <1> DEFINE paid == ledger.cash + (IF won THEN ledger.shares ELSE 0)
             due  == exch.redeem + (IF won THEN exch.shares ELSE 0)
  <1>4. /\ exch \in [coll : Nat, shares : Nat, redeem : Nat]
        /\ ledger \in [cash : Nat, shares : Nat, spent : Nat]
        /\ lost \in [n : 0..MaxLost, shares : Nat]
    BY <1>3 DEF LiveTypeOK
  <1>5. paid \in Nat /\ due \in Nat
    BY <1>4
  <1>6. /\ ledger' = [cash |-> paid, shares |-> 0, spent |-> 0]
        /\ exch' = [exch EXCEPT !.shares = 0, !.redeem = due]
    BY <1>2, <1>4
  <1> HIDE DEF paid, due
  <1>7. /\ ledger' \in [cash : Nat, shares : Nat, spent : Nat]
        /\ ledger'.cash = paid /\ ledger'.shares = 0 /\ ledger'.spent = 0
    BY <1>5, <1>6
  <1>8. /\ exch' \in [coll : Nat, shares : Nat, redeem : Nat]
        /\ exch'.coll = exch.coll /\ exch'.shares = 0 /\ exch'.redeem = due
    BY <1>4, <1>5, <1>6
  <1>9. lost' \in [n : 0..MaxLost, shares : Nat] /\ lost'.n = lost.n /\ lost'.shares = 0
    BY <1>1, <1>4
  <1>10. LiveTypeOK'
    <2>1. window' \in 0..MaxWindows
      <3>1. window \in 0..MaxWindows /\ window < MaxWindows /\ window' = window + 1
        BY <1>1, <1>3 DEF LiveTypeOK
      <3> QED BY <3>1, LiveAssumption
    <2>3. account' \in Nat
      BY <1>1, <1>3, <1>4 DEF LiveTypeOK
    <2>2. belief' \in [deployed : Nat, cut : BOOLEAN]
      BY <1>1
    <2> QED BY <1>1, <1>3, <1>7, <1>8, <1>9, <2>1, <2>2, <2>3 DEF LiveTypeOK
  <1>11. CallConsistent'
    BY <1>1, <1>3 DEF LiveInv, CallConsistent
  <1>12. ClipsFit(orders', belief'.deployed)
    BY <1>1, LiveAssumption DEF ClipsFit
  <1>13. BookedLedger = ledger /\ BookedLedger' = ledger'
    BY <1>3 DEF BookedLedger
  <1>14. BooksMatch'
    BY <1>4, <1>7, <1>8, <1>9, <1>13 DEF LiveInv, BooksMatch, paid, due
  <1>15. RiskKnown'
    BY <1>1, <1>7, <1>8, <1>9, <1>13 DEF RiskKnown
  <1> QED BY <1>10, <1>11, <1>12, <1>14, <1>15 DEF LiveInv

\* What the exchange owes moves into its collateral.
LEMMA RedeemInv == ASSUME LiveInv, Redeem PROVE LiveInv'
  <1> DEFINE coll == exch.coll + exch.redeem
  <1>1. /\ exch' = [exch EXCEPT !.coll = coll, !.redeem = 0]
        /\ UNCHANGED <<ledger, account, belief, orders, call, age, window, lost, sent>>
    BY DEF Redeem, LiveInv, LiveTypeOK
  <1>2. LiveTypeOK /\ exch \in [coll : Nat, shares : Nat, redeem : Nat] /\ coll \in Nat
    BY DEF LiveInv, LiveTypeOK
  <1> HIDE DEF coll
  <1>3. /\ exch' \in [coll : Nat, shares : Nat, redeem : Nat]
        /\ exch'.coll = coll /\ exch'.shares = exch.shares /\ exch'.redeem = 0
    BY <1>1, <1>2
  <1>4. LiveTypeOK'
    BY <1>1, <1>2, <1>3 DEF LiveTypeOK
  <1>5. CallConsistent'
    BY <1>1 DEF LiveInv, CallConsistent, Answer
  <1>6. BookedLedger' = BookedLedger
    BY <1>1 DEF BookedLedger, Executed, Answer, Applied, AnsweredFill, ByIntent
  <1>7. BooksMatch' /\ RiskKnown'
    BY <1>1, <1>2, <1>3, <1>6 DEF LiveInv, BooksMatch, RiskKnown, coll
  <1> QED BY <1>1, <1>4, <1>5, <1>7 DEF LiveInv

\* The fields of a call.
LEMMA CallFields ==
  ASSUME NEW c \in Calls
  PROVE  /\ c.stage \in {"idle", "posting", "answered", "sleeping"}
         /\ c.attempt \in 0..MaxAttempts /\ c.attempt \in Nat
         /\ c.answer \in Seq(Answers) /\ c.fills \in Nat
  BY AttemptsType DEF Calls

\* The first attempt of an order.
LEMMA StartOrderInv == ASSUME LiveInv, StartOrder PROVE LiveInv'
  <1>1. /\ orders # <<>> /\ call.stage = "idle"
        /\ call' = [NoCall EXCEPT !.stage = "posting", !.attempt = 1]
        /\ sent' = Greater(sent, age)
        /\ UNCHANGED <<exch, ledger, account, belief, orders, age, window, lost>>
    BY DEF StartOrder, books
  <1>2. LiveTypeOK
    BY DEF LiveInv
  <1>3. call' = [stage |-> "posting", attempt |-> 1, answer |-> <<>>, fills |-> 0]
    BY <1>1 DEF NoCall
  <1>4. call' \in Calls
    BY <1>3, AttemptsType DEF Calls
  <1>5. sent' \in 0..(MaxAge + 1)
    BY <1>1, <1>2 DEF LiveTypeOK, Greater
  <1>6. LiveTypeOK'
    BY <1>1, <1>2, <1>4, <1>5 DEF LiveTypeOK
  <1>7. CallConsistent'
    <2>1. call'.stage = "posting" /\ call'.fills = 0
      BY <1>3
    <2> QED BY <1>1, <2>1 DEF CallConsistent
  <1>8. BookedLedger = ledger /\ BookedLedger' = ledger'
    BY <1>1, <1>3 DEF BookedLedger
  <1>9. BooksMatch' /\ RiskKnown'
    BY <1>1, <1>8 DEF LiveInv, BooksMatch, RiskKnown
  <1> QED BY <1>1, <1>6, <1>7, <1>9 DEF LiveInv

\* A signal without an intent is dropped.
LEMMA RefuseOrderInv == ASSUME LiveInv, RefuseOrder PROVE LiveInv'
  <1>1. /\ orders # <<>> /\ call.stage = "idle" /\ orders' = Tail(orders)
        /\ UNCHANGED <<exch, ledger, account, belief, call, age, window, lost, sent>>
    BY DEF RefuseOrder, books
  <1>2. LiveTypeOK /\ ClipsFit(orders, belief.deployed) /\ belief.deployed \in Nat
    BY DEF LiveInv, LiveTypeOK
  <1>3. orders' \in Seq(Orders) /\ ClipsFit(orders', belief.deployed)
    BY <1>1, <1>2, HeadAndTail, RestFits DEF LiveTypeOK
  <1>4. LiveTypeOK'
    BY <1>1, <1>2, <1>3 DEF LiveTypeOK
  <1>5. CallConsistent'
    BY <1>1 DEF LiveInv, CallConsistent
  <1>6. BookedLedger = ledger /\ BookedLedger' = ledger'
    BY <1>1 DEF BookedLedger
  <1>7. BooksMatch' /\ RiskKnown'
    BY <1>1, <1>6 DEF LiveInv, BooksMatch, RiskKnown
  <1> QED BY <1>1, <1>3, <1>4, <1>5, <1>7 DEF LiveInv

\* A step of an attempt later.
LEMMA OlderType == LiveTypeOK => Older(1) \in 0..(MaxAge + 1)
  BY LiveAssumption DEF LiveTypeOK, Older, Lesser

\* A rejection fills nothing, whatever the program is told.
LEMMA ExchangeRejectsInv == ASSUME LiveInv, ExchangeRejects PROVE LiveInv'
  <1>1. PICK kind \in {"killed", "refused", "lost"} :
          call' = [call EXCEPT !.stage = "answered", !.answer = <<[kind |-> kind]>>]
    BY DEF ExchangeRejects, Answered
  <1>2. /\ call.stage = "posting" /\ age' = Older(1)
        /\ UNCHANGED <<exch, ledger, account, belief, orders, window, lost, sent>>
    BY DEF ExchangeRejects, books
  <1>3. LiveTypeOK /\ call \in Calls /\ call.fills = 0 /\ orders # <<>>
    BY <1>2 DEF LiveInv, LiveTypeOK, CallConsistent
  <1> DEFINE answer == <<[kind |-> kind]>>
  <1>4. answer \in Seq(Answers) /\ Len(answer) = 1 /\ answer[1].kind = kind
    BY DEF Answers
  <1>5. call' = [call EXCEPT !.stage = "answered", !.answer = answer]
    BY <1>1
  <1> HIDE DEF answer
  <1>6. /\ call' \in Calls /\ call'.stage = "answered"
        /\ call'.answer = answer /\ call'.fills = 0
    BY <1>3, <1>4, <1>5 DEF Calls
  <1>7. Answer'.kind = kind
    BY <1>4, <1>6 DEF Answer
  <1>8. LiveTypeOK'
    BY <1>2, <1>3, <1>6, OlderType DEF LiveTypeOK
  <1>9. CallConsistent'
    BY <1>2, <1>3, <1>4, <1>6, <1>7 DEF CallConsistent
  <1>10. BookedLedger = ledger /\ BookedLedger' = ledger'
    BY <1>2, <1>6, <1>7 DEF BookedLedger, Executed
  <1>11. BooksMatch' /\ RiskKnown'
    BY <1>2, <1>10 DEF LiveInv, BooksMatch, RiskKnown
  <1> QED BY <1>2, <1>8, <1>9, <1>11 DEF LiveInv

\* Only a killed order goes back to sleep, and a killed order was not filled.
LEMMA WaitToRetryInv == ASSUME LiveInv, WaitToRetry PROVE LiveInv'
  <1>1. /\ call.stage = "answered" /\ Answer.kind = "killed" /\ call.attempt < MaxAttempts
        /\ call' = [call EXCEPT !.stage = "sleeping", !.answer = <<>>]
        /\ UNCHANGED <<exch, ledger, account, belief, orders, age, window, lost, sent>>
    BY DEF WaitToRetry, MayRetry, FokKilled, books
  <1>2. LiveTypeOK /\ call \in Calls /\ call.fills = 0 /\ orders # <<>>
    BY <1>1 DEF LiveInv, LiveTypeOK, CallConsistent
  <1>5. /\ call' \in Calls /\ call'.stage = "sleeping"
        /\ call'.attempt = call.attempt /\ call'.fills = 0
    <2>1. <<>> \in Seq(Answers)
      OBVIOUS
    <2> DEFINE none == <<>>
    <2>2. none \in Seq(Answers) /\ call' = [call EXCEPT !.stage = "sleeping", !.answer = none]
      BY <1>1, <2>1
    <2> HIDE DEF none
    <2> QED BY <1>2, <2>2 DEF Calls
  <1>6. LiveTypeOK'
    BY <1>1, <1>2, <1>5 DEF LiveTypeOK
  <1>7. CallConsistent'
    BY <1>1, <1>2, <1>5 DEF CallConsistent
  <1>8. BookedLedger = ledger /\ BookedLedger' = ledger'
    BY <1>1, <1>5 DEF BookedLedger, Executed
  <1>9. BooksMatch' /\ RiskKnown'
    BY <1>1, <1>8 DEF LiveInv, BooksMatch, RiskKnown
  <1> QED BY <1>1, <1>6, <1>7, <1>9 DEF LiveInv

\* The next attempt is one of those allowed.
LEMMA PostAgainInv == ASSUME LiveInv, PostAgain PROVE LiveInv'
  <1>1. /\ call.stage = "sleeping"
        /\ call' = [call EXCEPT !.stage = "posting", !.attempt = call.attempt + 1]
        /\ age' = Older(1) /\ sent' = Greater(sent, Older(1))
        /\ UNCHANGED <<exch, ledger, account, belief, orders, window, lost>>
    BY DEF PostAgain, NextAttempt, books
  <1>2. /\ LiveTypeOK /\ call \in Calls /\ call.fills = 0 /\ orders # <<>>
        /\ call.attempt < MaxAttempts
    BY <1>1 DEF LiveInv, LiveTypeOK, CallConsistent
  <1> DEFINE attempt == call.attempt + 1
  <1>3. attempt \in 0..MaxAttempts
    BY <1>2, CallFields, AttemptsType
  <1>4. call' = [call EXCEPT !.stage = "posting", !.attempt = attempt]
    BY <1>1
  <1> HIDE DEF attempt
  <1>5. call' \in Calls /\ call'.stage = "posting" /\ call'.fills = 0
    BY <1>2, <1>3, <1>4 DEF Calls
  <1>6. age' \in 0..(MaxAge + 1) /\ sent' \in 0..(MaxAge + 1)
    BY <1>1, <1>2, OlderType DEF LiveTypeOK, Greater
  <1>7. LiveTypeOK'
    BY <1>1, <1>2, <1>5, <1>6 DEF LiveTypeOK
  <1>8. CallConsistent'
    BY <1>1, <1>2, <1>5 DEF CallConsistent
  <1>9. BookedLedger = ledger /\ BookedLedger' = ledger'
    BY <1>1, <1>5 DEF BookedLedger
  <1>10. BooksMatch' /\ RiskKnown'
    BY <1>1, <1>9 DEF LiveInv, BooksMatch, RiskKnown
  <1> QED BY <1>1, <1>7, <1>8, <1>10 DEF LiveInv

\* What the exchange holds after a fill that it can cover.
LEMMA FilledType ==
  ASSUME LiveTypeOK, NEW sig \in Orders, NEW fill \in [usd : Nat, shares : Nat],
         Covered(fill, sig)
  PROVE  LET e == Filled(fill, sig)
         IN  /\ e \in [coll : Nat, shares : Nat, redeem : Nat] /\ e.redeem = exch.redeem
             /\ sig.op = "BUY" => /\ e.coll = exch.coll - fill.usd
                                  /\ e.shares = exch.shares + fill.shares
             /\ sig.op # "BUY" => /\ e.coll = exch.coll + fill.usd
                                  /\ e.shares = exch.shares - fill.shares
  <1>1. exch \in [coll : Nat, shares : Nat, redeem : Nat]
    BY DEF LiveTypeOK
  <1>2. CASE sig.op = "BUY"
    <2> DEFINE coll == exch.coll - fill.usd
               shares == exch.shares + fill.shares
    <2>1. coll \in Nat /\ shares \in Nat
      BY <1>1, <1>2 DEF Covered
    <2>2. Filled(fill, sig) = [exch EXCEPT !.coll = coll, !.shares = shares]
      BY <1>1, <1>2 DEF Filled
    <2> HIDE DEF coll, shares
    <2>3. /\ Filled(fill, sig) \in [coll : Nat, shares : Nat, redeem : Nat]
          /\ Filled(fill, sig).coll = coll /\ Filled(fill, sig).shares = shares
          /\ Filled(fill, sig).redeem = exch.redeem
      BY <1>1, <2>1, <2>2
    <2> QED BY <1>2, <2>3 DEF coll, shares
  <1>3. CASE sig.op # "BUY"
    <2> DEFINE coll == exch.coll + fill.usd
               shares == exch.shares - fill.shares
    <2>1. coll \in Nat /\ shares \in Nat
      BY <1>1, <1>3 DEF Covered
    <2>2. Filled(fill, sig) = [exch EXCEPT !.coll = coll, !.shares = shares]
      BY <1>1, <1>3 DEF Filled
    <2> HIDE DEF coll, shares
    <2>3. /\ Filled(fill, sig) \in [coll : Nat, shares : Nat, redeem : Nat]
          /\ Filled(fill, sig).coll = coll /\ Filled(fill, sig).shares = shares
          /\ Filled(fill, sig).redeem = exch.redeem
      BY <1>1, <2>1, <2>2
    <2> QED BY <1>3, <2>3 DEF coll, shares
  <1> QED BY <1>2, <1>3

\* The call once the exchange has filled its order, whatever the program is told.
LEMMA AnsweredCall ==
  ASSUME NEW c \in Calls, NEW a \in Seq(Answers)
  PROVE  LET d == [c EXCEPT !.stage = "answered", !.fills = 1, !.answer = a]
         IN  d \in Calls /\ d.stage = "answered" /\ d.answer = a /\ d.fills = 1
  BY DEF Calls

\* The exchange fills an order and the answer arrives: the books differ by the fill
\* until it is booked.
LEMMA MatchedInv ==
  ASSUME LiveInv, call.stage = "posting", NEW fill \in Fills(Head(orders)),
         Covered(fill, Head(orders)), exch' = Filled(fill, Head(orders)),
         call' = [call EXCEPT !.stage = "answered", !.fills = @ + 1,
                              !.answer = <<[kind |-> "matched", fill |-> fill]>>],
         age' = Older(1),
         UNCHANGED <<ledger, account, belief, orders, window, sent, lost>>
  PROVE  LiveInv'
  <1> DEFINE sig == Head(orders)
             answer == <<[kind |-> "matched", fill |-> fill]>>
  <1>1. /\ LiveTypeOK /\ call \in Calls /\ call.fills = 0 /\ orders # <<>>
        /\ orders \in Seq(Orders)
    BY DEF LiveInv, LiveTypeOK, CallConsistent
  <1>2. sig \in Orders /\ sig.amount \in Nat
    BY <1>1, HeadAndTail, OrderType
  <1>3. /\ fill \in [usd : Nat, shares : Nat] /\ fill.usd \in Nat /\ fill.shares \in Nat
        /\ sig.op = "BUY" => fill.usd <= sig.amount
    BY <1>2, FillsType
  <1>4. /\ answer \in Seq(Answers) /\ Len(answer) = 1
        /\ answer[1].kind = "matched" /\ answer[1].fill = fill
    BY <1>3 DEF Answers
  <1>5. call' = [call EXCEPT !.stage = "answered", !.fills = 1, !.answer = answer]
    BY <1>1 DEF Calls
  <1> HIDE DEF answer
  <1>6. /\ call' \in Calls /\ call'.stage = "answered"
        /\ call'.answer = answer /\ call'.fills = 1
    <2>1. call \in Calls /\ answer \in Seq(Answers)
      BY <1>1, <1>4
    <2>2. LET d == [call EXCEPT !.stage = "answered", !.fills = 1, !.answer = answer]
          IN  d \in Calls /\ d.stage = "answered" /\ d.answer = answer /\ d.fills = 1
      BY <2>1, AnsweredCall
    <2> QED BY <1>5, <2>2, Zenon
  <1>7. Answer'.kind = "matched" /\ Answer'.fill = fill
    BY <1>4, <1>6 DEF Answer
  <1>8. /\ exch' \in [coll : Nat, shares : Nat, redeem : Nat] /\ exch'.redeem = exch.redeem
        /\ sig.op = "BUY" => /\ exch'.coll = exch.coll - fill.usd
                             /\ exch'.shares = exch.shares + fill.shares
        /\ sig.op # "BUY" => /\ exch'.coll = exch.coll + fill.usd
                             /\ exch'.shares = exch.shares - fill.shares
    BY <1>1, <1>2, <1>3, FilledType
  <1>9. LiveTypeOK'
    BY <1>1, <1>6, <1>8, OlderType DEF LiveTypeOK
  <1>10. CallConsistent'
    BY <1>1, <1>3, <1>4, <1>6, <1>7 DEF CallConsistent
  <1>11. BookedLedger = ledger
    BY DEF BookedLedger
  <1>12. /\ BookedLedger'.cash = IF sig.op = "BUY" THEN Greater(ledger.cash - fill.usd, 0)
                                 ELSE ledger.cash + fill.usd
         /\ BookedLedger'.shares = IF sig.op = "BUY" THEN ledger.shares + fill.shares
                                   ELSE Greater(ledger.shares - fill.shares, 0)
    <2>1. BookedLedger' = Applied(sig)'
      BY <1>6, <1>7 DEF BookedLedger, Executed
    <2>a. AnsweredFill(sig)' = fill
      BY <1>7 DEF AnsweredFill
    <2> DEFINE less  == Greater(ledger.cash - fill.usd, 0)
               more  == ledger.cash + fill.usd
               fewer == Greater(ledger.shares - fill.shares, 0)
               added == ledger.shares + fill.shares
               spent == ledger.spent + fill.usd
    <2>2. ledger \in [cash : Nat, shares : Nat, spent : Nat]
      BY <1>1 DEF LiveTypeOK
    <2>3. Applied(sig)' =
            IF sig.op = "BUY" THEN [cash |-> less, shares |-> added, spent |-> spent]
            ELSE [ledger EXCEPT !.cash = more, !.shares = fewer]
      BY <2>2, <2>a DEF Applied
    <2> HIDE DEF less, more, fewer, added, spent
    <2>4. /\ BookedLedger'.cash = IF sig.op = "BUY" THEN less ELSE more
          /\ BookedLedger'.shares = IF sig.op = "BUY" THEN added ELSE fewer
      <3>1. CASE sig.op = "BUY"
        BY <2>1, <2>3, <3>1
      <3>2. CASE sig.op # "BUY"
        <4>1. BookedLedger' = [ledger EXCEPT !.cash = more, !.shares = fewer]
          BY <2>1, <2>3, <3>2, Zenon
        <4> QED BY <2>2, <3>2, <4>1
      <3> QED BY <3>1, <3>2
    <2> QED BY <2>4 DEF less, more, fewer, added
  <1>13. /\ ledger.cash \in Nat /\ ledger.shares \in Nat /\ exch.coll \in Nat
         /\ exch.shares \in Nat /\ exch.redeem \in Nat /\ lost.shares \in Nat
    BY <1>1 DEF LiveTypeOK
  <1>14. /\ sig.op = "BUY" => fill.usd <= exch.coll
         /\ sig.op # "BUY" => fill.shares <= exch.shares
    BY DEF Covered
  <1> HIDE DEF sig
  <1>15. BooksMatch'
    <2>1. lost.n = 0 => ledger.shares = exch.shares /\ ledger.cash = exch.coll + exch.redeem
      BY <1>11 DEF LiveInv, BooksMatch
    <2> QED BY <2>1, <1>3, <1>8, <1>12, <1>13, <1>14 DEF BooksMatch, Greater
  <1>16. RiskKnown'
    <2>1. \/ belief.cut
          \/ belief.deployed >= ledger.spent /\ exch.shares <= ledger.shares + lost.shares
      BY <1>11 DEF LiveInv, RiskKnown
    <2> QED BY <2>1, <1>3, <1>8, <1>12, <1>13, <1>14 DEF RiskKnown, Greater
  <1> QED BY <1>9, <1>10, <1>15, <1>16 DEF LiveInv

\* One more fill of which something was not told.
LEMMA OneMoreLost ==
  ASSUME LiveTypeOK, lost.n < MaxLost, NEW more \in Nat,
         lost' = [n |-> lost.n + 1, shares |-> lost.shares + more]
  PROVE  /\ lost' \in [n : 0..MaxLost, shares : Nat] /\ lost'.n > 0
         /\ lost'.shares = lost.shares + more /\ lost.shares \in Nat
  <1>1. lost \in [n : 0..MaxLost, shares : Nat] /\ MaxLost \in Nat
    BY LiveAssumption DEF LiveTypeOK
  <1>2. lost.n + 1 \in 0..MaxLost /\ lost.n + 1 > 0 /\ lost.shares + more \in Nat
    BY <1>1
  <1> QED BY <1>1, <1>2

\* It fills the order and the answer is lost: the history says what nobody was told.
LEMMA LostInv ==
  ASSUME LiveInv, call.stage = "posting", NEW fill \in Fills(Head(orders)),
         Covered(fill, Head(orders)), exch' = Filled(fill, Head(orders)),
         lost.n < MaxLost,
         call' = [call EXCEPT !.stage = "answered", !.fills = @ + 1,
                              !.answer = <<[kind |-> "lost"]>>],
         lost' = [n |-> lost.n + 1,
                  shares |-> lost.shares + Untold("lost", fill, Head(orders))],
         age' = Older(1),
         UNCHANGED <<ledger, account, belief, orders, window, sent>>
  PROVE  LiveInv'
  <1> DEFINE sig == Head(orders)
             answer == <<[kind |-> "lost"]>>
  <1>1. /\ LiveTypeOK /\ call \in Calls /\ call.fills = 0 /\ orders # <<>>
        /\ orders \in Seq(Orders)
    BY DEF LiveInv, LiveTypeOK, CallConsistent
  <1>2. sig \in Orders /\ sig.amount \in Nat
    BY <1>1, HeadAndTail, OrderType
  <1>3. fill \in [usd : Nat, shares : Nat] /\ fill.usd \in Nat /\ fill.shares \in Nat
    BY <1>2, FillsType
  <1>4. answer \in Seq(Answers) /\ Len(answer) = 1 /\ answer[1].kind = "lost"
    BY DEF Answers
  <1>5. call' = [call EXCEPT !.stage = "answered", !.fills = 1, !.answer = answer]
    BY <1>1 DEF Calls
  <1> HIDE DEF answer
  <1>6. /\ call' \in Calls /\ call'.stage = "answered"
        /\ call'.answer = answer /\ call'.fills = 1
    <2>1. call \in Calls /\ answer \in Seq(Answers)
      BY <1>1, <1>4
    <2>2. LET d == [call EXCEPT !.stage = "answered", !.fills = 1, !.answer = answer]
          IN  d \in Calls /\ d.stage = "answered" /\ d.answer = answer /\ d.fills = 1
      BY <2>1, AnsweredCall
    <2> QED BY <1>5, <2>2, Zenon
  <1>7. Answer'.kind = "lost"
    BY <1>4, <1>6 DEF Answer
  <1>8. /\ exch' \in [coll : Nat, shares : Nat, redeem : Nat]
        /\ sig.op = "BUY" => exch'.shares = exch.shares + fill.shares
        /\ sig.op # "BUY" => exch'.shares = exch.shares - fill.shares
    BY <1>1, <1>2, <1>3, FilledType
  <1>a. /\ Untold("lost", fill, sig) \in Nat
        /\ Untold("lost", fill, sig) = IF sig.op = "BUY" THEN fill.shares ELSE 0
    BY <1>3 DEF Untold, Greater
  <1>9. /\ lost' \in [n : 0..MaxLost, shares : Nat] /\ lost'.n > 0
        /\ sig.op = "BUY" => lost'.shares = lost.shares + fill.shares
        /\ sig.op # "BUY" => lost'.shares = lost.shares
    BY <1>1, <1>a, OneMoreLost
  <1>10. LiveTypeOK'
    BY <1>1, <1>6, <1>8, <1>9, OlderType DEF LiveTypeOK
  <1>11. CallConsistent'
    BY <1>1, <1>4, <1>6, <1>7, <1>9 DEF CallConsistent
  <1>12. BookedLedger = ledger /\ BookedLedger' = ledger
    BY <1>6, <1>7 DEF BookedLedger, Executed
  <1>13. /\ ledger.shares \in Nat /\ exch.shares \in Nat /\ lost.shares \in Nat
    BY <1>1 DEF LiveTypeOK
  <1> HIDE DEF sig
  <1>14. BooksMatch'
    BY <1>9 DEF BooksMatch
  <1>15. RiskKnown'
    <2>1. \/ belief.cut
          \/ belief.deployed >= ledger.spent /\ exch.shares <= ledger.shares + lost.shares
      BY <1>12 DEF LiveInv, RiskKnown
    <2> QED BY <2>1, <1>3, <1>8, <1>9, <1>12, <1>13 DEF RiskKnown
  <1> QED BY <1>10, <1>11, <1>14, <1>15 DEF LiveInv

\* It fills the order and the answer has no amounts: the intended ones are booked.
LEMMA BareInv ==
  ASSUME LiveInv, call.stage = "posting", NEW fill \in Fills(Head(orders)),
         Covered(fill, Head(orders)), exch' = Filled(fill, Head(orders)),
         lost.n < MaxLost,
         call' = [call EXCEPT !.stage = "answered", !.fills = @ + 1,
                              !.answer = <<[kind |-> "bare"]>>],
         lost' = [n |-> lost.n + 1,
                  shares |-> lost.shares + Untold("bare", fill, Head(orders))],
         age' = Older(1),
         UNCHANGED <<ledger, account, belief, orders, window, sent>>
  PROVE  LiveInv'
  <1> DEFINE sig == Head(orders)
             answer == <<[kind |-> "bare"]>>
  <1>1. /\ LiveTypeOK /\ call \in Calls /\ call.fills = 0 /\ orders # <<>>
        /\ orders \in Seq(Orders)
    BY DEF LiveInv, LiveTypeOK, CallConsistent
  <1>2. sig \in Orders /\ sig.amount \in Nat
    BY <1>1, HeadAndTail, OrderType
  <1>3. fill \in [usd : Nat, shares : Nat] /\ fill.usd \in Nat /\ fill.shares \in Nat
    BY <1>2, FillsType
  <1>4. answer \in Seq(Answers) /\ Len(answer) = 1 /\ answer[1].kind = "bare"
    BY DEF Answers
  <1>5. call' = [call EXCEPT !.stage = "answered", !.fills = 1, !.answer = answer]
    BY <1>1 DEF Calls
  <1> HIDE DEF answer
  <1>6. /\ call' \in Calls /\ call'.stage = "answered"
        /\ call'.answer = answer /\ call'.fills = 1
    <2>1. call \in Calls /\ answer \in Seq(Answers)
      BY <1>1, <1>4
    <2>2. LET d == [call EXCEPT !.stage = "answered", !.fills = 1, !.answer = answer]
          IN  d \in Calls /\ d.stage = "answered" /\ d.answer = answer /\ d.fills = 1
      BY <2>1, AnsweredCall
    <2> QED BY <1>5, <2>2, Zenon
  <1>7. Answer'.kind = "bare"
    BY <1>4, <1>6 DEF Answer
  <1>8. /\ exch' \in [coll : Nat, shares : Nat, redeem : Nat]
        /\ sig.op = "BUY" => exch'.shares = exch.shares + fill.shares
        /\ sig.op # "BUY" => exch'.shares = exch.shares - fill.shares
    BY <1>1, <1>2, <1>3, FilledType
  <1> DEFINE meant == ByIntent(sig)
             more  == Untold("bare", fill, sig)
  <1>9. /\ meant \in [usd : Nat, shares : Nat] /\ meant.shares \in Nat /\ meant.usd \in Nat
        /\ more \in Nat
        /\ more = IF sig.op = "BUY" THEN Greater(fill.shares - meant.shares, 0)
                  ELSE Greater(meant.shares - fill.shares, 0)
    <2>1. meant \in [usd : Nat, shares : Nat]
      BY <1>2, IntentType
    <2>2. more = IF sig.op = "BUY" THEN Greater(fill.shares - meant.shares, 0)
                 ELSE Greater(meant.shares - fill.shares, 0)
      BY DEF Untold
    <2> HIDE DEF meant, more
    <2> QED BY <1>3, <2>1, <2>2 DEF Greater
  <1>10. /\ lost' \in [n : 0..MaxLost, shares : Nat] /\ lost'.n > 0
         /\ lost'.shares = lost.shares + more /\ lost.shares \in Nat
    BY <1>1, <1>9, OneMoreLost
  <1>11. LiveTypeOK'
    BY <1>1, <1>6, <1>8, <1>10, OlderType DEF LiveTypeOK
  <1>12. CallConsistent'
    BY <1>1, <1>4, <1>6, <1>7 DEF CallConsistent
  <1>13. BookedLedger = ledger
    BY DEF BookedLedger
  <1>14. BookedLedger'.shares = IF sig.op = "BUY" THEN ledger.shares + meant.shares
                                ELSE Greater(ledger.shares - meant.shares, 0)
    <2>1. BookedLedger' = Applied(sig)'
      BY <1>6, <1>7 DEF BookedLedger, Executed
    <2>2. AnsweredFill(sig)' = meant
      BY <1>7 DEF AnsweredFill
    <2> DEFINE added == ledger.shares + meant.shares
               fewer == Greater(ledger.shares - meant.shares, 0)
               earned == ledger.cash + meant.usd
    <2>3. ledger \in [cash : Nat, shares : Nat, spent : Nat]
      BY <1>1 DEF LiveTypeOK
    <2>4. CASE sig.op = "BUY"
      <3>1. Applied(sig)' = [cash |-> Greater(ledger.cash - meant.usd, 0), shares |-> added,
                             spent |-> ledger.spent + meant.usd]
        BY <2>2, <2>4 DEF Applied
      <3> QED BY <2>1, <2>4, <3>1
    <2>5. CASE sig.op # "BUY"
      <3>1. Applied(sig)' = [ledger EXCEPT !.cash = earned, !.shares = fewer]
        BY <2>2, <2>3, <2>5 DEF Applied
      <3> HIDE DEF fewer, earned
      <3>2. BookedLedger'.shares = fewer
        BY <2>1, <2>3, <3>1
      <3> QED BY <2>5, <3>2 DEF fewer
    <2> QED BY <2>4, <2>5
  <1>15. ledger.shares \in Nat /\ exch.shares \in Nat
    BY <1>1 DEF LiveTypeOK
  <1> HIDE DEF sig, meant, more
  <1>16. BooksMatch'
    BY <1>10 DEF BooksMatch
  <1>17. RiskKnown'
    <2>1. \/ belief.cut
          \/ belief.deployed >= ledger.spent /\ exch.shares <= ledger.shares + lost.shares
      BY <1>13 DEF LiveInv, RiskKnown
    <2>2. exch.shares <= ledger.shares + lost.shares
            => exch'.shares <= BookedLedger'.shares + lost'.shares
      BY <1>3, <1>8, <1>9, <1>10, <1>14, <1>15 DEF Greater
    <2> QED BY <2>1, <2>2 DEF RiskKnown
  <1> QED BY <1>11, <1>12, <1>16, <1>17 DEF LiveInv

LEMMA ExchangeFillsInv == ASSUME LiveInv, ExchangeFills PROVE LiveInv'
  BY MatchedInv, LostInv, BareInv DEF ExchangeFills

\* The answer is booked as it came, the signal as it was planned.
LEMMA FinishOrderInv == ASSUME LiveInv, FinishOrder PROVE LiveInv'
  <1> DEFINE sig == Head(orders)
  <1>1. /\ call.stage = "answered" /\ call' = NoCall /\ orders' = Tail(orders)
        /\ UNCHANGED <<exch, account, age, window, lost, sent>>
    BY DEF FinishOrder
  <1>2. /\ LiveTypeOK /\ orders \in Seq(Orders) /\ orders # <<>> /\ call \in Calls
        /\ belief \in [deployed : Nat, cut : BOOLEAN]
        /\ ledger \in [cash : Nat, shares : Nat, spent : Nat]
        /\ ClipsFit(orders, belief.deployed)
    BY <1>1 DEF LiveInv, LiveTypeOK, CallConsistent
  <1>3. sig \in Orders /\ sig.amount \in Nat /\ orders' \in Seq(Orders)
    BY <1>1, <1>2, HeadAndTail, OrderType
  <1>4. call' \in Calls /\ call'.stage = "idle"
    BY <1>1, AttemptsType DEF NoCall, Calls
  <1>5. CallConsistent'
    BY <1>1, <1>4 DEF CallConsistent
  <1>6. ledger' = BookedLedger /\ BookedLedger' = ledger'
    BY <1>1, <1>4 DEF FinishOrder, BookedLedger
  <1>7. BooksMatch'
    BY <1>1, <1>6 DEF LiveInv, BooksMatch
  <1>8. CASE ~Executed
    <2>1. UNCHANGED <<ledger, belief>>
      BY <1>8 DEF FinishOrder
    <2>2. LiveTypeOK'
      BY <1>1, <1>2, <1>3, <1>4, <2>1 DEF LiveTypeOK
    <2>3. ClipsFit(orders', belief'.deployed)
      BY <1>1, <1>2, <2>1, RestFits
    <2>4. RiskKnown'
      BY <1>1, <1>6, <2>1 DEF LiveInv, RiskKnown
    <2> QED BY <1>5, <1>7, <2>2, <2>3, <2>4 DEF LiveInv
  <1>9. CASE Executed
    <2> DEFINE fill == AnsweredFill(sig)
    <2>1. /\ ledger' = Applied(sig) /\ belief' = Notified(sig)
      BY <1>9 DEF FinishOrder
    <2>2. /\ fill \in [usd : Nat, shares : Nat] /\ fill.usd \in Nat
          /\ sig.op = "BUY" => fill.usd <= sig.amount
      <3>1. CASE Answer.kind = "bare"
        <4>1. fill = ByIntent(sig)
          BY <3>1 DEF AnsweredFill
        <4> QED BY <1>3, <4>1, IntentType
      <3>2. CASE Answer.kind = "matched"
        <4>1. Len(call.answer) = 1 /\ call.answer \in Seq(Answers)
          BY <1>1, <1>2, CallFields DEF LiveInv, CallConsistent
        <4>2. Answer \in Answers /\ fill = Answer.fill
          BY <3>2, <4>1 DEF Answer, AnsweredFill
        <4>3. fill \in [usd : Nat, shares : Nat]
          BY <3>2, <4>2 DEF Answers
        <4> QED BY <1>1, <3>2, <4>2, <4>3 DEF LiveInv, CallConsistent
      <3> QED BY <1>9, <3>1, <3>2 DEF Executed
    <2>3. /\ ledger' \in [cash : Nat, shares : Nat, spent : Nat]
          /\ sig.op = "BUY" => ledger'.spent = ledger.spent + fill.usd
      BY <1>2, <1>3, <2>1, <2>2, AppliedType
    <2>4. /\ belief' \in [deployed : Nat, cut : BOOLEAN]
          /\ sig.op = "BUY" => /\ belief'.deployed = belief.deployed + sig.amount
                               /\ belief'.cut = belief.cut
          /\ sig.op # "BUY" => belief'.deployed <= belief.deployed /\ belief'.cut
      <3> DEFINE more == belief.deployed + sig.amount
                 less == Greater(belief.deployed - ValueOf(sig.amount), 0)
      <3>1. more \in Nat /\ less \in Nat /\ less <= belief.deployed
        <4>1. belief.deployed \in Nat /\ sig.amount \in Nat
          BY <1>2, <1>3
        <4>2. ValueOf(sig.amount) \in Nat
          BY <4>1 DEF ValueOf
        <4> HIDE DEF sig
        <4> QED BY <4>1, <4>2 DEF Greater
      <3>2. belief' = IF sig.op = "BUY" THEN [belief EXCEPT !.deployed = more]
                      ELSE [deployed |-> less, cut |-> TRUE]
        BY <1>2, <2>1 DEF Notified
      <3> HIDE DEF more, less
      <3>3. /\ belief' \in [deployed : Nat, cut : BOOLEAN]
            /\ sig.op = "BUY" => belief'.deployed = more /\ belief'.cut = belief.cut
            /\ sig.op # "BUY" => belief'.deployed = less /\ belief'.cut
        BY <1>2, <3>1, <3>2
      <3> QED BY <3>1, <3>3 DEF more
    <2>5. LiveTypeOK'
      BY <1>1, <1>2, <1>3, <1>4, <2>3, <2>4 DEF LiveTypeOK
    <2>6. belief.deployed \in Nat /\ belief'.deployed \in Nat
      BY <1>2, <2>4
    <2>7. ClipsFit(orders', belief'.deployed)
      BY <1>1, <1>2, <2>4, <2>6, RestFits
    <2>8. RiskKnown'
      <3>1. CASE sig.op = "BUY"
        <4>1. /\ ledger.spent \in Nat
              /\ \/ belief.cut
                 \/ /\ belief.deployed >= ledger.spent
                    /\ exch.shares <= BookedLedger.shares + lost.shares
          BY <1>2 DEF LiveInv, RiskKnown
        <4>2. belief.deployed >= ledger.spent => belief'.deployed >= ledger'.spent
          BY <1>3, <2>2, <2>3, <2>4, <2>6, <3>1, <4>1
        <4> QED BY <1>1, <1>6, <2>4, <3>1, <4>1, <4>2 DEF RiskKnown
      <3>2. CASE sig.op # "BUY"
        BY <2>4, <3>2 DEF RiskKnown
      <3> QED BY <3>1, <3>2
    <2> QED BY <1>5, <1>7, <2>5, <2>7, <2>8 DEF LiveInv
  <1> QED BY <1>8, <1>9

-----------------------------------------------------------------------------
(* The theorems                                                             *)

\* Every step keeps the invariant.
LEMMA LiveNextInv == LiveInv /\ [LiveNext]_vars => LiveInv'
  <1> SUFFICES ASSUME LiveInv, [LiveNext]_vars PROVE LiveInv'
    OBVIOUS
  <1>1. CASE TickPlans
    BY <1>1, TickPlansInv
  <1>2. CASE Promote
    BY <1>2, PromoteInv
  <1>3. CASE Redeem
    BY <1>3, RedeemInv
  <1>4. CASE ExecuteStep
    BY <1>4, StartOrderInv, RefuseOrderInv, ExchangeFillsInv, ExchangeRejectsInv,
       WaitToRetryInv, PostAgainInv, FinishOrderInv DEF ExecuteStep
  <1>5. CASE UNCHANGED vars
    BY <1>5 DEF vars, books, LiveInv, LiveTypeOK, CallConsistent, Answer, BooksMatch,
             RiskKnown, BookedLedger, Executed, Applied, AnsweredFill, ByIntent
  <1> QED BY <1>1, <1>2, <1>3, <1>4, <1>5 DEF LiveNext

\* The orders of strategy J, their answers and the books they end up in keep the
\* invariant, whatever the exchange fills, kills, refuses or fails to tell.
THEOREM LiveInvariant == LiveSpec => []LiveInv
  <1> QED BY LiveInitInv, LiveNextInv, PTL DEF LiveSpec

\* What the stage of a call says of the fills of its order.
LEMMA InvFilledOnce == LiveInv => AtMostOneFill
  <1> SUFFICES ASSUME LiveInv PROVE AtMostOneFill
    OBVIOUS
  <1>1. call \in Calls
    BY DEF LiveInv, LiveTypeOK
  <1>2. call.answer \in Seq(Answers)
    BY <1>1, CallFields
  <1>3. CASE call.stage = "answered"
    <2>1. Len(call.answer) = 1
      BY <1>3 DEF LiveInv, CallConsistent
    <2>2. Answer.kind \in {"killed", "refused", "lost", "bare", "matched"}
      BY <1>2, <2>1 DEF Answer, Answers
    <2>3. call.fills = 0 \/ call.fills = 1
      BY <1>3, <2>2 DEF LiveInv, CallConsistent
    <2> QED BY <2>3 DEF AtMostOneFill
  <1>4. CASE call.stage = "idle"
    BY <1>4 DEF LiveInv, CallConsistent, NoCall, AtMostOneFill
  <1>5. CASE call.stage \in {"posting", "sleeping"}
    BY <1>5 DEF LiveInv, CallConsistent, AtMostOneFill
  <1> QED BY <1>1, <1>3, <1>4, <1>5, CallFields

\* No answer is under way between orders, so that the books must agree by then.
LEMMA InvBooksAgree == LiveInv => BooksAgree
  BY DEF LiveInv, BooksMatch, BookedLedger, BooksAgree

\* The clips that were noted are within the budget, and so is what they bought.
LEMMA InvRiskBounded == LiveInv => WindowRiskBounded
  BY DEF LiveInv, RiskKnown, ClipsFit, BookedLedger, WindowRiskBounded

\* should_retry_fok_reject: no signal is filled twice, however many answers are lost.
THEOREM FilledOnce == LiveSpec => []AtMostOneFill
  <1> QED BY InvFilledOnce, LiveInvariant, PTL

\* Between orders the ledger agrees with the exchange to the cent, partial fills and
\* redemptions still owed included, as long as every answer arrived with its amounts.
THEOREM AnswersAreBooked == LiveSpec => []BooksAgree
  <1> QED BY InvBooksAgree, LiveInvariant, PTL

\* The budget of the window bounds what is really bought in it: the strategy counts
\* no less than was spent, and the exchange holds beyond the ledger at most the fills
\* nobody was told of.
THEOREM RiskIsBounded == LiveSpec => []WindowRiskBounded
  <1> QED BY InvRiskBounded, LiveInvariant, PTL

=============================================================================
