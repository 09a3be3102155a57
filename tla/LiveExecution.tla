---------------------------- MODULE LiveExecution ----------------------------
(***************************************************************************)
(* Strategy J on the real exchange: the order loop of                      *)
(* execute_strategy_signals (src/src/main.rs), the FOK retries of          *)
(* src/src/live_executor.rs, the ledger that books the answers and the     *)
(* account snapshot that bounds the next order.  The exchange keeps its    *)
(* own books; the program knows them through answers, which may be lost,   *)
(* and through a balance it reads when a window starts.                    *)
(***************************************************************************)
EXTENDS Integers, Sequences

CONSTANTS
  Bank,         \* collateral on the exchange at the start
  MaxWindow,    \* what the strategy deploys in a window
  Sizes,        \* dollars of a buy, shares of a sale
  MinOrder,     \* min_order_usd
  PartialFills, \* the market orders are FAK instead of FOK
  Attempts,     \* LIVE_FOK_RETRY_ATTEMPTS
  MaxAge,       \* max_order_age_ms, in steps of the retry delay
  MaxWindows,   \* bound of the model: windows of the session
  MaxLost,      \* bound of the model: answers that get lost
  MaySell       \* the strategy sells as well

ASSUME LiveAssumption ==
  /\ Bank \in Nat /\ MaxWindow \in Nat /\ MinOrder \in Nat \ {0}
  /\ Sizes \subseteq Nat \ {0}
  /\ Attempts \in Nat \ {0} /\ MaxAge \in Nat
  /\ MaxWindows \in Nat /\ MaxLost \in Nat
  /\ PartialFills \in BOOLEAN /\ MaySell \in BOOLEAN

VARIABLES
  exch,     \* the exchange: [coll, shares, redeem], redeem not yet paid out
  ledger,   \* the portfolio: [cash, shares, spent], spent in this window
  account,  \* live_account: the last balance read
  belief,   \* the strategy's [deployed, cut]: its dollars, whether it sold
  orders,   \* signals of the tick that are not executed yet
  call,     \* the order under execution: [stage, attempt, answer, fills]
  age,      \* time since the tick that planned the orders, up to MaxAge + 1
  window,   \* number of the current window
  lost,     \* history: fills without an answer or its amounts: [n, shares untold]
  sent      \* history: the oldest age at which an order was posted

books == <<exch, ledger, account, belief>>
vars  == <<exch, ledger, account, belief, orders, call, age, window, lost, sent>>

Lesser(a, b)  == IF a <= b THEN a ELSE b
Greater(a, b) == IF a >= b THEN a ELSE b

\* Two shares a dollar at the price of the signal, a dollar for a share that wins.
SharesFor(usd) == 2 * usd
ValueOf(shares) == shares \div 2

\* strategy_cash_for_tick: the balance of the snapshot, capped by the ledger.
TradeCash == Lesser(account, ledger.cash)

NoCall == [stage |-> "idle", attempt |-> 0, answer |-> <<>>, fills |-> 0]

LiveInit ==
  /\ exch = [coll |-> Bank, shares |-> 0, redeem |-> 0]
  /\ ledger = [cash |-> Bank, shares |-> 0, spent |-> 0]
  /\ account = Bank
  /\ belief = [deployed |-> 0, cut |-> FALSE]
  /\ orders = <<>>
  /\ call = NoCall
  /\ age = 0 /\ window = 0
  /\ lost = [n |-> 0, shares |-> 0]
  /\ sent = 0

-----------------------------------------------------------------------------
(* The strategy and the window                                             *)

Buy(a)  == [op |-> "BUY", amount |-> a]
Sell(n) == [op |-> "SELL", amount |-> n]

\* What one tick may plan, as module WindowBudget has it: one sale in a window,
\* then clips within the budget and the cash of the tick.
Plans ==
  LET sales == {<<>>} \cup
        (IF MaySell /\ ~belief.cut
         THEN {<<Sell(n)>> : n \in {n \in Sizes : n <= ledger.shares}} ELSE {})
      clips == {<<>>} \cup {<<Buy(a)>> : a \in Sizes}
                      \cup {<<Buy(a), Buy(a)>> : a \in Sizes}
      cost(c) == IF c = <<>> THEN 0 ELSE Len(c) * c[1].amount
  IN  { s \o c : s \in sales,
                 c \in {c \in clips : /\ cost(c) <= TradeCash
                                      /\ belief.deployed + cost(c) <= MaxWindow} } \ {<<>>}

\* run_j_endgame_live_tick up to the execution of its signals.
TickPlans ==
  /\ orders = <<>>
  /\ orders' \in Plans
  /\ age' = 0
  /\ UNCHANGED <<books, call, window, lost, sent>>

\* The window ends and the next one is promoted: the ledger is paid at once, the
\* exchange pays later; refresh_live_account reads the balance, or fails and
\* keeps the one it has; the strategy starts with a new window state.
ReadBalance == {account, exch.coll}
Promote ==
  /\ orders = <<>>
  /\ window < MaxWindows
  /\ window' = window + 1
  /\ \E wins \in BOOLEAN :
       /\ ledger' = [cash   |-> ledger.cash + (IF wins THEN ledger.shares ELSE 0),
                     shares |-> 0, spent |-> 0]
       /\ exch' = [exch EXCEPT !.shares = 0,
                               !.redeem = @ + (IF wins THEN exch.shares ELSE 0)]
  /\ account' \in ReadBalance
  /\ belief' = [deployed |-> 0, cut |-> FALSE]
  /\ lost' = [lost EXCEPT !.shares = 0]
  /\ UNCHANGED <<orders, call, age, sent>>

\* The exchange redeems what the ledger has booked already.
Redeem ==
  /\ exch.redeem > 0
  /\ exch' = [exch EXCEPT !.coll = @ + exch.redeem, !.redeem = 0]
  /\ UNCHANGED <<ledger, account, belief, orders, call, age, window, lost, sent>>

-----------------------------------------------------------------------------
(* One order                                                               *)

Older(steps) == Lesser(age + steps, MaxAge + 1)

\* build_live_order_intent: a whole order above the minimum.
Intended(sig) ==
  IF sig.op = "BUY" THEN sig.amount >= MinOrder ELSE ValueOf(sig.amount) >= MinOrder

\* execute_j_signal_inner before the first attempt.  Its created_at is the time
\* of the call itself, so the age it compares with max_order_age is zero.
CallAge == 0
StartOrder ==
  /\ orders # <<>> /\ call.stage = "idle"
  /\ CallAge <= MaxAge
  /\ Intended(Head(orders))
  /\ call' = [NoCall EXCEPT !.stage = "posting", !.attempt = 1]
  /\ sent' = Greater(sent, age)
  /\ UNCHANGED <<books, orders, age, window, lost>>

\* A signal without an intent is an error: not executed, not notified.
RefuseOrder ==
  /\ orders # <<>> /\ call.stage = "idle"
  /\ CallAge > MaxAge \/ ~Intended(Head(orders))
  /\ orders' = Tail(orders)
  /\ UNCHANGED <<books, call, age, window, lost, sent>>

\* What the exchange may make of an order: [usd, shares].  A buy has its least
\* number of shares fixed; a sale is at any bid.
Fills(sig) ==
  LET whole == IF sig.op = "BUY"
               THEN {[usd |-> sig.amount, shares |-> SharesFor(sig.amount) + more] : more \in {0, 1}}
               ELSE {[usd |-> v, shares |-> sig.amount] : v \in {ValueOf(sig.amount), 1}}
      part  == IF sig.op = "BUY"
               THEN {[usd |-> k, shares |-> SharesFor(k)] : k \in 1..(sig.amount - 1)}
               ELSE {[usd |-> ValueOf(k), shares |-> k] : k \in 2..(sig.amount - 1)}
  IN  IF PartialFills THEN whole \cup part ELSE whole

Filled(fill, sig) ==
  IF sig.op = "BUY"
  THEN [exch EXCEPT !.coll = @ - fill.usd, !.shares = @ + fill.shares]
  ELSE [exch EXCEPT !.coll = @ + fill.usd, !.shares = @ - fill.shares]

Covered(fill, sig) ==
  IF sig.op = "BUY" THEN fill.usd <= exch.coll ELSE fill.shares <= exch.shares

Answered(answer) == call' = [call EXCEPT !.stage = "answered", !.answer = <<answer>>]

\* What the signal meant to buy or sell.
ByIntent(sig) ==
  IF sig.op = "BUY" THEN [usd |-> sig.amount, shares |-> SharesFor(sig.amount)]
  ELSE [usd |-> ValueOf(sig.amount), shares |-> sig.amount]

\* What the exchange holds more than the ledger will, when the answer is lost or when
\* it came bare of plausible amounts and the intended ones are booked.
Untold(kind, fill, sig) ==
  LET told == IF kind = "bare" THEN ByIntent(sig).shares ELSE 0
  IN  IF sig.op = "BUY" THEN Greater(fill.shares - told, 0) ELSE Greater(told - fill.shares, 0)

\* The exchange fills the order; the answer arrives, with or without the amounts, or
\* is lost on the way.
ExchangeFills ==
  /\ call.stage = "posting"
  /\ \E fill \in Fills(Head(orders)) :
       /\ Covered(fill, Head(orders))
       /\ exch' = Filled(fill, Head(orders))
       /\ \/ /\ call' = [call EXCEPT !.stage = "answered", !.fills = @ + 1,
                                     !.answer = <<[kind |-> "matched", fill |-> fill]>>]
             /\ UNCHANGED lost
          \/ /\ lost.n < MaxLost
             /\ \E kind \in {"lost", "bare"} :
                  /\ call' = [call EXCEPT !.stage = "answered", !.fills = @ + 1,
                                          !.answer = <<[kind |-> kind]>>]
                  /\ lost' = [n |-> lost.n + 1,
                              shares |-> lost.shares + Untold(kind, fill, Head(orders))]
  /\ age' = Older(1)
  /\ UNCHANGED <<ledger, account, belief, orders, window, sent>>

\* It kills the order for want of size, or with any text the executor takes for that
\* (UNMATCHED, fok), refuses it with another one, or the request never reaches it.
ExchangeRejects ==
  /\ call.stage = "posting"
  /\ \E kind \in {"killed", "refused", "lost"} : Answered([kind |-> kind])
  /\ age' = Older(1)
  /\ UNCHANGED <<books, orders, window, lost, sent>>

Answer == call.answer[1]
MaxAttempts == IF PartialFills THEN 1 ELSE Attempts

\* should_retry_fok_reject: only a FOK order that was killed is sent again.
AnyRejection  == Answer.kind # "matched"   \* faulty variant of FokKilled
FokKilled     == Answer.kind = "killed"
RetryForever  == FokKilled                 \* faulty variant of MayRetry
MayRetry      == FokKilled /\ call.attempt < MaxAttempts

WaitToRetry ==
  /\ call.stage = "answered" /\ MayRetry
  /\ call' = [call EXCEPT !.stage = "sleeping", !.answer = <<>>]
  /\ UNCHANGED <<books, orders, age, window, lost, sent>>

SameAttempt == call.attempt   \* faulty variant of NextAttempt
NextAttempt == call.attempt + 1

PostAgain ==
  /\ call.stage = "sleeping"
  /\ call' = [call EXCEPT !.stage = "posting", !.attempt = NextAttempt]
  /\ age' = Older(1)
  /\ sent' = Greater(sent, Older(1))
  /\ UNCHANGED <<books, orders, window, lost>>

\* matched_response_fill and apply_live_result_to_portfolio: the amounts of the
\* answer, and those of the signal (ByIntent, also the faulty variant) only if it has
\* none; the cash is clamped at zero, a sale at the shares in hand.
AnsweredFill(sig) == IF Answer.kind = "matched" THEN Answer.fill ELSE ByIntent(sig)

Applied(sig) ==
  LET fill == AnsweredFill(sig)
  IN  IF sig.op = "BUY"
      THEN [cash   |-> Greater(ledger.cash - fill.usd, 0),
            shares |-> ledger.shares + fill.shares,
            spent  |-> ledger.spent + fill.usd]
      ELSE [ledger EXCEPT !.cash = @ + fill.usd,
                          !.shares = Greater(@ - fill.shares, 0)]

\* notify_order_executed with the signal: its amount, not that of the fill.
Unnotified(sig) == belief   \* faulty variant of Notified
Notified(sig) ==
  IF sig.op = "BUY" THEN [belief EXCEPT !.deployed = @ + sig.amount]
  ELSE [deployed |-> Greater(belief.deployed - ValueOf(sig.amount), 0), cut |-> TRUE]

Executed == Answer.kind \in {"matched", "bare"}

FinishOrder ==
  /\ call.stage = "answered" /\ ~MayRetry
  /\ IF Executed
     THEN /\ ledger' = Applied(Head(orders))
          /\ belief' = Notified(Head(orders))
     ELSE UNCHANGED <<ledger, belief>>
  /\ call' = NoCall
  /\ orders' = Tail(orders)
  /\ UNCHANGED <<exch, account, age, window, lost, sent>>

-----------------------------------------------------------------------------

ExecuteStep ==
  StartOrder \/ RefuseOrder \/ ExchangeFills \/ ExchangeRejects
  \/ WaitToRetry \/ PostAgain \/ FinishOrder
LiveNext == TickPlans \/ Promote \/ Redeem \/ ExecuteStep

\* The client returns an answer or an error and the loop goes on with it.
LiveSpec == LiveInit /\ [][LiveNext]_vars /\ WF_vars(ExecuteStep)

-----------------------------------------------------------------------------
(* Properties                                                              *)

Orders  == [op : {"BUY", "SELL"}, amount : Sizes]
Answers == [kind : {"killed", "refused", "lost", "bare"}]
             \cup [kind : {"matched"}, fill : [usd : Nat, shares : Nat]]
Calls   == [stage : {"idle", "posting", "answered", "sleeping"},
            attempt : 0..MaxAttempts, answer : Seq(Answers), fills : Nat]

\* The books on both sides hold no negative amounts, the attempts are bounded.
LiveTypeOK ==
  /\ exch \in [coll : Nat, shares : Nat, redeem : Nat]
  /\ ledger \in [cash : Nat, shares : Nat, spent : Nat]
  /\ belief \in [deployed : Nat, cut : BOOLEAN]
  /\ account \in Nat /\ age \in 0..(MaxAge + 1)
  /\ orders \in Seq(Orders) /\ call \in Calls
  /\ window \in 0..MaxWindows /\ sent \in 0..(MaxAge + 1)
  /\ lost \in [n : 0..MaxLost, shares : Nat]

\* Where the call stands and what the exchange has done for it: an order that is to
\* be sent again was not filled, one that was matched was filled once.
CallConsistent ==
  /\ call.stage = "idle" => call = NoCall
  /\ call.stage # "idle" => orders # <<>>
  /\ call.stage \in {"posting", "sleeping"} => call.fills = 0
  /\ call.stage = "sleeping" => call.attempt < MaxAttempts
  /\ call.stage = "answered" =>
       /\ Len(call.answer) = 1
       /\ Answer.kind \in {"killed", "refused"} => call.fills = 0
       /\ Answer.kind = "lost" => call.fills = 0 \/ (call.fills = 1 /\ lost.n > 0)
       /\ Answer.kind = "bare" => call.fills = 1
       /\ Answer.kind = "matched" =>
            /\ call.fills = 1
            /\ Head(orders).op = "BUY" => Answer.fill.usd <= Head(orders).amount

\* The clips still to be executed are alike, two at most, and within the budget.
ClipsFit(queue, deployed) ==
  /\ deployed <= MaxWindow
  /\ \A i \in DOMAIN queue : queue[i].op = "BUY" =>
       /\ deployed + queue[i].amount <= MaxWindow
       /\ \A j \in DOMAIN queue : j > i =>
            /\ j = i + 1 /\ queue[j] = queue[i]
            /\ deployed + 2 * queue[i].amount <= MaxWindow

\* The ledger once an answer that has arrived is booked.
BookedLedger ==
  IF call.stage = "answered" /\ Executed THEN Applied(Head(orders)) ELSE ledger

\* Up to that answer the books agree, if all came with their amounts.
BooksMatch ==
  lost.n = 0 => /\ BookedLedger.shares = exch.shares
                /\ BookedLedger.cash = exch.coll + exch.redeem

\* Up to that answer the exchange holds no more than the ledger and what was untold.
RiskKnown ==
  \/ belief.cut
  \/ /\ belief.deployed >= ledger.spent
     /\ exch.shares <= BookedLedger.shares + lost.shares

\* What makes the properties below hold in every step, answers under way included.
LiveInv ==
  /\ LiveTypeOK
  /\ CallConsistent
  /\ ClipsFit(orders, belief.deployed)
  /\ BooksMatch
  /\ RiskKnown

\* The retries of one signal never buy twice, whichever answers are lost: only
\* an order the exchange is known to have killed is sent again.
AtMostOneFill == call.fills <= 1

\* Between orders, when every answer arrived with its amounts, ledger and exchange
\* agree to the cent, redemptions the exchange still owes and partial fills included.
BooksAgree ==
  (call.stage = "idle" /\ lost.n = 0) =>
    /\ ledger.shares = exch.shares
    /\ ledger.cash = exch.coll + exch.redeem

\* Until the window was cut the strategy counts no less than the ledger spent, and
\* the exchange holds at most the fills it was not told of beyond the ledger: the
\* budget of the window bounds what is really bought in it.
WindowRiskBounded ==
  \/ belief.cut
  \/ /\ belief.deployed >= ledger.spent
     /\ belief.deployed <= MaxWindow
     /\ call.stage = "idle" => exch.shares <= ledger.shares + lost.shares

\* Each order comes to an end: the retries are bounded and the loop goes on.
OrdersDrain == (orders # <<>>) ~> (orders = <<>>)

\* J_LIVE_EXECUTION_PLAN.md has a stale-order guard before the submit.  (The
\* guard compares the time of the call with itself, and retries do not ask it.)
NoStaleSubmit == sent <= MaxAge
=============================================================================
