------------------------------ MODULE BookFeed ------------------------------
(***************************************************************************)
(* The CLOB subscription of a market: how the messages of                  *)
(* subscribe_prices (src/src/client.rs) become the quotes of a token, the  *)
(* prints that feed the trade tape (src/src/trade_tape.rs), and the ask    *)
(* depth that strategy J sweeps (src/src/orderbook.rs).                    *)
(*                                                                         *)
(* The two tokens are treated alike and do not interact here, so one is    *)
(* modelled.  Prices are in cents.  A level of depth has a price and a     *)
(* worth, the cents it costs to take it whole; taking a part of it is      *)
(* taking a part of its worth, so share counts, which are quotients, do    *)
(* not appear.  Messages reach the event loop in order through its         *)
(* channel, and a print carries the time it was sent, so the tape is that  *)
(* of a loop that keeps up.                                                *)
(***************************************************************************)
EXTENDS Integers, Sequences, FiniteSets, Functions

CONSTANTS
  BookAsks, BookBids,   \* sets of levels a book message may list
  TradePrices,          \* prices of price_change and trade messages
  TradeSizes,           \* worth of a trade as its size tells, 0 for no size
  TapeWindow,           \* tape_window_ms
  MinUsd,               \* min_usd of infer_trade_usd, one dollar
  Limits, ClipSizes,    \* max_pay and clip_usd of a sweep
  Budgets, MaxClips,    \* its remaining_budget, and the clips it may still buy
  MaxPrints, MaxClock   \* bounds

\* A book lists each price once.
FeedAssumption ==
  /\ \A levels \in BookAsks \cup BookBids :
       /\ IsFiniteSet(levels)
       /\ \A level \in levels : level \in [price : Nat, worth : Nat]
       /\ \A a, b \in levels : a.price = b.price => a = b
  /\ TradePrices \subseteq 1 .. 98
  /\ TradeSizes \subseteq Nat
  /\ TapeWindow \in Nat \ {0} /\ MinUsd \in Nat
  /\ Limits \subseteq Nat \ {0} /\ ClipSizes \subseteq Nat \ {0}
  /\ Budgets \subseteq Nat /\ MaxClips \in Nat
  /\ MaxPrints \in Nat /\ MaxClock \in Nat

VARIABLES
  clock,
  prices,    \* ContractPrices of the token: bid, ask and book
  printed,   \* every print ever recorded, oldest first
  pruned,    \* how many of them its SideTape has dropped again
  sweep      \* the sweep under way on a copy of the prices: its arguments, the ask
             \* levels left, and the clips and money of its fills

vars == <<clock, prices, printed, pruned, sweep>>

Larger(a, b)  == IF a >= b THEN a ELSE b
Smaller(a, b) == IF a <= b THEN a ELSE b
Apart(a, b)   == Larger(a, b) - Smaller(a, b)

\* Sums of the first entries of a sequence of numbers.
Sums(f) ==
  LET sum[i \in 0 .. Len(f)] == IF i = 0 THEN 0 ELSE sum[i - 1] + f[i] IN sum
Total(f) == Sums(f)[Len(f)]

\* The members of a finite set, in the order of their ranks.
Ranked(S, rank) ==
  CHOOSE s \in [1 .. Cardinality(S) -> S] :
    \A i, j \in 1 .. Cardinality(S) : i < j => rank[s[i]] < rank[s[j]]

-----------------------------------------------------------------------------
(* Books                                                                   *)

\* parse_levels: levels without a price or a size are left out.
Parsed(levels) == {level \in levels : level.price > 0 /\ level.worth > 0}

\* sort_bids, sort_asks: from the best price on.
Bids(levels) == Ranked(Parsed(levels), [level \in Parsed(levels) |-> -level.price])
Asks(levels) == Ranked(Parsed(levels), [level \in Parsed(levels) |-> level.price])

BestOf(levels) == IF levels = <<>> THEN 0 ELSE levels[1].price

\* contract_from_ws_book
FromBook(bids, asks) ==
  [bid |-> BestOf(Bids(bids)), ask |-> BestOf(Asks(asks)),
   book |-> [bids |-> Bids(bids), asks |-> Asks(asks)]]

\* price_change, trade and last_trade_price: the price is taken for the best
\* bid, and the ask is moved out of its way; the levels stay as they were.
AskAbove(price, ask) == IF ask <= price THEN price + 1 ELSE ask
AtTrade(price) ==
  [bid |-> price, ask |-> AskAbove(price, prices.ask), book |-> prices.book]

\* The books of the exchange itself are not crossed.
Uncrossed(quotes) ==
  /\ quotes.bid \in 0 .. 98 /\ quotes.ask \in 0 .. 99
  /\ quotes.bid > 0 /\ quotes.ask > 0 => quotes.bid < quotes.ask
BooksAssumption ==
  \A bids \in BookBids, asks \in BookAsks : Uncrossed(FromBook(bids, asks))

-----------------------------------------------------------------------------
(* The tape                                                                *)

\* is_aggressive_buy, for a message that does not name its side.
Aggressive(price) ==
  \/ prices.ask > 0 /\ price >= prices.ask
  \/ prices.bid > 0 /\ prices.ask > 0
       /\ Apart(prices.ask, price) <= Apart(price, prices.bid)
  \/ ~(prices.bid > 0 /\ prices.ask > 0)

IsBuy(side, price) == side = "BUY" \/ (side = "NONE" /\ Aggressive(price))

\* infer_trade_usd
TradeUsd(worth) == IF worth = 0 THEN MinUsd ELSE Larger(worth, MinUsd)

Kept(tape) == pruned + 1 .. Len(tape)

\* faulty variant of Outdated: a print on the border goes too
OutdatedAtBorder(print, now) == print.at <= now - TapeWindow

Outdated(print, now) == print.at < now - TapeWindow

\* prune: the front of the queue goes, as long as it is outdated.
Prune(tape, now) ==
  CHOOSE n \in pruned .. Len(tape) :
    /\ \A i \in pruned + 1 .. n : Outdated(tape[i], now)
    /\ n < Len(tape) => ~Outdated(tape[n + 1], now)

\* record_buy
RecordBuy(usd) ==
  IF usd <= 0
  THEN UNCHANGED <<printed, pruned>>
  ELSE /\ printed' = Append(printed, [at |-> clock, usd |-> usd])
       /\ pruned' = Prune(printed', clock)

\* TradeTapeTracker::snapshot, of one side: number and worth of the prints kept
\* that are within the window.
UsdOf(tape)      == [i \in 1 .. Len(tape) |-> tape[i].usd]
Within(now)      == {i \in 1 .. Len(printed) : printed[i].at >= now - TapeWindow}
StatsOf(indices) == [count |-> Cardinality(indices),
                     usd   |-> SumFunctionOnSet(UsdOf(printed), indices)]
Snapshot(now)    == StatsOf(Within(now) \cap Kept(printed))

-----------------------------------------------------------------------------
(* Depth                                                                   *)

\* ask_depth_usd
Payable(asks, max_pay) ==
  [i \in 1 .. Len(asks) |-> IF asks[i].price <= max_pay THEN asks[i].worth ELSE 0]
AskDepth(asks, max_pay) == Total(Payable(asks, max_pay))

\* simulate_limit_buy_fill: what a buy of up to max_usd takes of each level.
\* Levels are walked from the best; the walk ends above the limit, or when less
\* than a cent is left.
Before(asks, i) == Sums([j \in 1 .. Len(asks) |-> asks[j].worth])[i - 1]
Taken(asks, limit, max_usd) ==
  [i \in 1 .. Len(asks) |->
     IF \E j \in 1 .. i : asks[j].price > limit THEN 0
     ELSE Smaller(asks[i].worth, Larger(0, max_usd - Before(asks, i)))]

FillUsd(asks, limit, max_usd) == Total(Taken(asks, limit, max_usd))

LeftUntouched(asks, limit, max_usd) == asks \* faulty variant of LeftAfter

\* apply_fill_to_asks: levels taken whole are removed, the others stay in order.
LeftAfter(asks, limit, max_usd) ==
  LET taken == Taken(asks, limit, max_usd)
      some  == {i \in 1 .. Len(asks) : asks[i].worth > taken[i]}
      index == Ranked(some, [i \in some |-> i])
  IN  [k \in 1 .. Cardinality(some) |->
         [asks[index[k]] EXCEPT !.worth = @ - taken[index[k]]]]

-----------------------------------------------------------------------------
(* A sweep (sweep_endgame_clips): clips of one tick, one after the other    *)

NoSweep == [limit |-> 0]

\* The arguments of a sweep, and what it has filled so far.
Started(limit, clip, budget) ==
  [limit |-> limit, clip |-> clip, budget |-> budget,
   left |-> prices.book.asks, clips |-> 0, bought |-> 0]

\* The quote stands for the levels when there are none, for any amount (simulate_taker_buy_fill).
TopFill(limit, clip) == IF prices.ask \in 1 .. limit THEN clip ELSE 0

ClipFill(s) == IF s.left = <<>> THEN TopFill(s.limit, s.clip)
               ELSE FillUsd(s.left, s.limit, s.clip)

\* It goes on while a whole clip is affordable and the last one was filled, but for 5 %.
MayFill(s) == s.bought + s.clip <= s.budget /\ s.clips < MaxClips
Filled(s)  == MayFill(s) /\ 100 * ClipFill(s) >= 95 * s.clip

AfterClip(s) == [s EXCEPT !.left = LeftAfter(s.left, s.limit, s.clip),
                          !.clips = @ + 1, !.bought = @ + ClipFill(s)]

-----------------------------------------------------------------------------

NoPrices == [bid |-> 0, ask |-> 0, book |-> [bids |-> <<>>, asks |-> <<>>]]

\* get_book_snapshot at the start of the subscription may have failed.
Init ==
  /\ clock = 0
  /\ prices \in {NoPrices} \cup {FromBook(b, a) : b \in BookBids, a \in BookAsks}
  /\ printed = <<>>
  /\ pruned = 0
  /\ sweep = NoSweep

PassTime ==
  /\ sweep = NoSweep
  /\ clock < MaxClock
  /\ clock' = clock + 1
  /\ UNCHANGED <<prices, printed, pruned, sweep>>

BookMessage ==
  /\ sweep = NoSweep
  /\ \E bids \in BookBids, asks \in BookAsks : prices' = FromBook(bids, asks)
  /\ UNCHANGED <<clock, printed, pruned, sweep>>

\* The print is judged by the quotes of before the message.
TradeMessage ==
  /\ sweep = NoSweep
  /\ \E price \in TradePrices, side \in {"BUY", "SELL", "NONE"}, worth \in TradeSizes :
    /\ prices' = AtTrade(price)
    /\ IF IsBuy(side, price)
       THEN Len(printed) < MaxPrints /\ RecordBuy(TradeUsd(worth))
       ELSE UNCHANGED <<printed, pruned>>
    /\ UNCHANGED <<clock, sweep>>

\* The sweep is over before the next message is handled, and its copy goes with it.
BeginSweep ==
  /\ sweep = NoSweep
  /\ \E limit \in Limits, clip \in ClipSizes, budget \in Budgets :
       sweep' = Started(limit, clip, budget)
  /\ UNCHANGED <<clock, prices, printed, pruned>>

NextClip ==
  /\ sweep # NoSweep
  /\ sweep' = IF Filled(sweep) THEN AfterClip(sweep) ELSE NoSweep
  /\ UNCHANGED <<clock, prices, printed, pruned>>

Next == PassTime \/ BookMessage \/ TradeMessage \/ BeginSweep \/ NextClip

Spec == Init /\ [][Next]_vars

-----------------------------------------------------------------------------
(* Properties                                                              *)

TapePrint == [at : Nat, usd : Nat]
\* The range of the variables; the levels' is that of LevelsInOrder.
TypeOK ==
  /\ clock \in 0 .. MaxClock
  /\ prices.bid \in 0 .. 98 /\ prices.ask \in 0 .. 99
  /\ printed \in Seq(TapePrint)
  /\ pruned \in 0 .. Len(printed)

\* The tape is pruned only when a print arrives, and only from the front.  Yet
\* at every moment its snapshot is the count and sum of all prints of the last
\* tape_window_ms, as if every print had been kept.
SnapshotIsExact == Snapshot(clock) = StatsOf(Within(clock))

\* The tape does not grow with the session: everything it keeps was within the
\* window of the print that came last.
TapeStaysShort ==
  \A i \in Kept(printed) : printed[i].at >= printed[Len(printed)].at - TapeWindow

\* What makes the two so: prints are stamped in order, and those dropped were outdated.
PrintsInOrder ==
  /\ \A i \in 1 .. Len(printed) : printed[i].at <= clock
  /\ \A i, j \in 1 .. Len(printed) : i <= j => printed[i].at <= printed[j].at
PrunedOutdated == \A i \in 1 .. pruned : Outdated(printed[i], clock)
TapeInv == TypeOK /\ PrintsInOrder /\ PrunedOutdated /\ TapeStaysShort

\* Whatever trades and books came before, a quoted ask stands above the bid: the
\* mids and spreads strategies read are never those of a crossed book.
SpreadStaysOpen == Uncrossed(prices)

\* Levels have a price and a worth, and are listed from the best one.
Level == [price : Nat \ {0}, worth : Nat \ {0}]
Sorted(levels, Better(_, _)) ==
  \A i \in 1 .. Len(levels) - 1 : Better(levels[i].price, levels[i + 1].price)
LevelsInOrder ==
  /\ prices.book.bids \in Seq(Level) /\ prices.book.asks \in Seq(Level)
  /\ Sorted(prices.book.bids, LAMBDA a, b : a > b)
  /\ Sorted(prices.book.asks, LAMBDA a, b : a < b)

\* Clips bought one after the other never take a level's depth twice: what they
\* have bought and what the levels left still offer make up the depth the sweep
\* found, whatever the levels and the limit.  Only when no level is left, and the
\* quote is within the limit, is more bought than that.
LevelsFillOnce ==
  sweep # NoSweep =>
    LET depth == AskDepth(prices.book.asks, sweep.limit)
    IN  \/ sweep.bought + AskDepth(sweep.left, sweep.limit) = depth
        \/ sweep.left = <<>> /\ sweep.bought > depth /\ prices.ask \in 1 .. sweep.limit

\* Its fills are whole clips, but for 5 % each, and stay within its budget.
SweepWithinBudget ==
  sweep # NoSweep =>
    /\ sweep.bought <= sweep.budget /\ sweep.clips <= MaxClips
    /\ 100 * sweep.bought >= 95 * (sweep.clips * sweep.clip)
    /\ sweep.bought <= sweep.clips * sweep.clip
=============================================================================
