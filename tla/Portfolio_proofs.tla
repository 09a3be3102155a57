-------------------------- MODULE Portfolio_proofs --------------------------
(***************************************************************************)
(* Theorems about the ledger of module Portfolio, for every set of windows *)
(* and every range of amounts, prices and price-to-beat values.            *)
(***************************************************************************)
EXTENDS Portfolio, TLAPS, FiniteSetTheorems, WellFoundedInduction

(* Arithmetic on naturals, stated once for the provers. *)

LEMMA TimesNat == \A a, b \in Nat : a * b \in Nat
  OBVIOUS

LEMMA DivNat == \A a, b \in Nat : b > 0 => a \div b \in Nat
  OBVIOUS

-----------------------------------------------------------------------------
(* Type correctness, operation by operation                                *)

LEMMA CreateWindowType ==
  ASSUME LedgerTypeOK, NEW w \in Windows, NEW ptb \in Nat, CreateWindow(w, ptb)
  PROVE  LedgerTypeOK'
  BY DEF LedgerTypeOK, CreateWindow, tally, book, Statuses

LEMMA WarmUpType ==
  ASSUME LedgerTypeOK, NEW w \in Windows, NEW ptb \in Nat, WarmUp(w, ptb)
  PROVE  LedgerTypeOK'
  BY DEF LedgerTypeOK, WarmUp, book, Statuses

LEMMA LiveSinceStartupType ==
  ASSUME LedgerTypeOK, NEW w \in Windows, NEW ptb \in Nat, LiveSinceStartup(w, ptb)
  PROVE  LedgerTypeOK'
  BY DEF LedgerTypeOK, LiveSinceStartup, tally, book, Statuses

LEMMA WatchType ==
  ASSUME LedgerTypeOK, NEW w \in Windows, NEW ptb \in Nat, Watch(w, ptb)
  PROVE  LedgerTypeOK'
  BY WarmUpType, LiveSinceStartupType DEF Watch

LEMMA PromoteWindowType ==
  ASSUME LedgerTypeOK, NEW w \in Windows, NEW entered \in BOOLEAN,
         PromoteWindow(w, entered)
  PROVE  LedgerTypeOK'
  BY DEF LedgerTypeOK, PromoteWindow, book, Statuses

LEMMA MarkPendingType ==
  ASSUME LedgerTypeOK, NEW w \in Windows, MarkPending(w)
  PROVE  LedgerTypeOK'
  BY DEF LedgerTypeOK, MarkPending, tally, book, Statuses

LEMMA StorePtbType ==
  ASSUME LedgerTypeOK, NEW w \in Windows, NEW ptb \in Nat, StorePtb(w, ptb)
  PROVE  LedgerTypeOK'
  BY DEF LedgerTypeOK, StorePtb, tally, book

LEMMA StorePricesType ==
  ASSUME LedgerTypeOK, NEW w \in Windows, NEW quotes \in [Sides -> Nat],
         StorePrices(w, quotes)
  PROVE  LedgerTypeOK'
  BY DEF LedgerTypeOK, StorePrices, tally, book

LEMMA StatusAfterBuyType ==
  ASSUME LedgerTypeOK, NEW w \in Windows
  PROVE  StatusAfterBuy(w) \in Statuses
  BY DEF LedgerTypeOK, StatusAfterBuy, Marked, Statuses

LEMMA BookBuyType ==
  ASSUME LedgerTypeOK, NEW w \in Windows, NEW side \in Sides,
         NEW usd \in Nat, NEW n \in Nat, available_cash' \in Nat,
         BookBuy(w, side, usd, n)
  PROVE  LedgerTypeOK'
  <1>1. StatusAfterBuy(w) \in Statuses
    BY StatusAfterBuyType
  <1>2. status' \in [Windows -> Statuses]
    BY <1>1 DEF LedgerTypeOK, BookBuy
  <1>3. /\ shares' \in [Windows -> [Sides -> Nat]]
        /\ spent' \in [Windows -> Nat]
    BY DEF LedgerTypeOK, BookBuy
  <1>4. skipped_windows' \in Nat /\ entered_windows' \in Nat
    BY DEF LedgerTypeOK, BookBuy
  <1> QED BY <1>2, <1>3, <1>4 DEF LedgerTypeOK, BookBuy

LEMMA BuyType ==
  ASSUME LedgerTypeOK, NEW w \in Windows, NEW side \in Sides,
         NEW usd \in Nat, NEW ask \in Nat, Buy(w, side, usd, ask)
  PROVE  LedgerTypeOK'
  <1>1. /\ ask > 0
        /\ available_cash' \in Nat
        /\ BookBuy(w, side, usd, usd \div ask)
    BY DEF LedgerTypeOK, Buy, ExecuteBuy, CanBuy, RecordExternalBuy,
           DebitedCash, Owing
  <1>2. usd \div ask \in Nat
    BY <1>1, DivNat
  <1> QED BY <1>1, <1>2, BookBuyType

LEMMA ExecuteSellType ==
  ASSUME LedgerTypeOK, NEW w \in Windows, NEW side \in Sides,
         NEW amount \in Nat, NEW price \in Nat,
         ExecuteSell(w, side, amount, price)
  PROVE  LedgerTypeOK'
  <1> DEFINE held == shares[w][side]
             sold == IF amount > held THEN held ELSE amount
  <1>1. held \in Nat /\ sold \in Nat /\ held - sold \in Nat
    BY DEF LedgerTypeOK
  <1>2. sold * price \in Nat
    BY <1>1, TimesNat
  <1>3. Sell(w, side, sold, price)
    BY DEF ExecuteSell
  <1> HIDE DEF sold
  <1>4. shares' \in [Windows -> [Sides -> Nat]]
    BY <1>1, <1>3 DEF LedgerTypeOK, Sell
  <1>5. /\ available_cash' = available_cash + sold * price
        /\ cash_returned' = [cash_returned EXCEPT ![w] = @ + sold * price]
    BY <1>3 DEF Sell
  <1>6. /\ available_cash' \in Nat
        /\ cash_returned' \in [Windows -> Nat]
    BY <1>2, <1>5 DEF LedgerTypeOK
  <1> QED BY <1>3, <1>4, <1>6 DEF LedgerTypeOK, Sell, tally

LEMMA CloseProceedsType ==
  ASSUME LedgerTypeOK, NEW w \in Windows, NEW close \in Nat
  PROVE  CloseProceeds(w, close) \in Nat
  <1>1. "UP" \in Sides /\ "DOWN" \in Sides /\ Winner(w, close) \in Sides
    BY DEF Sides, Winner
  <1>2. /\ shares[w][Winner(w, close)] * Unit \in Nat
        /\ shares[w]["UP"] * bid[w]["UP"] \in Nat
        /\ shares[w]["DOWN"] * bid[w]["DOWN"] \in Nat
    BY <1>1, TimesNat, UnitAssumption DEF LedgerTypeOK
  <1> QED BY <1>2 DEF CloseProceeds

LEMMA CloseWindowType ==
  ASSUME LedgerTypeOK, NEW w \in Windows, NEW close \in Nat,
         CloseWindow(w, close)
  PROVE  LedgerTypeOK'
  <1>1. CloseProceeds(w, close) \in Nat
    BY CloseProceedsType
  <1>2. LeftAfterClose(w, close) \in [Sides -> Nat]
    BY DEF LedgerTypeOK, LeftAfterClose
  <1>3. /\ available_cash' \in Nat
        /\ cash_returned' \in [Windows -> Nat]
    BY <1>1 DEF LedgerTypeOK, CloseWindow
  <1>4. /\ shares' \in [Windows -> [Sides -> Nat]]
        /\ status' \in [Windows -> Statuses]
    BY <1>2 DEF LedgerTypeOK, CloseWindow, Statuses
  <1>5. /\ closed_windows' \in Nat /\ wins' \in Nat /\ losses' \in Nat
        /\ overall_realized_pnl' \in Int
    BY <1>1 DEF LedgerTypeOK, CloseWindow
  <1>6. UNCHANGED <<spent, bid, price_to_beat, entered_windows, skipped_windows>>
    BY DEF CloseWindow
  <1> QED BY <1>3, <1>4, <1>5, <1>6 DEF LedgerTypeOK

-----------------------------------------------------------------------------
(* The ledger as its callers drive it                                      *)

LEMMA QuotesAreNat ==
  ASSUME NEW quotes \in Quotes
  PROVE  quotes \in [Sides -> Nat]
  <1>1. \A p \in Prices \cup {0} : p \in Nat
    BY InputsAssumption
  <1> QED BY <1>1 DEF Quotes

\* A window the ledger did not know: the one the session starts in, or another.
Opens(w, ptb) == \/ w # StartWindow /\ CreateWindow(w, ptb)
                 \/ w = StartWindow /\ Watch(w, ptb)

\* The operations a step of the ledger may be, with their arguments in range
\* and what the callers' protocol says of the window's status.
LEMMA LedgerOperations ==
  ASSUME LedgerNext
  PROVE  \E w \in Windows :
           \/ \E ptb \in Nat : status[w] = "NONE" /\ Opens(w, ptb)
           \/ \E entered \in BOOLEAN :
                /\ status[w] \in {"WAITING_ENTRY", "ENTERED_PRE_START"}
                /\ PromoteWindow(w, entered)
           \/ status[w] \in {"LIVE", "SKIPPED"} /\ MarkPending(w)
           \/ \E close \in Nat : /\ status[w] = "PENDING_SETTLEMENT"
                                 /\ CloseWindow(w, close)
           \/ \E ptb \in Nat : StorePtb(w, ptb)
           \/ \E quotes \in [Sides -> Nat] : StorePrices(w, quotes)
           \/ \E side \in Sides, amount \in Nat, price \in Nat :
                Buy(w, side, amount, price) \/ ExecuteSell(w, side, amount, price)
  <1>1. /\ PtbValues \subseteq Nat /\ PtbValues \cup {0} \subseteq Nat
        /\ Amounts \subseteq Nat /\ Prices \subseteq Nat
    BY InputsAssumption
  <1>2. PICK w \in Windows : \/ Open(w) \/ Promote(w) \/ Queue(w) \/ Settle(w)
                             \/ FixPtb(w) \/ Quote(w) \/ Trade(w)
    BY DEF LedgerNext
  <1>3. CASE Open(w)
    BY <1>1, <1>3 DEF Open, Known, Opens
  <1>4. CASE Promote(w)
    BY <1>4 DEF Promote
  <1>5. CASE Queue(w)
    BY <1>5 DEF Queue
  <1>6. CASE Settle(w)
    BY <1>1, <1>6 DEF Settle
  <1>7. CASE FixPtb(w)
    BY <1>1, <1>7 DEF FixPtb
  <1>8. CASE Quote(w)
    BY <1>8, QuotesAreNat DEF Quote
  <1>9. CASE Trade(w)
    BY <1>1, <1>9 DEF Trade
  <1> QED BY <1>2, <1>3, <1>4, <1>5, <1>6, <1>7, <1>8, <1>9

LEMMA LedgerTypeStep ==
  ASSUME LedgerTypeOK, [LedgerNext]_ledger
  PROVE  LedgerTypeOK'
  <1>1. CASE UNCHANGED ledger
    BY <1>1 DEF LedgerTypeOK, ledger
  <1>2. CASE LedgerNext
    <2>1. \A w \in Windows, ptb \in Nat : Opens(w, ptb) => LedgerTypeOK'
      BY CreateWindowType, WatchType DEF Opens
    <2> QED BY <1>2, <2>1, LedgerOperations, PromoteWindowType, MarkPendingType,
               CloseWindowType, StorePtbType, StorePricesType, BuyType, ExecuteSellType
  <1> QED BY <1>1, <1>2

LEMMA LedgerTypeStart == LedgerInit => LedgerTypeOK
  BY BankAssumption DEF LedgerInit, LedgerTypeOK, NoShares, NoQuotes, Statuses

\* Every field of the ledger stays in its range; in particular neither the
\* cash nor a window's shares ever fall below zero (trader.rs, Portfolio).
THEOREM LedgerTypeCorrect == LedgerSpec => []LedgerTypeOK
  <1> QED BY LedgerTypeStart, LedgerTypeStep, PTL DEF LedgerSpec

-----------------------------------------------------------------------------
(* Every step moves the cash by what one window returned and spent         *)

\* The books of every other window are as they were.
OthersKept(w) == \A v \in Windows \ {w} : /\ spent'[v] = spent[v]
                                          /\ cash_returned'[v] = cash_returned[v]
                                          /\ shares'[v] = shares[v]

\* Operations that neither trade nor close leave every book alone.
LEMMA LifecycleKeepsBook ==
  ASSUME NEW w \in Windows
  PROVE  /\ \A ptb \in Nat : Opens(w, ptb) \/ StorePtb(w, ptb) => UNCHANGED book
         /\ \A entered \in BOOLEAN : PromoteWindow(w, entered) => UNCHANGED book
         /\ MarkPending(w) => UNCHANGED book
         /\ \A quotes \in [Sides -> Nat] : StorePrices(w, quotes) => UNCHANGED book
  BY DEF Opens, CreateWindow, Watch, WarmUp, LiveSinceStartup, StorePtb,
         PromoteWindow, MarkPending, StorePrices, book

LEMMA BookUnchanged ==
  ASSUME LedgerTypeOK, NEW w \in Windows, UNCHANGED book
  PROVE  BooksOneWindow
  <1>1. cash_returned[w] \in Nat /\ spent[w] \in Nat /\ available_cash \in Nat
    BY DEF LedgerTypeOK
  <1> QED BY <1>1 DEF book, BooksOneWindow

LEMMA BuyBooksOneWindow ==
  ASSUME LedgerTypeOK, ~Live, NEW w \in Windows, NEW side \in Sides,
         NEW usd \in Nat, NEW ask \in Nat, Buy(w, side, usd, ask)
  PROVE  BooksOneWindow
  <1>1. /\ available_cash' = available_cash - usd
        /\ spent' = [spent EXCEPT ![w] = @ + usd]
        /\ shares' = [shares EXCEPT ![w][side] = @ + usd \div ask]
        /\ cash_returned' = cash_returned
    BY DEF Buy, ExecuteBuy, BookBuy
  <1>2. spent[w] \in Nat /\ cash_returned[w] \in Nat /\ available_cash \in Nat
    BY DEF LedgerTypeOK
  <1>3. spent'[w] = spent[w] + usd /\ OthersKept(w)
    BY <1>1 DEF LedgerTypeOK, OthersKept
  <1> QED BY <1>1, <1>2, <1>3 DEF BooksOneWindow, OthersKept

LEMMA SellBooksOneWindow ==
  ASSUME LedgerTypeOK, NEW w \in Windows, NEW side \in Sides,
         NEW sold \in Nat, NEW price \in Nat, Sell(w, side, sold, price)
  PROVE  BooksOneWindow
  <1> DEFINE value == sold * price
  <1>1. /\ available_cash' = available_cash + value
        /\ cash_returned' = [cash_returned EXCEPT ![w] = @ + value]
        /\ shares' = [shares EXCEPT ![w][side] = @ - sold]
        /\ spent' = spent
    BY DEF Sell
  <1>2. value \in Nat
    BY TimesNat
  <1> HIDE DEF value
  <1>3. spent[w] \in Nat /\ cash_returned[w] \in Nat /\ available_cash \in Nat
    BY DEF LedgerTypeOK
  <1>4. cash_returned'[w] = cash_returned[w] + value /\ OthersKept(w)
    BY <1>1 DEF LedgerTypeOK, OthersKept
  <1> QED BY <1>1, <1>2, <1>3, <1>4 DEF BooksOneWindow, OthersKept

LEMMA CloseBooksOneWindow ==
  ASSUME LedgerTypeOK, NEW w \in Windows, NEW close \in Nat,
         CloseWindow(w, close)
  PROVE  BooksOneWindow
  <1> DEFINE proceeds == CloseProceeds(w, close)
  <1>1. /\ available_cash' = available_cash + proceeds
        /\ cash_returned' = [cash_returned EXCEPT ![w] = @ + proceeds]
        /\ shares' = [shares EXCEPT ![w] = LeftAfterClose(w, close)]
        /\ spent' = spent
    BY DEF CloseWindow
  <1>2. proceeds \in Nat
    BY CloseProceedsType
  <1> HIDE DEF proceeds
  <1>3. spent[w] \in Nat /\ cash_returned[w] \in Nat /\ available_cash \in Nat
    BY DEF LedgerTypeOK
  <1>4. cash_returned'[w] = cash_returned[w] + proceeds /\ OthersKept(w)
    BY <1>1 DEF LedgerTypeOK, OthersKept
  <1> QED BY <1>1, <1>2, <1>3, <1>4 DEF BooksOneWindow, OthersKept

\* On paper every step of the ledger moves the cash by exactly what one window
\* returned and spent, and leaves the books of the other windows alone.
THEOREM DoubleEntryHolds == LedgerSpec => DoubleEntry
  <1>1. ASSUME LedgerTypeOK, LedgerNext, ~Live
        PROVE  BooksOneWindow
    <2>1. \A w \in Windows, side \in Sides, amount, price \in Nat :
             ExecuteSell(w, side, amount, price) => BooksOneWindow
      <3> TAKE w \in Windows, side \in Sides, amount, price \in Nat
      <3> DEFINE held == shares[w][side]
                 sold == IF amount > held THEN held ELSE amount
      <3>1. sold \in Nat
        BY <1>1 DEF LedgerTypeOK
      <3> HIDE DEF sold
      <3>2. Sell(w, side, sold, price) => BooksOneWindow
        BY <1>1, <3>1, SellBooksOneWindow
      <3> QED BY <3>2 DEF ExecuteSell, sold
    <2>2. \A w \in Windows : UNCHANGED book => BooksOneWindow
      BY <1>1, BookUnchanged
    <2> QED BY <1>1, <2>1, <2>2, LedgerOperations, LifecycleKeepsBook,
               BuyBooksOneWindow, CloseBooksOneWindow
  <1>2. LedgerTypeOK /\ [LedgerNext]_ledger
        => [~Live => BooksOneWindow]_ledger
    BY <1>1
  <1> QED BY <1>2, LedgerTypeCorrect, PTL DEF LedgerSpec, DoubleEntry

-----------------------------------------------------------------------------
(* A window that never bought is empty                                     *)

LEMMA BuySpends ==
  ASSUME LedgerTypeOK, NEW w \in Windows, NEW side \in Sides,
         NEW usd \in Nat, NEW ask \in Nat, Buy(w, side, usd, ask)
  PROVE  /\ spent' = [spent EXCEPT ![w] = @ + usd]
         /\ usd > 0
         /\ cash_returned' = cash_returned
         /\ \A v \in Windows \ {w} : shares'[v] = shares[v]
  BY UnitAssumption DEF LedgerTypeOK, Buy, ExecuteBuy, CanBuy, RecordExternalBuy, BookBuy

LEMMA BuyKeepsUntraded ==
  ASSUME LedgerTypeOK, UntradedIsEmpty, NEW w \in Windows, NEW side \in Sides,
         NEW usd \in Nat, NEW ask \in Nat, Buy(w, side, usd, ask)
  PROVE  UntradedIsEmpty'
  <1>1. /\ spent' = [spent EXCEPT ![w] = @ + usd]
        /\ usd > 0
        /\ cash_returned' = cash_returned
        /\ \A v \in Windows \ {w} : shares'[v] = shares[v]
    BY BuySpends
  <1>2. spent'[w] # 0 /\ \A v \in Windows \ {w} : spent'[v] = spent[v]
    BY <1>1, SMT DEF LedgerTypeOK
  <1>3. NoShares' = NoShares
    BY DEF NoShares, Sides
  <1> QED BY <1>1, <1>2, <1>3, Zenon DEF UntradedIsEmpty

LEMMA SellKeepsUntraded ==
  ASSUME LedgerTypeOK, UntradedIsEmpty, NEW w \in Windows, NEW side \in Sides,
         NEW amount \in Nat, NEW price \in Nat,
         ExecuteSell(w, side, amount, price)
  PROVE  UntradedIsEmpty'
  <1> DEFINE held == shares[w][side]
             sold == IF amount > held THEN held ELSE amount
  <1>1. held \in Nat /\ sold > 0 /\ Sell(w, side, sold, price)
    BY DEF LedgerTypeOK, ExecuteSell, Sell
  <1>2. spent[w] # 0
    <2>1. held # 0
      BY <1>1
    <2> QED BY <2>1 DEF UntradedIsEmpty, NoShares
  <1>3. /\ spent' = spent
        /\ \A v \in Windows \ {w} : /\ shares'[v] = shares[v]
                                    /\ cash_returned'[v] = cash_returned[v]
    BY <1>1 DEF LedgerTypeOK, Sell
  <1> QED BY <1>2, <1>3 DEF UntradedIsEmpty

LEMMA CloseKeepsUntraded ==
  ASSUME LedgerTypeOK, UntradedIsEmpty, NEW w \in Windows, NEW close \in Nat,
         CloseWindow(w, close)
  PROVE  UntradedIsEmpty'
  <1>1. /\ spent' = spent
        /\ \A v \in Windows \ {w} : /\ shares'[v] = shares[v]
                                    /\ cash_returned'[v] = cash_returned[v]
    BY DEF LedgerTypeOK, CloseWindow
  <1>2. ASSUME spent[w] = 0
        PROVE  cash_returned'[w] = 0 /\ shares'[w] = NoShares
    <2>1. cash_returned[w] = 0 /\ \A side \in Sides : shares[w][side] = 0
      BY <1>2 DEF UntradedIsEmpty, NoShares
    <2>2. CloseProceeds(w, close) = 0
      <3>1. bid[w]["UP"] \in Nat /\ bid[w]["DOWN"] \in Nat
        BY DEF LedgerTypeOK, Sides
      <3>2. /\ shares[w]["UP"] = 0 /\ shares[w]["DOWN"] = 0
            /\ shares[w][Winner(w, close)] = 0
        BY <2>1 DEF Sides, Winner
      <3> QED BY <3>1, <3>2, UnitAssumption DEF CloseProceeds
    <2>3. LeftAfterClose(w, close) = NoShares
      BY <2>1 DEF LeftAfterClose, NoShares
    <2> QED BY <2>1, <2>2, <2>3 DEF LedgerTypeOK, CloseWindow
  <1> QED BY <1>1, <1>2 DEF UntradedIsEmpty

\* A window that never bought has no shares and returned nothing, whatever was
\* tried in it: an order to sell shares it does not have books nothing.
THEOREM UntradedStaysEmpty == LedgerSpec => []UntradedIsEmpty
  <1>1. LedgerInit => UntradedIsEmpty
    BY DEF LedgerInit, UntradedIsEmpty
  <1>2. ASSUME LedgerTypeOK, UntradedIsEmpty, LedgerNext
        PROVE  UntradedIsEmpty'
    <2>1. UNCHANGED book => UntradedIsEmpty'
      BY <1>2 DEF book, UntradedIsEmpty
    <2> QED BY <1>2, <2>1, LedgerOperations, LifecycleKeepsBook,
               BuyKeepsUntraded, SellKeepsUntraded, CloseKeepsUntraded
  <1>3. UNCHANGED ledger /\ UntradedIsEmpty => UntradedIsEmpty'
    BY DEF ledger, UntradedIsEmpty
  <1> QED BY <1>1, <1>2, <1>3, LedgerTypeCorrect, PTL DEF LedgerSpec

-----------------------------------------------------------------------------
(* Statuses                                                                *)

\* The moves of a window's status.
StatusMove(w, st) ==
  \/ status[w] = "NONE"
  \/ /\ status[w] \in {"WAITING_ENTRY", "ENTERED_PRE_START"}
     /\ st \in {"LIVE", "SKIPPED"}
  \/ status[w] \in {"LIVE", "SKIPPED"} /\ st = "PENDING_SETTLEMENT"
  \/ status[w] = "PENDING_SETTLEMENT" /\ st = "CLOSED_TIME"
  \/ st = StatusAfterBuy(w)

\* A step moves the status of at most one window.
LEMMA StatusSteps ==
  ASSUME LedgerTypeOK, LedgerNext
  PROVE  \/ status' = status
         \/ \E w \in Windows, st \in Statuses :
              status' = [status EXCEPT ![w] = st] /\ StatusMove(w, st)
  <1>1. \A w \in Windows, side \in Sides, amount, price \in Nat :
           Buy(w, side, amount, price)
           => status' = [status EXCEPT ![w] = StatusAfterBuy(w)]
    BY DEF Buy, ExecuteBuy, RecordExternalBuy, BookBuy
  <1>2. \A w \in Windows, side \in Sides, amount, price \in Nat :
           ExecuteSell(w, side, amount, price) => status' = status
    BY DEF ExecuteSell, Sell
  <1>3. \A w \in Windows, ptb \in Nat :
           /\ Opens(w, ptb)
              => \E st \in {"WAITING_ENTRY", "SKIPPED", "LIVE"} :
                   status' = [status EXCEPT ![w] = st]
           /\ StorePtb(w, ptb) => status' = status
           /\ CloseWindow(w, ptb) => status' = [status EXCEPT ![w] = "CLOSED_TIME"]
    BY DEF Opens, CreateWindow, Watch, WarmUp, LiveSinceStartup, StorePtb, CloseWindow
  <1>4. \A w \in Windows, entered \in BOOLEAN, quotes \in [Sides -> Nat] :
           /\ PromoteWindow(w, entered)
              => \E st \in {"LIVE", "SKIPPED"} : status' = [status EXCEPT ![w] = st]
           /\ MarkPending(w) => status' = [status EXCEPT ![w] = "PENDING_SETTLEMENT"]
           /\ StorePrices(w, quotes) => status' = status
    BY DEF PromoteWindow, MarkPending, StorePrices
  <1>5. \A w \in Windows : StatusAfterBuy(w) \in Statuses
    BY StatusAfterBuyType
  <1>6. {"LIVE", "SKIPPED", "WAITING_ENTRY", "PENDING_SETTLEMENT", "CLOSED_TIME"}
        \subseteq Statuses
    BY DEF Statuses
  <1>7. PICK w \in Windows :
           \/ \E ptb \in Nat : status[w] = "NONE" /\ Opens(w, ptb)
           \/ \E entered \in BOOLEAN :
                /\ status[w] \in {"WAITING_ENTRY", "ENTERED_PRE_START"}
                /\ PromoteWindow(w, entered)
           \/ status[w] \in {"LIVE", "SKIPPED"} /\ MarkPending(w)
           \/ \E close \in Nat : /\ status[w] = "PENDING_SETTLEMENT"
                                 /\ CloseWindow(w, close)
           \/ \E ptb \in Nat : StorePtb(w, ptb)
           \/ \E quotes \in [Sides -> Nat] : StorePrices(w, quotes)
           \/ \E side \in Sides, amount \in Nat, price \in Nat :
                Buy(w, side, amount, price) \/ ExecuteSell(w, side, amount, price)
    BY LedgerOperations
  <1> DEFINE Goal == \/ status' = status
                     \/ \E st \in Statuses : /\ status' = [status EXCEPT ![w] = st]
                                             /\ StatusMove(w, st)
  <1>8. ASSUME NEW ptb \in Nat, status[w] = "NONE", Opens(w, ptb)
        PROVE  Goal
    BY <1>3, <1>6, <1>8 DEF StatusMove
  <1>9. ASSUME NEW entered \in BOOLEAN, PromoteWindow(w, entered),
               status[w] \in {"WAITING_ENTRY", "ENTERED_PRE_START"}
        PROVE  Goal
    BY <1>4, <1>6, <1>9 DEF StatusMove, PromoteWindow
  <1>10. ASSUME status[w] \in {"LIVE", "SKIPPED"}, MarkPending(w)
         PROVE  Goal
    BY <1>6, <1>10 DEF StatusMove, MarkPending
  <1>11. ASSUME NEW close \in Nat, status[w] = "PENDING_SETTLEMENT",
                CloseWindow(w, close)
         PROVE  Goal
    BY <1>3, <1>6, <1>11 DEF StatusMove
  <1>12. ASSUME NEW ptb \in Nat, StorePtb(w, ptb)
         PROVE  Goal
    BY <1>3, <1>12
  <1>13. ASSUME NEW quotes \in [Sides -> Nat], StorePrices(w, quotes)
         PROVE  Goal
    BY <1>13 DEF StorePrices
  <1>14. ASSUME NEW side \in Sides, NEW amount \in Nat, NEW price \in Nat,
                Buy(w, side, amount, price) \/ ExecuteSell(w, side, amount, price)
         PROVE  Goal
    BY <1>1, <1>2, <1>5, <1>14 DEF StatusMove
  <1> HIDE DEF Goal
  <1>15. Goal
    BY <1>7, <1>8, <1>9, <1>10, <1>11, <1>12, <1>13, <1>14
  <1> QED BY <1>15 DEF Goal

LEMMA StageValues ==
  /\ Stage("NONE") = 0
  /\ Stage("WAITING_ENTRY") = 1
  /\ Stage("ENTERED_PRE_START") = 2
  /\ Stage("SKIPPED") = 3
  /\ Stage("LIVE") = 4
  /\ Stage("PENDING_SETTLEMENT") = 5
  /\ Stage("CLOSED_TIME") = 6
  BY DEF Stage

\* No late order, tick, capture or close takes a window back to an earlier
\* status; in particular a closed window stays closed.
THEOREM StatusNeverGoesBack == LedgerSpec => StatusMovesOn
  <1>1. ASSUME LedgerTypeOK, LedgerNext
        PROVE  \A w \in Windows : Stage(status'[w]) >= Stage(status[w])
    <2>1. \A st \in Statuses : Stage(st) \in 0 .. 6
      BY StageValues DEF Statuses
    <2>2. \A w \in Windows : status[w] \in Statuses /\ Stage(status[w]) \in 0 .. 6
      BY <1>1, <2>1 DEF LedgerTypeOK
    <2>3. CASE status' = status
      BY <2>2, <2>3
    <2>4. ASSUME NEW w \in Windows, NEW st \in Statuses,
                 status' = [status EXCEPT ![w] = st],
                 StatusMove(w, st)
          PROVE  \A v \in Windows : Stage(status'[v]) >= Stage(status[v])
      <3>1. Stage(st) >= Stage(status[w])
        <4>1. CASE status[w] = "NONE"
          BY <2>1, <2>4, <4>1, StageValues
        <4>2. CASE /\ status[w] \in {"WAITING_ENTRY", "ENTERED_PRE_START"}
                   /\ st \in {"LIVE", "SKIPPED"}
          BY <4>2, StageValues
        <4>3. CASE status[w] \in {"LIVE", "SKIPPED"} /\ st = "PENDING_SETTLEMENT"
          BY <4>3, StageValues
        <4>4. CASE status[w] = "PENDING_SETTLEMENT" /\ st = "CLOSED_TIME"
          BY <4>4, StageValues
        <4>5. CASE st = StatusAfterBuy(w)
          BY <2>2, <4>5, StageValues DEF StatusAfterBuy, Marked
        <4> QED BY <2>4, <4>1, <4>2, <4>3, <4>4, <4>5 DEF StatusMove
      <3>2. \A v \in Windows : status'[v] = IF v = w THEN st ELSE status[v]
        BY <1>1, <2>4 DEF LedgerTypeOK
      <3> QED BY <2>2, <3>1, <3>2
    <2> QED BY <1>1, <2>3, <2>4, StatusSteps
  <1>2. LedgerTypeOK /\ [LedgerNext]_ledger
        => [\A w \in Windows : Stage(status'[w]) >= Stage(status[w])]_ledger
    BY <1>1
  <1> QED BY <1>2, LedgerTypeCorrect, PTL DEF LedgerSpec, StatusMovesOn

-----------------------------------------------------------------------------
(* The counters of entered and skipped windows                             *)

\* The windows the counters hear of, and those of them still SKIPPED.
Tallied == Promoted \ Uncounted
Skipped == {w \in Windows : status[w] = "SKIPPED"}

StartIsLive ==
  \A w \in Windows \cap Uncounted :
    status[w] \in {"NONE", "LIVE", "PENDING_SETTLEMENT", "CLOSED_TIME"}

\* What makes CountersMatch inductive: the windows still SKIPPED are counted
\* as skipped, so the decrement of a converting buy has something to take, and a
\* window that is LIVE since startup never stands where a move would be counted.
CountersInv ==
  /\ IsFiniteSet(Tallied)
  /\ CountersMatch
  /\ Cardinality(Skipped) <= skipped_windows
  /\ StartIsLive

PromotedStatuses == {"LIVE", "SKIPPED", "PENDING_SETTLEMENT", "CLOSED_TIME"}

LEMMA PromotedStep ==
  ASSUME LedgerTypeOK, NEW w \in Windows, NEW st,
         status' = [status EXCEPT ![w] = st]
  PROVE  /\ w \notin Uncounted =>
              Tallied' = IF st \in PromotedStatuses
                         THEN Tallied \cup {w} ELSE Tallied \ {w}
         /\ w \in Uncounted => Tallied' = Tallied
         /\ Skipped' = IF st = "SKIPPED" THEN Skipped \cup {w} ELSE Skipped \ {w}
  <1>1. \A v \in Windows : status'[v] = IF v = w THEN st ELSE status[v]
    BY DEF LedgerTypeOK
  <1>2. Uncounted' = Uncounted
    BY DEF Uncounted
  <1> QED BY <1>1, <1>2 DEF Tallied, Promoted, Skipped, PromotedStatuses

\* The cardinalities before and after the status of one counted window moves.
LEMMA PromotedCard ==
  ASSUME LedgerTypeOK, CountersInv, NEW w \in Windows, NEW st, w \notin Uncounted,
         status' = [status EXCEPT ![w] = st]
  PROVE  /\ IsFiniteSet(Tallied') /\ IsFiniteSet(Skipped')
         /\ Cardinality(Tallied) \in Nat /\ Cardinality(Skipped) \in Nat
         /\ Cardinality(Tallied') =
              IF st \in PromotedStatuses
              THEN IF status[w] \in PromotedStatuses
                   THEN Cardinality(Tallied) ELSE Cardinality(Tallied) + 1
              ELSE IF status[w] \in PromotedStatuses
                   THEN Cardinality(Tallied) - 1 ELSE Cardinality(Tallied)
         /\ Cardinality(Skipped') =
              IF st = "SKIPPED"
              THEN IF status[w] = "SKIPPED"
                   THEN Cardinality(Skipped) ELSE Cardinality(Skipped) + 1
              ELSE IF status[w] = "SKIPPED"
                   THEN Cardinality(Skipped) - 1 ELSE Cardinality(Skipped)
         /\ StartIsLive'
  <1>1. IsFiniteSet(Tallied) /\ IsFiniteSet(Skipped)
    <2>1. IsFiniteSet(Tallied) /\ Skipped \in SUBSET Tallied
      BY DEF CountersInv, Skipped, StartIsLive, Tallied, Promoted
    <2> QED BY <2>1, FS_Subset
  <1>2. /\ w \in Tallied <=> status[w] \in PromotedStatuses
        /\ w \in Skipped <=> status[w] = "SKIPPED"
    BY DEF Tallied, Promoted, Skipped, PromotedStatuses
  <1>3. /\ IsFiniteSet(Tallied \cup {w}) /\ IsFiniteSet(Tallied \ {w})
        /\ Cardinality(Tallied \cup {w}) =
             IF w \in Tallied THEN Cardinality(Tallied) ELSE Cardinality(Tallied) + 1
        /\ Cardinality(Tallied \ {w}) =
             IF w \in Tallied THEN Cardinality(Tallied) - 1 ELSE Cardinality(Tallied)
    BY <1>1, FS_AddElement, FS_RemoveElement
  <1>4. /\ IsFiniteSet(Skipped \cup {w}) /\ IsFiniteSet(Skipped \ {w})
        /\ Cardinality(Skipped \cup {w}) =
             IF w \in Skipped THEN Cardinality(Skipped) ELSE Cardinality(Skipped) + 1
        /\ Cardinality(Skipped \ {w}) =
             IF w \in Skipped THEN Cardinality(Skipped) - 1 ELSE Cardinality(Skipped)
    BY <1>1, FS_AddElement, FS_RemoveElement
  <1>5. Cardinality(Tallied) \in Nat /\ Cardinality(Skipped) \in Nat
    BY <1>1, FS_CardinalityType
  <1>6. StartIsLive'
    BY DEF CountersInv, StartIsLive, LedgerTypeOK, Uncounted
  <1> QED BY <1>1, <1>2, <1>3, <1>4, <1>5, <1>6, PromotedStep

LEMMA CountersAre ==
  /\ CountersInv <=> /\ IsFiniteSet(Tallied)
                     /\ entered_windows + skipped_windows = Cardinality(Tallied)
                     /\ Cardinality(Skipped) <= skipped_windows
                     /\ StartIsLive
  /\ CountersInv' <=> /\ IsFiniteSet(Tallied')
                      /\ entered_windows' + skipped_windows' = Cardinality(Tallied')
                      /\ Cardinality(Skipped') <= skipped_windows'
                      /\ StartIsLive'
  BY DEF CountersInv, CountersMatch, Tallied

\* A window LIVE since startup, which no counter hears of, is queued and closed.
LEMMA UncountedMove ==
  ASSUME LedgerTypeOK, CountersInv, NEW w \in Windows, NEW st, w \in Uncounted,
         st \in {"LIVE", "PENDING_SETTLEMENT", "CLOSED_TIME"},
         status' = [status EXCEPT ![w] = st],
         UNCHANGED <<entered_windows, skipped_windows>>
  PROVE  CountersInv'
  <1>1. status[w] # "SKIPPED"
    BY DEF CountersInv, StartIsLive
  <1>2. Skipped' = Skipped
    BY <1>1, PromotedStep DEF Skipped
  <1>3. StartIsLive'
    BY DEF CountersInv, StartIsLive, LedgerTypeOK, Uncounted
  <1>4. Tallied' = Tallied
    BY PromotedStep
  <1> QED BY <1>2, <1>3, <1>4, CountersAre

LEMMA BookBuyCounters ==
  ASSUME LedgerTypeOK, CountersInv, NEW w \in Windows,
         NEW side \in Sides, NEW usd, NEW n, BookBuy(w, side, usd, n)
  PROVE  CountersInv'
  <1> DEFINE st == StatusAfterBuy(w)
  <1>1. status' = [status EXCEPT ![w] = st]
    BY DEF BookBuy
  <1>2. entered_windows \in Nat /\ skipped_windows \in Nat
    BY DEF LedgerTypeOK
  <1>a. status[w] \in {"SKIPPED", "WAITING_ENTRY"} => w \notin Uncounted
    BY DEF CountersInv, StartIsLive
  <1>3. CASE ConvertsSkippedToLive(w)
    <2>1. status[w] = "SKIPPED" /\ st = "LIVE"
      BY <1>3 DEF ConvertsSkippedToLive, StatusAfterBuy, Marked
    <2>2. /\ StartIsLive' /\ IsFiniteSet(Tallied') /\ Cardinality(Skipped) \in Nat
          /\ Cardinality(Tallied') = Cardinality(Tallied)
          /\ Cardinality(Skipped') = Cardinality(Skipped) - 1
      BY <1>1, <1>a, <2>1, PromotedCard DEF PromotedStatuses
    <2>3. skipped_windows # 0
      <3>1. IsFiniteSet(Skipped) /\ w \in Skipped
        <4>1. Skipped \in SUBSET Tallied
          BY DEF CountersInv, StartIsLive, Skipped, Tallied, Promoted
        <4> QED BY <2>1, <4>1, FS_Subset DEF CountersInv, Skipped
      <3>2. Cardinality(Skipped) # 0
        BY <3>1, FS_EmptySet
      <3> QED BY <2>2, <3>2, <1>2 DEF CountersInv
    <2>4. /\ skipped_windows' = skipped_windows - 1
          /\ entered_windows' = entered_windows + 1
      BY <1>3, <2>3 DEF BookBuy
    <2> QED BY <1>2, <2>2, <2>4, CountersAre
  <1>4. CASE ~ConvertsSkippedToLive(w)
    <2>1. skipped_windows' = skipped_windows /\ entered_windows' = entered_windows
      BY <1>4 DEF BookBuy
    <2>2. CASE status[w] = "SKIPPED"
      <3>1. st = "LIVE"
        BY <2>2 DEF StatusAfterBuy, Marked
      <3>2. /\ StartIsLive' /\ IsFiniteSet(Tallied') /\ Cardinality(Skipped) \in Nat
            /\ Cardinality(Tallied') = Cardinality(Tallied)
            /\ Cardinality(Skipped') = Cardinality(Skipped) - 1
        BY <1>1, <1>a, <2>2, <3>1, PromotedCard DEF PromotedStatuses
      <3> QED BY <1>2, <2>1, <3>2, CountersAre
    <2>3. CASE status[w] = "WAITING_ENTRY"
      <3>1. st = "ENTERED_PRE_START"
        BY <2>3 DEF StatusAfterBuy, Marked
      <3>2. /\ StartIsLive' /\ IsFiniteSet(Tallied')
            /\ Cardinality(Tallied') = Cardinality(Tallied)
            /\ Cardinality(Skipped') = Cardinality(Skipped)
        BY <1>1, <1>a, <2>3, <3>1, PromotedCard DEF PromotedStatuses
      <3> QED BY <2>1, <3>2, CountersAre
    <2>4. CASE status[w] \notin {"SKIPPED", "WAITING_ENTRY"}
      <3>1. st = status[w]
        BY <2>4 DEF StatusAfterBuy
      <3>2. status' = status
        BY <1>1, <3>1 DEF LedgerTypeOK
      <3> QED BY <2>1, <3>2 DEF CountersInv, CountersMatch, StartIsLive, Tallied,
                                Promoted, Skipped, Uncounted
    <2> QED BY <2>2, <2>3, <2>4
  <1> QED BY <1>3, <1>4

\* A window is counted as skipped, or as entered, when it is promoted, and a
\* move that does not promote it counts nothing.
Counted(w, st) ==
  \/ /\ status[w] \notin PromotedStatuses /\ st = "SKIPPED"
     /\ skipped_windows' = skipped_windows + 1
     /\ entered_windows' = entered_windows
  \/ /\ status[w] \notin PromotedStatuses /\ st = "LIVE"
     /\ entered_windows' = entered_windows + 1
     /\ skipped_windows' = skipped_windows
  \/ /\ st # "SKIPPED"
     /\ st \in PromotedStatuses <=> status[w] \in PromotedStatuses
     /\ UNCHANGED <<entered_windows, skipped_windows>>

LEMMA MoveCounters ==
  ASSUME LedgerTypeOK, CountersInv, NEW w \in Windows, NEW st,
         w \notin Uncounted, status' = [status EXCEPT ![w] = st], Counted(w, st)
  PROVE  CountersInv'
  <1>1. entered_windows \in Nat /\ skipped_windows \in Nat
    BY DEF LedgerTypeOK
  <1>2. "SKIPPED" \in PromotedStatuses /\ "LIVE" \in PromotedStatuses
    BY DEF PromotedStatuses
  <1>3. Cardinality(Tallied) \in Nat /\ Cardinality(Skipped) \in Nat
    BY PromotedCard
  <1>4. CASE /\ status[w] \notin PromotedStatuses /\ st = "SKIPPED"
             /\ skipped_windows' = skipped_windows + 1
             /\ entered_windows' = entered_windows
    <2>1. /\ StartIsLive' /\ IsFiniteSet(Tallied')
          /\ Cardinality(Tallied') = Cardinality(Tallied) + 1
          /\ Cardinality(Skipped') = Cardinality(Skipped) + 1
      BY <1>2, <1>4, PromotedCard
    <2> QED BY <1>1, <1>3, <1>4, <2>1, CountersAre
  <1>5. CASE /\ status[w] \notin PromotedStatuses /\ st = "LIVE"
             /\ entered_windows' = entered_windows + 1
             /\ skipped_windows' = skipped_windows
    <2>1. /\ StartIsLive' /\ IsFiniteSet(Tallied')
          /\ Cardinality(Tallied') = Cardinality(Tallied) + 1
          /\ Cardinality(Skipped') = Cardinality(Skipped)
      BY <1>2, <1>5, PromotedCard
    <2> QED BY <1>1, <1>3, <1>5, <2>1, CountersAre
  <1>6. CASE /\ st # "SKIPPED"
             /\ st \in PromotedStatuses <=> status[w] \in PromotedStatuses
             /\ UNCHANGED <<entered_windows, skipped_windows>>
    <2>1. /\ StartIsLive' /\ IsFiniteSet(Tallied')
          /\ Cardinality(Tallied') = Cardinality(Tallied)
      BY <1>6, PromotedCard
    <2>2. \/ Cardinality(Skipped') = Cardinality(Skipped) - 1
          \/ Cardinality(Skipped') = Cardinality(Skipped)
      BY <1>6, PromotedCard
    <2> QED BY <1>1, <1>3, <1>6, <2>1, <2>2, CountersAre
  <1> QED BY <1>4, <1>5, <1>6 DEF Counted

LEMMA CountersStep ==
  ASSUME LedgerTypeOK, CountersInv, LedgerNext
  PROVE  CountersInv'
  <1>1. UNCHANGED <<status, entered_windows, skipped_windows>> => CountersInv'
    BY DEF CountersInv, CountersMatch, StartIsLive, Tallied, Promoted, Skipped, Uncounted
  <1>2. ASSUME NEW w \in Windows, NEW ptb \in Nat, status[w] = "NONE", Opens(w, ptb)
        PROVE  CountersInv'
    <2>1. CASE w # StartWindow /\ CreateWindow(w, ptb)
      <3>1. /\ status' = [status EXCEPT ![w] = "WAITING_ENTRY"]
            /\ UNCHANGED <<entered_windows, skipped_windows>>
        BY <2>1 DEF CreateWindow, tally
      <3>2. w \notin Uncounted
        BY <2>1 DEF Uncounted
      <3> QED BY <1>2, <3>1, <3>2, MoveCounters DEF Counted, PromotedStatuses
    <2>2. CASE w = StartWindow /\ WarmsUp /\ WarmUp(w, ptb)
      <3>1. /\ status' = [status EXCEPT ![w] = "SKIPPED"]
            /\ skipped_windows' = skipped_windows + 1
            /\ entered_windows' = entered_windows
        BY <2>2 DEF WarmUp
      <3>2. w \notin Uncounted
        BY <2>2 DEF Uncounted
      <3> QED BY <1>2, <3>1, <3>2, MoveCounters DEF Counted, PromotedStatuses
    <2>3. CASE w = StartWindow /\ ~WarmsUp /\ LiveSinceStartup(w, ptb)
      <3>1. /\ status' = [status EXCEPT ![w] = "LIVE"]
            /\ UNCHANGED <<entered_windows, skipped_windows>>
        BY <2>3 DEF LiveSinceStartup, tally
      <3>2. w \in Uncounted
        BY <2>3 DEF Uncounted
      <3> QED BY <3>1, <3>2, UncountedMove
    <2> QED BY <1>2, <2>1, <2>2, <2>3 DEF Opens, Watch
  <1>3. ASSUME NEW w \in Windows, NEW entered \in BOOLEAN,
               status[w] \in {"WAITING_ENTRY", "ENTERED_PRE_START"},
               PromoteWindow(w, entered)
        PROVE  CountersInv'
    <2>1. status[w] \notin PromotedStatuses /\ w \notin Uncounted
      BY <1>3 DEF PromotedStatuses, CountersInv, StartIsLive
    <2>2. CASE entered
      BY <1>3, <2>1, <2>2, MoveCounters DEF PromoteWindow, Counted, PromotedStatuses
    <2>3. CASE ~entered
      BY <1>3, <2>1, <2>3, MoveCounters DEF PromoteWindow, Counted, PromotedStatuses
    <2> QED BY <2>2, <2>3
  <1>4. ASSUME NEW w \in Windows, status[w] \in {"LIVE", "SKIPPED"}, MarkPending(w)
        PROVE  CountersInv'
    <2>1. /\ status' = [status EXCEPT ![w] = "PENDING_SETTLEMENT"]
          /\ UNCHANGED <<entered_windows, skipped_windows>>
      BY <1>4 DEF MarkPending, tally
    <2>2. Counted(w, "PENDING_SETTLEMENT")
      BY <1>4, <2>1 DEF Counted, PromotedStatuses
    <2> QED BY <2>1, <2>2, MoveCounters, UncountedMove
  <1>5. ASSUME NEW w \in Windows, NEW close \in Nat,
               status[w] = "PENDING_SETTLEMENT", CloseWindow(w, close)
        PROVE  CountersInv'
    <2>1. /\ status' = [status EXCEPT ![w] = "CLOSED_TIME"]
          /\ UNCHANGED <<entered_windows, skipped_windows>>
      BY <1>5 DEF CloseWindow
    <2>2. Counted(w, "CLOSED_TIME")
      BY <1>5, <2>1 DEF Counted, PromotedStatuses
    <2> QED BY <2>1, <2>2, MoveCounters, UncountedMove
  <1>6. ASSUME NEW w \in Windows, NEW side \in Sides, NEW amount \in Nat,
               NEW price \in Nat, Buy(w, side, amount, price)
        PROVE  CountersInv'
    BY <1>6, BookBuyCounters DEF Buy, ExecuteBuy, RecordExternalBuy
  <1>7. \A w \in Windows, side \in Sides, amount, price \in Nat :
           ExecuteSell(w, side, amount, price) => CountersInv'
    BY <1>1 DEF ExecuteSell, Sell, tally
  <1>8. \A w \in Windows, ptb \in Nat : StorePtb(w, ptb) => CountersInv'
    BY <1>1 DEF StorePtb, tally
  <1>9. \A w \in Windows, quotes \in [Sides -> Nat] :
           StorePrices(w, quotes) => CountersInv'
    BY <1>1 DEF StorePrices, tally
  <1> QED BY <1>2, <1>3, <1>4, <1>5, <1>6, <1>7, <1>8, <1>9, LedgerOperations

\* A new ledger has promoted no window and counts none.
LEMMA CountersStart == LedgerInit => CountersInv
  <1>1. ASSUME LedgerInit
        PROVE  Tallied = {} /\ Skipped = {} /\ StartIsLive
    BY <1>1 DEF LedgerInit, Tallied, Promoted, Skipped, StartIsLive
  <1>2. /\ IsFiniteSet({}) /\ Cardinality({}) = 0
    BY FS_EmptySet
  <1>3. LedgerInit => entered_windows = 0 /\ skipped_windows = 0
    BY DEF LedgerInit
  <1> QED BY <1>1, <1>2, <1>3, CountersAre

\* Nothing else of the program moves the counters.
LEMMA CountersStutter ==
  ASSUME CountersInv, UNCHANGED ledger
  PROVE  CountersInv'
  BY DEF CountersInv, CountersMatch, StartIsLive, Tallied, Promoted, Skipped, Uncounted,
         ledger

\* Every promoted window is counted exactly once, as entered or as skipped,
\* however orders, promotions and closes of the windows interleave, and only the
\* window a session of the trading strategies starts in is counted nowhere.
THEOREM CountersAlwaysMatch == LedgerSpec => []CountersMatch
  <1>1. CountersInv => CountersMatch
    BY DEF CountersInv
  <1> QED BY <1>1, CountersStart, CountersStutter, CountersStep, LedgerTypeCorrect, PTL
          DEF LedgerSpec

-----------------------------------------------------------------------------
(* The tally of wins and losses                                            *)

\* The closed windows that were traded, before their close or after it.
Traded == {w \in Windows : status[w] = "CLOSED_TIME" /\ spent[w] > 0}

\* What makes TallyMatchesClosed inductive: the bound it speaks of exists.
TallyInv == IsFiniteSet(Traded) /\ TallyMatchesClosed

\* A closed window that was traded stays one, and a step adds one at most.
LEMMA TradedGrows ==
  ASSUME LedgerTypeOK, TallyInv, NEW w \in Windows,
         Traded' = Traded \/ Traded' = Traded \cup {w}
  PROVE  /\ IsFiniteSet(Traded') /\ Cardinality(Traded) \in Nat
         /\ Cardinality(Traded') \in Nat
         /\ Cardinality(Traded') >= Cardinality(Traded)
         /\ Traded' # Traded => Cardinality(Traded') = Cardinality(Traded) + 1
  <1>1. IsFiniteSet(Traded)
    BY DEF TallyInv
  <1>2. Cardinality(Traded) \in Nat
    BY <1>1, FS_CardinalityType
  <1>3. /\ IsFiniteSet(Traded \cup {w})
        /\ Cardinality(Traded \cup {w}) =
             IF w \in Traded THEN Cardinality(Traded) ELSE Cardinality(Traded) + 1
    BY <1>1, FS_AddElement
  <1>4. CASE Traded' = Traded
    BY <1>1, <1>2, <1>4
  <1>5. CASE Traded' = Traded \cup {w} /\ w \notin Traded
    BY <1>2, <1>3, <1>5
  <1>6. CASE Traded' = Traded \cup {w} /\ w \in Traded
    BY <1>4, <1>6
  <1> QED BY <1>4, <1>5, <1>6

\* As long as no window closes, the tally stands.
LEMMA TallyKept ==
  ASSUME LedgerTypeOK, TallyInv, NEW w \in Windows,
         Traded' = Traded \/ Traded' = Traded \cup {w},
         UNCHANGED <<closed_windows, wins, losses>>
  PROVE  TallyInv'
  <1>1. closed_windows \in Nat
    BY DEF LedgerTypeOK
  <1>2. closed_windows = wins + losses /\ closed_windows <= Cardinality(Traded)
    BY DEF TallyInv, TallyMatchesClosed, Traded
  <1>3. IsFiniteSet(Traded') /\ closed_windows' <= Cardinality(Traded')
    BY <1>1, <1>2, TradedGrows
  <1>4. closed_windows' = wins' + losses'
    BY <1>2
  <1> QED BY <1>3, <1>4 DEF TallyInv, TallyMatchesClosed, Traded

\* The status of one window moves to another one that is not the closed one.
LEMMA TallyMove ==
  ASSUME LedgerTypeOK, TallyInv, NEW w \in Windows, NEW st,
         status[w] # "CLOSED_TIME", st # "CLOSED_TIME",
         status' = [status EXCEPT ![w] = st],
         UNCHANGED <<spent, closed_windows, wins, losses>>
  PROVE  TallyInv'
  <1>1. \A v \in Windows : status'[v] = IF v = w THEN st ELSE status[v]
    BY DEF LedgerTypeOK
  <1>2. Traded' = Traded
    BY <1>1 DEF Traded
  <1> QED BY <1>2, TallyKept

\* A buy moves no window to or from the closed status; of a window that closed
\* untraded it makes one that was traded, which the tally does not count.
LEMMA TallyBuy ==
  ASSUME LedgerTypeOK, TallyInv, NEW w \in Windows, NEW side \in Sides,
         NEW usd \in Nat, NEW ask \in Nat, Buy(w, side, usd, ask)
  PROVE  TallyInv'
  <1>1. /\ spent' = [spent EXCEPT ![w] = @ + usd] /\ usd > 0
    BY BuySpends
  <1>2. /\ status' = [status EXCEPT ![w] = StatusAfterBuy(w)]
        /\ UNCHANGED <<closed_windows, wins, losses>>
    BY DEF Buy, ExecuteBuy, RecordExternalBuy, BookBuy
  <1>3. StatusAfterBuy(w) = "CLOSED_TIME" <=> status[w] = "CLOSED_TIME"
    BY DEF StatusAfterBuy, Marked
  <1>4. \A v \in Windows : /\ status'[v] = "CLOSED_TIME" <=> status[v] = "CLOSED_TIME"
                           /\ spent'[v] = IF v = w THEN spent[v] + usd ELSE spent[v]
    BY <1>1, <1>2, <1>3 DEF LedgerTypeOK
  <1>5. spent[w] \in Nat /\ spent[w] + usd > 0
    BY <1>1 DEF LedgerTypeOK
  <1>6. CASE status[w] = "CLOSED_TIME"
    <2>1. Traded' = Traded \cup {w}
      BY <1>4, <1>5, <1>6 DEF Traded
    <2> QED BY <1>2, <2>1, TallyKept
  <1>7. CASE status[w] # "CLOSED_TIME"
    <2>1. Traded' = Traded
      BY <1>4, <1>7 DEF Traded
    <2> QED BY <1>2, <2>1, TallyKept
  <1> QED BY <1>6, <1>7

\* close_window counts the window it closes as a win or as a loss if it was traded.
LEMMA TallyClose ==
  ASSUME LedgerTypeOK, TallyInv, NEW w \in Windows, NEW close \in Nat,
         status[w] = "PENDING_SETTLEMENT", CloseWindow(w, close)
  PROVE  TallyInv'
  <1>1. /\ status' = [status EXCEPT ![w] = "CLOSED_TIME"]
        /\ spent' = spent
        /\ IF Counts(w)
           THEN /\ closed_windows' = closed_windows + 1
                /\ \/ wins' = wins + 1 /\ losses' = losses
                   \/ wins' = wins /\ losses' = losses + 1
           ELSE UNCHANGED <<closed_windows, wins, losses>>
    BY DEF CloseWindow
  <1>2. \A v \in Windows : status'[v] = IF v = w THEN "CLOSED_TIME" ELSE status[v]
    BY <1>1 DEF LedgerTypeOK
  <1>3. CASE Counts(w)
    <2>1. w \notin Traded /\ Traded' = Traded \cup {w}
      BY <1>1, <1>2, <1>3 DEF Traded, Counts
    <2>2. /\ IsFiniteSet(Traded') /\ Cardinality(Traded) \in Nat
          /\ Cardinality(Traded') = Cardinality(Traded) + 1
      BY <2>1, TradedGrows
    <2>3. closed_windows \in Nat /\ wins \in Nat /\ losses \in Nat
      BY DEF LedgerTypeOK
    <2>4. closed_windows = wins + losses /\ closed_windows <= Cardinality(Traded)
      BY DEF TallyInv, TallyMatchesClosed, Traded
    <2>5. closed_windows' = wins' + losses'
      BY <1>1, <1>3, <2>3, <2>4
    <2>6. closed_windows' <= Cardinality(Traded')
      BY <1>1, <1>3, <2>2, <2>3, <2>4
    <2> QED BY <2>2, <2>5, <2>6 DEF TallyInv, TallyMatchesClosed, Traded
  <1>4. CASE ~Counts(w)
    <2>1. Traded' = Traded
      BY <1>1, <1>2, <1>4 DEF Traded, Counts
    <2> QED BY <1>1, <1>4, <2>1, TallyKept
  <1> QED BY <1>3, <1>4

LEMMA TallyStep ==
  ASSUME LedgerTypeOK, TallyInv, LedgerNext
  PROVE  TallyInv'
  <1>1. ASSUME NEW w \in Windows, UNCHANGED <<status, spent, closed_windows, wins, losses>>
        PROVE  TallyInv'
    BY <1>1, TallyKept DEF Traded
  <1>2. ASSUME NEW w \in Windows, NEW ptb \in Nat, status[w] = "NONE",
               Opens(w, ptb)
        PROVE  TallyInv'
    BY <1>2, TallyMove DEF Opens, CreateWindow, Watch, WarmUp, LiveSinceStartup, tally, book
  <1>3. ASSUME NEW w \in Windows, NEW entered \in BOOLEAN,
               status[w] \in {"WAITING_ENTRY", "ENTERED_PRE_START"},
               PromoteWindow(w, entered)
        PROVE  TallyInv'
    <2>1. CASE entered
      BY <1>3, <2>1, TallyMove DEF PromoteWindow, book
    <2>2. CASE ~entered
      BY <1>3, <2>2, TallyMove DEF PromoteWindow, book
    <2> QED BY <2>1, <2>2
  <1>4. ASSUME NEW w \in Windows, status[w] \in {"LIVE", "SKIPPED"}, MarkPending(w)
        PROVE  TallyInv'
    BY <1>4, TallyMove DEF MarkPending, tally, book
  <1>5. \A w \in Windows, side \in Sides, amount, price \in Nat :
           ExecuteSell(w, side, amount, price) => TallyInv'
    BY <1>1 DEF ExecuteSell, Sell, tally
  <1>6. \A w \in Windows, ptb \in Nat : StorePtb(w, ptb) => TallyInv'
    BY <1>1 DEF StorePtb, tally, book
  <1>7. \A w \in Windows, quotes \in [Sides -> Nat] : StorePrices(w, quotes) => TallyInv'
    BY <1>1 DEF StorePrices, tally, book
  <1> QED BY <1>2, <1>3, <1>4, <1>5, <1>6, <1>7, TallyBuy, TallyClose, LedgerOperations

\* Every traded window that closes is a win or a loss, and no window is tallied
\* twice, whatever is bought in it after its close (close_window).
THEOREM TallyAlwaysMatches == LedgerSpec => []TallyMatchesClosed
  <1>1. LedgerInit => TallyInv
    <2>1. ASSUME LedgerInit
          PROVE  /\ Traded = {}
                 /\ closed_windows = 0 /\ wins = 0 /\ losses = 0
      BY <2>1 DEF LedgerInit, Traded
    <2>2. /\ IsFiniteSet({}) /\ Cardinality({}) = 0
      BY FS_EmptySet
    <2> QED BY <2>1, <2>2 DEF TallyInv, TallyMatchesClosed, Traded
  <1>2. TallyInv /\ UNCHANGED ledger => TallyInv'
    <2>1. UNCHANGED ledger => /\ Traded' = Traded /\ wins' = wins /\ losses' = losses
                              /\ closed_windows' = closed_windows
      BY DEF Traded, ledger
    <2> QED BY <2>1 DEF TallyInv, TallyMatchesClosed, Traded
  <1>3. TallyInv => TallyMatchesClosed
    BY DEF TallyInv
  <1> QED BY <1>1, <1>2, <1>3, TallyStep, LedgerTypeCorrect, PTL DEF LedgerSpec

-----------------------------------------------------------------------------
(* Sums over finite sets.  The library's induction theorems take the        *)
(* formula as a parameter; here a smallest counterexample is taken from a   *)
(* set of finite sets, whose strict subsets are well founded.               *)

\* In a set of finite sets, one has no strict subset there.
LEMMA SmallestSet ==
  ASSUME NEW T, T # {}, \A s \in T : IsFiniteSet(s)
  PROVE  \E m \in T : \A s \in T : s \subseteq m => s = m
  <1> DEFINE U == UNION T
  <1>1. T \subseteq FiniteSubsetsOf(U) /\ \A s \in T : s \in SUBSET U
    BY DEF FiniteSubsetsOf
  <1> HIDE DEF U
  <1>2. PICK m \in T : \A s \in T : <<s, m>> \notin StrictSubsetOrdering(U)
    BY <1>1, FS_StrictSubsetOrderingWellFounded, WFMin
  <1>3. \A s \in T : s \subseteq m => s = m
    BY <1>1, <1>2 DEF StrictSubsetOrdering
  <1> QED BY <1>3

-----------------------------------------------------------------------------
(* The recursion behind SumFunctionOnSet                                   *)

Some(s) == CHOOSE x \in s : TRUE

\* A function on the subsets of S that adds f up the way SumFunctionOnSet does.
Adds(it, f, S) ==
  it = [s \in SUBSET S |-> IF s = {} THEN 0 ELSE f[Some(s)] + it[s \ {Some(s)}]]

LEMMA SomeIsIn == \A s : s # {} => Some(s) \in s
  BY DEF Some

LEMMA SumIsAdded ==
  ASSUME NEW f, NEW S
  PROVE  SumFunctionOnSet(f, S) = (CHOOSE it : Adds(it, f, S))[S]
  BY DEF SumFunctionOnSet, FoldFunctionOnSet, MapThenFoldSet, Adds, Some

LEMMA AddsAt ==
  ASSUME NEW f, NEW S, NEW it, Adds(it, f, S)
  PROVE  /\ it[{}] = 0
         /\ \A s \in SUBSET S : s # {} => it[s] = f[Some(s)] + it[s \ {Some(s)}]
  BY DEF Adds

\* Such functions agree where both are defined.
LEMMA AddsAgree ==
  ASSUME NEW f, NEW S, NEW R, IsFiniteSet(S), NEW it, NEW jt, Adds(it, f, S), Adds(jt, f, R)
  PROVE  \A s \in SUBSET S : s \in SUBSET R => it[s] = jt[s]
  <1> DEFINE T == {s \in SUBSET S : s \in SUBSET R /\ it[s] # jt[s]}
  <1> SUFFICES ASSUME T # {} PROVE FALSE
    OBVIOUS
  <1>1. PICK m \in T : \A s \in T : s \subseteq m => s = m
    <2>1. \A s \in T : IsFiniteSet(s)
      BY FS_Subset
    <2> HIDE DEF T
    <2> QED BY <2>1, SmallestSet
  <1>2. m # {}
    BY AddsAt
  <1>3. Some(m) \in m /\ m \ {Some(m)} \subseteq m /\ m \ {Some(m)} # m
    BY <1>2, SomeIsIn
  <1>4. m \ {Some(m)} \notin T
    <2> HIDE DEF T
    <2> QED BY <1>1, <1>3
  <1>5. it[m \ {Some(m)}] = jt[m \ {Some(m)}]
    BY <1>4
  <1>6. it[m] = f[Some(m)] + it[m \ {Some(m)}] /\ jt[m] = f[Some(m)] + jt[m \ {Some(m)}]
    BY <1>2, AddsAt
  <1> QED BY <1>5, <1>6

\* There is one, on every finite set.
LEMMA AddsExists ==
  ASSUME NEW f, NEW S, IsFiniteSet(S)
  PROVE  \E it : Adds(it, f, S)
  <1> DEFINE T == {s \in SUBSET S : ~\E it : Adds(it, f, s)}
  <1> SUFFICES ASSUME T # {} PROVE FALSE
    OBVIOUS
  <1>0. \A s \in SUBSET S : IsFiniteSet(s)
    BY FS_Subset
  <1>1. PICK m \in T : \A s \in T : s \subseteq m => s = m
    <2>1. \A s \in T : IsFiniteSet(s)
      BY <1>0
    <2> HIDE DEF T
    <2> QED BY <2>1, SmallestSet
  <1> DEFINE On(s) == CHOOSE it : Adds(it, f, s)
             jt == [s \in SUBSET m |-> IF s = {} THEN 0
                                       ELSE f[Some(s)] + On(s \ {Some(s)})[s \ {Some(s)}]]
  <1>2. \A s : s \subseteq m /\ s # m => Adds(On(s), f, s)
    BY <1>1
  <1>3. ASSUME NEW s \in SUBSET m, s # {} PROVE jt[s \ {Some(s)}] = On(s \ {Some(s)})[s \ {Some(s)}]
    <2> DEFINE r == s \ {Some(s)}
    <2>1. r \subseteq m /\ r # m
      BY <1>3, SomeIsIn
    <2>2. Adds(On(r), f, r)
      BY <1>2, <2>1
    <2>3. CASE r = {}
      <3>1. jt[r] = 0
        BY <2>3
      <3>2. On(r)[r] = 0
        <4> HIDE DEF On, r
        <4> QED BY <2>2, <2>3, AddsAt
      <3> QED BY <3>1, <3>2
    <2>4. CASE r # {}
      <3> DEFINE q == r \ {Some(r)}
      <3>1. q \subseteq m /\ q # m /\ q \subseteq r
        BY <2>1, <2>4, SomeIsIn
      <3>2. Adds(On(q), f, q)
        BY <1>2, <3>1
      <3>3. jt[r] = f[Some(r)] + On(q)[q]
        BY <2>1, <2>4
      <3>4. On(r)[r] = f[Some(r)] + On(r)[q]
        <4> HIDE DEF On, r
        <4> QED BY <2>2, <2>4, AddsAt
      <3>5. On(r)[q] = On(q)[q]
        <4>1. IsFiniteSet(r)
          BY <1>0, <1>1, <2>1
        <4> HIDE DEF On, r, q
        <4> QED BY <2>2, <3>1, <3>2, <4>1, AddsAgree
      <3> QED BY <3>3, <3>4, <3>5
    <2> QED BY <2>3, <2>4
  <1>4. Adds(jt, f, m)
    <2> DEFINE kt == [s \in SUBSET m |-> IF s = {} THEN 0 ELSE f[Some(s)] + jt[s \ {Some(s)}]]
    <2>1. ASSUME NEW s \in SUBSET m PROVE jt[s] = kt[s]
      <3>1. CASE s = {}
        BY <3>1
      <3>2. CASE s # {}
        <4> DEFINE r == s \ {Some(s)}
        <4>1. jt[s] = f[Some(s)] + On(r)[r] /\ kt[s] = f[Some(s)] + jt[r]
          BY <3>2
        <4>2. jt[r] = On(r)[r]
          BY <1>3, <3>2
        <4> HIDE DEF jt, kt, On, r
        <4> QED BY <4>1, <4>2
      <3> QED BY <3>1, <3>2
    <2>2. jt = kt
      BY <2>1
    <2> QED BY <2>2, Zenon DEF Adds
  <1> QED BY <1>1, <1>4

-----------------------------------------------------------------------------
(* Sums                                                                    *)

LEMMA SumOfNone == ASSUME NEW f PROVE SumFunctionOnSet(f, {}) = 0
  BY SumIsAdded, AddsExists, AddsAt, FS_EmptySet

LEMMA SumOfSome ==
  ASSUME NEW f, NEW S, IsFiniteSet(S), S # {}
  PROVE  SumFunctionOnSet(f, S) = f[Some(S)] + SumFunctionOnSet(f, S \ {Some(S)})
  <1> DEFINE On(s) == CHOOSE it : Adds(it, f, s)
             R == S \ {Some(S)}
  <1>1. IsFiniteSet(R) /\ R \subseteq S
    BY FS_Subset
  <1>2. Adds(On(S), f, S) /\ Adds(On(R), f, R)
    BY <1>1, AddsExists
  <1>3. SumFunctionOnSet(f, S) = On(S)[S] /\ SumFunctionOnSet(f, R) = On(R)[R]
    BY SumIsAdded
  <1> HIDE DEF On, R
  <1>4. On(S)[R] = On(R)[R]
    BY <1>1, <1>2, AddsAgree
  <1>5. On(S)[S] = f[Some(S)] + On(S)[R]
    BY <1>2, AddsAt DEF R
  <1> QED BY <1>3, <1>4, <1>5 DEF R

LEMMA SumType ==
  ASSUME NEW f, NEW S, IsFiniteSet(S), \A x \in S : f[x] \in Int
  PROVE  SumFunctionOnSet(f, S) \in Int
  <1> DEFINE T == {s \in SUBSET S : SumFunctionOnSet(f, s) \notin Int}
  <1> SUFFICES ASSUME T # {} PROVE FALSE
    OBVIOUS
  <1>1. \A s \in SUBSET S : IsFiniteSet(s)
    BY FS_Subset
  <1>2. PICK m \in T : \A s \in T : s \subseteq m => s = m
    <2>1. \A s \in T : IsFiniteSet(s)
      BY <1>1
    <2> HIDE DEF T
    <2> QED BY <2>1, SmallestSet
  <1>3. m # {}
    BY SumOfNone
  <1>4. Some(m) \in m /\ m \ {Some(m)} \subseteq m /\ m \ {Some(m)} # m
    BY <1>3, SomeIsIn
  <1>5. m \ {Some(m)} \notin T
    <2> HIDE DEF T
    <2> QED BY <1>2, <1>4
  <1>6. SumFunctionOnSet(f, m \ {Some(m)}) \in Int /\ f[Some(m)] \in Int
    BY <1>4, <1>5
  <1>7. SumFunctionOnSet(f, m) = f[Some(m)] + SumFunctionOnSet(f, m \ {Some(m)})
    BY <1>1, <1>3, SumOfSome
  <1> QED BY <1>6, <1>7

\* Sums of functions that agree on the set are the same.
LEMMA SumSame ==
  ASSUME NEW f, NEW g, NEW S, IsFiniteSet(S), \A x \in S : f[x] = g[x]
  PROVE  SumFunctionOnSet(f, S) = SumFunctionOnSet(g, S)
  <1> DEFINE T == {s \in SUBSET S : SumFunctionOnSet(f, s) # SumFunctionOnSet(g, s)}
  <1> SUFFICES ASSUME T # {} PROVE FALSE
    OBVIOUS
  <1>1. \A s \in SUBSET S : IsFiniteSet(s)
    BY FS_Subset
  <1>2. PICK m \in T : \A s \in T : s \subseteq m => s = m
    <2>1. \A s \in T : IsFiniteSet(s)
      BY <1>1
    <2> HIDE DEF T
    <2> QED BY <2>1, SmallestSet
  <1>3. m # {}
    BY SumOfNone
  <1>4. Some(m) \in m /\ m \ {Some(m)} \subseteq m /\ m \ {Some(m)} # m
    BY <1>3, SomeIsIn
  <1>5. m \ {Some(m)} \notin T
    <2> HIDE DEF T
    <2> QED BY <1>2, <1>4
  <1>6. /\ SumFunctionOnSet(f, m \ {Some(m)}) = SumFunctionOnSet(g, m \ {Some(m)})
        /\ f[Some(m)] = g[Some(m)]
    BY <1>4, <1>5
  <1>7. /\ SumFunctionOnSet(f, m) = f[Some(m)] + SumFunctionOnSet(f, m \ {Some(m)})
        /\ SumFunctionOnSet(g, m) = g[Some(m)] + SumFunctionOnSet(g, m \ {Some(m)})
    BY <1>1, <1>3, SumOfSome
  <1>8. SumFunctionOnSet(f, m) = SumFunctionOnSet(g, m)
    BY <1>6, <1>7
  <1> QED BY <1>8

\* The order does not matter: any element can be the one taken out.
LEMMA SumWith ==
  ASSUME NEW f, NEW S, IsFiniteSet(S), NEW y, y \notin S, \A x \in S \cup {y} : f[x] \in Int
  PROVE  SumFunctionOnSet(f, S \cup {y}) = f[y] + SumFunctionOnSet(f, S)
  <1> DEFINE D == S \cup {y}
             Sum(s) == SumFunctionOnSet(f, s)
             T == {s \in SUBSET D : \E z \in D \ s : Sum(s \cup {z}) # f[z] + Sum(s)}
  <1>1. \A s \in SUBSET D : IsFiniteSet(s) /\ Sum(s) \in Int
    <2>1. \A s \in SUBSET D : IsFiniteSet(s)
      BY FS_Subset, FS_AddElement
    <2> QED BY <2>1, SumType
  <1>2. \A s \in SUBSET D : s # {} => Sum(s) = f[Some(s)] + Sum(s \ {Some(s)})
    BY <1>1, SumOfSome
  <1>3. \A x \in D : f[x] \in Int
    OBVIOUS
  <1> HIDE DEF Sum
  <1>4. ASSUME T # {} PROVE FALSE
    <2>1. PICK m \in T : \A s \in T : s \subseteq m => s = m
      <3>1. \A s \in T : IsFiniteSet(s)
        BY <1>1
      <3> HIDE DEF T
      <3> QED BY <1>4, <3>1, SmallestSet
    <2>2. PICK z \in D \ m : Sum(m \cup {z}) # f[z] + Sum(m)
      BY <2>1
    <2> DEFINE x == Some(m \cup {z})
               r == m \ {x}
    <2>3. x \in m \cup {z} /\ m \cup {z} \in SUBSET D /\ m \in SUBSET D
      BY <2>1, SomeIsIn
    <2>4. Sum(m \cup {z}) = f[x] + Sum((m \cup {z}) \ {x})
      BY <1>2, <2>3
    <2> HIDE DEF x
    <2>5. x # z
      <3>1. CASE x = z
        <4>1. (m \cup {z}) \ {x} = m
          BY <3>1
        <4> QED BY <2>2, <2>4, <3>1, <4>1
      <3> QED BY <3>1
    <2>6. x \in m /\ r \subseteq m /\ r # m /\ x \in D \ r /\ z \in D \ r
      BY <2>3, <2>5
    <2>7. r \notin T
      <3> HIDE DEF T, r
      <3> QED BY <2>1, <2>6
    <2>8. Sum(r \cup {x}) = f[x] + Sum(r) /\ Sum(r \cup {z}) = f[z] + Sum(r)
      <3>1. r \in SUBSET D
        BY <2>3
      <3>2. \A w \in D \ r : Sum(r \cup {w}) = f[w] + Sum(r)
        <4> HIDE DEF r
        <4> QED BY <2>7, <3>1
      <3> HIDE DEF r, D
      <3> QED BY <2>6, <3>2
    <2>9. r \cup {x} = m /\ r \cup {z} = (m \cup {z}) \ {x}
      BY <2>5, <2>6
    <2>10. Sum(r) \in Int /\ f[x] \in Int /\ f[z] \in Int
      BY <1>1, <1>3, <2>3, <2>6
    <2>11. Sum(m) = f[x] + Sum(r) /\ Sum(m \cup {z}) = f[x] + (f[z] + Sum(r))
      <3> HIDE DEF r
      <3> QED BY <2>4, <2>8, <2>9
    <2> HIDE DEF r
    <2> QED BY <2>2, <2>10, <2>11
  <1>5. S \in SUBSET D /\ y \in D \ S
    OBVIOUS
  <1>6. Sum(S \cup {y}) = f[y] + Sum(S)
    <2>1. S \notin T
      BY <1>4
    <2> HIDE DEF D
    <2> QED BY <1>5, <2>1
  <1> QED BY <1>6 DEF Sum

=============================================================================
