----------------------------- MODULE Portfolio -----------------------------
(***************************************************************************)
(* The paper ledger of the bot: struct Portfolio of src/src/trader.rs.     *)
(*                                                                         *)
(* The operations are actions over the ledger's variables, one per method. *)
(* LedgerSpec lets a caller invoke them in every order the callers' own    *)
(* protocol allows (a window is closed only out of PENDING_SETTLEMENT); it *)
(* is the abstract specification that the event loop, module               *)
(* WindowLifecycle, is shown to implement.                                 *)
(*                                                                         *)
(* Money is counted in units, Unit of them to a dollar, and prices in      *)
(* units per share, so that a buy of `usd` units at `ask` yields           *)
(* usd \div ask shares; callers offer amounts the price divides, where the *)
(* quotient of the code is exact.  Roles, trade records, CSV rows, equity  *)
(* and the cheap_hold_h counters are left out.                             *)
(***************************************************************************)
EXTENDS Integers, FiniteSets, Functions

CONSTANTS
  Windows,       \* window numbers the session may use
  StartingBank,  \* starting_bank, in units
  Unit,          \* units in one dollar: MIN_TRADE_USD and the redemption price
  Live,          \* execution mode: TRUE books fills the exchange reports
  WarmsUp,       \* strategy: dynamic_grid_e, cheap_hold_h, j_endgame and x_last only
                 \* watch the window they start in, the others trade it
  Amounts,       \* order sizes a caller may ask for: units to spend, shares to sell
  Prices,        \* prices of an order and quotes of a book, in units per share
  PtbValues,     \* price_to_beat a market may publish or spot may fix
  MaxSpent       \* bound of the model on what one window may spend

ASSUME WindowsAssumption == Windows \subseteq Nat
ASSUME BankAssumption    == StartingBank \in Nat
ASSUME UnitAssumption    == Unit \in Nat \ {0}
ASSUME LiveAssumption    == Live \in BOOLEAN
ASSUME WarmsAssumption   == WarmsUp \in BOOLEAN
ASSUME InputsAssumption  == /\ Amounts \subseteq Nat
                            /\ Prices \subseteq Nat
                            /\ PtbValues \subseteq Nat \ {0}
                            /\ MaxSpent \in Nat

VARIABLES
  available_cash,
  overall_realized_pnl,
  entered_windows,
  skipped_windows,
  closed_windows,
  wins,
  losses,
  status,          \* status[w]; "NONE" when `windows` has no entry for w
  price_to_beat,   \* price_to_beat[w]; 0 is the code's None
  spent,           \* spent[w]
  cash_returned,   \* cash_returned[w]
  shares,          \* shares[w][side]: up_shares and down_shares
  bid              \* bid[w][side]: prices.up.bid and prices.down.bid

tally  == <<entered_windows, skipped_windows, closed_windows, wins, losses,
            overall_realized_pnl>>
book   == <<available_cash, spent, cash_returned, shares>>
ledger == <<available_cash, overall_realized_pnl, entered_windows,
            skipped_windows, closed_windows, wins, losses, status,
            price_to_beat, spent, cash_returned, shares, bid>>

Sides    == {"UP", "DOWN"}
Statuses == {"NONE", "WAITING_ENTRY", "ENTERED_PRE_START", "LIVE", "SKIPPED",
             "PENDING_SETTLEMENT", "CLOSED_TIME"}

NoShares == [s \in Sides |-> 0]
NoQuotes == [s \in Sides |-> 0]

LedgerInit ==
  /\ available_cash = StartingBank
  /\ overall_realized_pnl = 0
  /\ entered_windows = 0
  /\ skipped_windows = 0
  /\ closed_windows = 0
  /\ wins = 0
  /\ losses = 0
  /\ status = [w \in Windows |-> "NONE"]
  /\ price_to_beat = [w \in Windows |-> 0]
  /\ spent = [w \in Windows |-> 0]
  /\ cash_returned = [w \in Windows |-> 0]
  /\ shares = [w \in Windows |-> NoShares]
  /\ bid = [w \in Windows |-> NoQuotes]

-----------------------------------------------------------------------------
(* Windows                                                                 *)

\* get_or_create_window_state when the map has no entry for w yet.
CreateWindow(w, ptb) ==
  /\ status' = [status EXCEPT ![w] = "WAITING_ENTRY"]
  /\ price_to_beat' = [price_to_beat EXCEPT ![w] = ptb]
  /\ UNCHANGED <<tally, book, bid>>

\* A CLOB tick stores its prices in the window it names.
StorePrices(w, quotes) ==
  /\ bid' = [bid EXCEPT ![w] = quotes]
  /\ UNCHANGED <<tally, book, status, price_to_beat>>

\* Window 0 is the one already under way when the session starts.  A strategy that
\* warms up only watches it, and the window counts as skipped.
StartWindow == 0
WarmUp(w, ptb) ==
  /\ status' = [status EXCEPT ![w] = "SKIPPED"]
  /\ price_to_beat' = [price_to_beat EXCEPT ![w] = ptb]
  /\ skipped_windows' = skipped_windows + 1
  /\ UNCHANGED <<book, bid, entered_windows, closed_windows, wins, losses,
                 overall_realized_pnl>>

\* Any other strategy trades it: the window is "Live since startup" and no counter
\* hears of it.
LiveSinceStartup(w, ptb) ==
  /\ status' = [status EXCEPT ![w] = "LIVE"]
  /\ price_to_beat' = [price_to_beat EXCEPT ![w] = ptb]
  /\ UNCHANGED <<tally, book, bid>>

Watch(w, ptb) == IF WarmsUp THEN WarmUp(w, ptb) ELSE LiveSinceStartup(w, ptb)

\* promote_next_to_current: the window goes LIVE when it was entered before
\* its start or the strategy trades inside the window, else SKIPPED.
PromoteWindow(w, entered) ==
  /\ status' = [status EXCEPT ![w] = IF entered THEN "LIVE" ELSE "SKIPPED"]
  /\ entered_windows' = IF entered THEN entered_windows + 1 ELSE entered_windows
  /\ skipped_windows' = IF entered THEN skipped_windows ELSE skipped_windows + 1
  /\ UNCHANGED <<book, bid, price_to_beat, closed_windows, wins, losses,
                 overall_realized_pnl>>

\* queue_window_for_settlement, its effect on the ledger.
MarkPending(w) ==
  /\ status' = [status EXCEPT ![w] = "PENDING_SETTLEMENT"]
  /\ UNCHANGED <<tally, book, bid, price_to_beat>>

\* The PTB of a window is captured from spot.
StorePtb(w, ptb) ==
  /\ price_to_beat' = [price_to_beat EXCEPT ![w] = ptb]
  /\ UNCHANGED <<tally, book, bid, status>>

-----------------------------------------------------------------------------
(* Trades                                                                  *)

Known(w) == status[w] # "NONE"

\* What execute_buy requires: a price, at least a dollar, and the cash.
CanBuy(w, usd, ask) ==
  /\ ask > 0
  /\ usd >= Unit
  /\ available_cash >= usd
  /\ Known(w)

Unspent(w) == spent[w] = 0
ConvertsSkippedToLive(w) == status[w] = "SKIPPED" /\ Unspent(w)

\* The first buy marks a window that was waiting, or promoted as skipped.
Marked(w) == IF status[w] = "WAITING_ENTRY" THEN "ENTERED_PRE_START" ELSE "LIVE"
StatusAfterBuy(w) ==
  IF status[w] \in {"WAITING_ENTRY", "SKIPPED"} THEN Marked(w) ELSE status[w]

\* The part execute_buy and record_external_buy share: the trade is booked
\* whatever the status of the window, a closed or pending one included.
BookBuy(w, side, usd, n) ==
  /\ spent' = [spent EXCEPT ![w] = @ + usd]
  /\ shares' = [shares EXCEPT ![w][side] = @ + n]
  /\ status' = [status EXCEPT ![w] = StatusAfterBuy(w)]
  /\ IF ConvertsSkippedToLive(w)
     THEN /\ skipped_windows' = IF skipped_windows = 0
                                THEN 0 ELSE skipped_windows - 1
          /\ entered_windows' = entered_windows + 1
     ELSE UNCHANGED <<skipped_windows, entered_windows>>
  /\ UNCHANGED <<cash_returned, bid, price_to_beat, closed_windows, wins,
                 losses, overall_realized_pnl>>

\* record_external_buy books a fill the exchange reports: there is no check
\* against the cash, which stops at zero instead.
Owing(usd)       == available_cash - usd
DebitedCash(usd) == IF available_cash >= usd THEN Owing(usd) ELSE 0

RecordExternalBuy(w, side, usd, ask) ==
  /\ ask > 0 /\ usd > 0 /\ usd \div ask > 0
  /\ Known(w)
  /\ available_cash' = DebitedCash(usd)
  /\ BookBuy(w, side, usd, usd \div ask)

ExecuteBuy(w, side, usd, ask) ==
  /\ CanBuy(w, usd, ask)
  /\ available_cash' = available_cash - usd
  /\ BookBuy(w, side, usd, usd \div ask)

\* execute_sell, and record_external_sell whose value is prorated to the
\* shares held: both clamp the amount to what the window holds.
Sell(w, side, sold, price) ==
  LET value == sold * price
  IN  /\ price > 0 /\ sold > 0
      /\ Known(w)
      /\ available_cash' = available_cash + value
      /\ cash_returned' = [cash_returned EXCEPT ![w] = @ + value]
      /\ shares' = [shares EXCEPT ![w][side] = @ - sold]
      /\ UNCHANGED <<tally, spent, status, bid, price_to_beat>>

ExecuteSell(w, side, amount, price) ==
  LET held == shares[w][side]
  IN  Sell(w, side, IF amount > held THEN held ELSE amount, price)

-----------------------------------------------------------------------------
(* Closing                                                                 *)

\* A window settles when both its own PTB and a close price are known.
Settles(w, close) == close > 0 /\ price_to_beat[w] > 0

Winner(w, close) == IF close >= price_to_beat[w] THEN "UP" ELSE "DOWN"

\* Cash a closing window brings in: the winning side redeemed at a dollar,
\* or, with no verdict, both sides sold at the bids last stored (sell_all).
CloseProceeds(w, close) ==
  IF Settles(w, close)
  THEN shares[w][Winner(w, close)] * Unit
  ELSE shares[w]["UP"] * bid[w]["UP"] + shares[w]["DOWN"] * bid[w]["DOWN"]

\* Shares that stay with a closed window: those sell_all found no bid for.
LeftAfterClose(w, close) ==
  [s \in Sides |-> IF ~Settles(w, close) /\ bid[w][s] = 0
                   THEN shares[w][s] ELSE 0]

\* close_window; only a window that spent anything enters the session stats.
Counts(w) == spent[w] > 0

CloseWindow(w, close) ==
  LET proceeds == CloseProceeds(w, close)
      realized == cash_returned[w] + proceeds - spent[w]
  IN  /\ available_cash' = available_cash + proceeds
      /\ cash_returned' = [cash_returned EXCEPT ![w] = @ + proceeds]
      /\ shares' = [shares EXCEPT ![w] = LeftAfterClose(w, close)]
      /\ status' = [status EXCEPT ![w] = "CLOSED_TIME"]
      /\ IF Counts(w)
         THEN /\ closed_windows' = closed_windows + 1
              /\ overall_realized_pnl' = overall_realized_pnl + realized
              /\ wins' = IF realized > 0 THEN wins + 1 ELSE wins
              /\ losses' = IF realized > 0 THEN losses ELSE losses + 1
         ELSE UNCHANGED <<closed_windows, overall_realized_pnl, wins, losses>>
      /\ UNCHANGED <<spent, bid, price_to_beat, entered_windows,
                     skipped_windows>>

-----------------------------------------------------------------------------
(* The ledger and its callers                                              *)

Quotes == [Sides -> Prices \cup {0}]

Buy(w, side, usd, ask) ==
  IF Live THEN RecordExternalBuy(w, side, usd, ask)
          ELSE ExecuteBuy(w, side, usd, ask)

Trade(w) ==
  \E side \in Sides, amount \in Amounts, price \in Prices \ {0} :
    \/ /\ amount % price = 0
       /\ spent[w] + amount <= MaxSpent
       /\ Buy(w, side, amount, price)
    \/ ExecuteSell(w, side, amount, price)

Open(w) ==
  /\ ~Known(w)
  /\ \E ptb \in PtbValues \cup {0} :
       \/ w # StartWindow /\ CreateWindow(w, ptb)
       \/ w = StartWindow /\ Watch(w, ptb)

Promote(w) ==
  /\ status[w] \in {"WAITING_ENTRY", "ENTERED_PRE_START"}
  /\ \E entered \in BOOLEAN :
       /\ status[w] = "ENTERED_PRE_START" => entered
       /\ PromoteWindow(w, entered)

Queue(w) == status[w] \in {"LIVE", "SKIPPED"} /\ MarkPending(w)

Settle(w) ==
  /\ status[w] = "PENDING_SETTLEMENT"
  /\ \E close \in PtbValues : CloseWindow(w, close)

FixPtb(w) ==
  /\ Known(w)
  /\ \E ptb \in PtbValues : StorePtb(w, ptb)

Quote(w) ==
  /\ Known(w)
  /\ \E quotes \in Quotes : StorePrices(w, quotes)

LedgerNext ==
  \E w \in Windows :
    \/ Open(w)
    \/ Promote(w)
    \/ Queue(w)
    \/ Settle(w)
    \/ FixPtb(w)
    \/ Quote(w)
    \/ Trade(w)

LedgerSpec == LedgerInit /\ [][LedgerNext]_ledger

-----------------------------------------------------------------------------
(* Properties                                                              *)

\* The range of every field of struct Portfolio and of its windows; the cash
\* and the shares of a window never fall below zero.
LedgerTypeOK ==
  /\ available_cash \in Nat
  /\ overall_realized_pnl \in Int
  /\ entered_windows \in Nat
  /\ skipped_windows \in Nat
  /\ closed_windows \in Nat
  /\ wins \in Nat
  /\ losses \in Nat
  /\ status \in [Windows -> Statuses]
  /\ price_to_beat \in [Windows -> Nat]
  /\ spent \in [Windows -> Nat]
  /\ cash_returned \in [Windows -> Nat]
  /\ shares \in [Windows -> [Sides -> Nat]]
  /\ bid \in [Windows -> [Sides -> Nat]]

\* On paper no operation loses or invents money, or books the trade of one window
\* against another: the cash moves by exactly what one window returned and spent.
BooksOneWindow ==
  \E w \in Windows :
    /\ \A v \in Windows \ {w} :
         /\ spent'[v] = spent[v]
         /\ cash_returned'[v] = cash_returned[v]
         /\ shares'[v] = shares[v]
    /\ available_cash' - available_cash
         = (cash_returned'[w] - cash_returned[w]) - (spent'[w] - spent[w])
DoubleEntry == [][~Live => BooksOneWindow]_ledger

\* Windows that were promoted, or that the session started in.
Promoted == {w \in Windows :
               status[w] \in {"LIVE", "SKIPPED", "PENDING_SETTLEMENT", "CLOSED_TIME"}}

\* Each of them is counted once, as entered or as skipped, also after a buy
\* turned a skipped window into a live one (the saturating decrement of
\* execute_buy never meets zero).  The one exception is the window that was LIVE
\* since startup, which discover_initial_markets and its trades count nowhere.
Uncounted == IF WarmsUp THEN {} ELSE {StartWindow}
CountersMatch == entered_windows + skipped_windows = Cardinality(Promoted \ Uncounted)

\* A window that never bought has no shares, returned no cash and so cannot
\* change the session's profit, wins or losses when it closes.
UntradedIsEmpty ==
  \A w \in Windows : spent[w] = 0 => cash_returned[w] = 0 /\ shares[w] = NoShares

\* Every closed window that counts is a win or a loss, and a closed window is
\* counted at most once.
TallyMatchesClosed ==
  /\ closed_windows = wins + losses
  /\ closed_windows <= Cardinality({w \in Windows :
                         status[w] = "CLOSED_TIME" /\ spent[w] > 0})

\* Orders, ticks and captures that arrive late never bring a window back:
\* its status only moves on, and a skipped window may still go LIVE.
Stage(st) == CASE st = "NONE"               -> 0
               [] st = "WAITING_ENTRY"      -> 1
               [] st = "ENTERED_PRE_START"  -> 2
               [] st = "SKIPPED"            -> 3
               [] st = "LIVE"               -> 4
               [] st = "PENDING_SETTLEMENT" -> 5
               [] st = "CLOSED_TIME"        -> 6
StatusMovesOn ==
  [][\A w \in Windows : Stage(status'[w]) >= Stage(status[w])]_ledger
=============================================================================
