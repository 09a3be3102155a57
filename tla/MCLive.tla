------------------------------- MODULE MCLive --------------------------------
(***************************************************************************)
(* The live execution of orders on small instances.  The first state picks *)
(* one of three:                                                           *)
(*   "fok"     the orders of strategy J over two windows, killed orders    *)
(*             sent again, an answer that may get lost (LiveExecution)     *)
(*   "fak"     orders that may fill in part, sales among them              *)
(*   "ledger"  the ledger that books the fills (Portfolio, Live = TRUE)    *)
(* The variables that a part does not use stay Off.                        *)
(***************************************************************************)
EXTENDS MCLiveExecution

VARIABLES
  part,
  available_cash, overall_realized_pnl, entered_windows, skipped_windows, \* Portfolio
  closed_windows, wins, losses, status, price_to_beat, spent,
  cash_returned, shares, bid

Off == "off"
booked == <<available_cash, overall_realized_pnl, entered_windows, skipped_windows,
            closed_windows, wins, losses, status, price_to_beat, spent,
            cash_returned, shares, bid>>

\* The constants of the configuration file are those of the first part.
Partial == INSTANCE LiveExecution WITH
  Sizes <- MCFewSizes, MinOrder <- 2, PartialFills <- TRUE, MaxWindows <- 0,
  MaxLost <- 0, MaySell <- TRUE
Ledger == INSTANCE Portfolio WITH
  Windows <- {0, 1}, StartingBank <- 3, Unit <- 2, Live <- TRUE, WarmsUp <- TRUE,
  Amounts <- {1, 2}, Prices <- {1}, PtbValues <- {1}, MaxSpent <- 2

BookedOff == /\ available_cash = Off /\ overall_realized_pnl = Off
             /\ entered_windows = Off /\ skipped_windows = Off
             /\ closed_windows = Off /\ wins = Off /\ losses = Off
             /\ status = Off /\ price_to_beat = Off /\ spent = Off
             /\ cash_returned = Off /\ shares = Off /\ bid = Off
OrdersOff == /\ exch = Off /\ ledger = Off /\ account = Off /\ belief = Off
             /\ orders = Off /\ call = Off /\ age = Off /\ window = Off
             /\ lost = Off /\ sent = Off

Init ==
  \/ part = "fok"    /\ LiveInit   /\ BookedOff
  \/ part = "fak"    /\ Partial!LiveInit /\ BookedOff
  \/ part = "ledger" /\ Ledger!LedgerInit /\ OrdersOff

Next ==
  \/ part = "fok"    /\ LiveNext    /\ UNCHANGED <<part, booked>>
  \/ part = "fak"    /\ Partial!LiveNext  /\ UNCHANGED <<part, booked>>
  \/ part = "ledger" /\ Ledger!LedgerNext /\ UNCHANGED <<part, vars>>

\* The client returns an answer or an error and the loop goes on with it.
Spec == /\ Init /\ [][Next]_<<part, vars, booked>>
        /\ WF_vars(part = "fok" /\ ExecuteStep)
        /\ WF_vars(part = "fak" /\ Partial!ExecuteStep)

-----------------------------------------------------------------------------
(* Properties: those of the modules, where they are stated                 *)

\* What the ledger counts (trader.rs) and what the exchange and the strategy count
\* (live_executor.rs, strategy_j.rs) stays within its type and its tallies, with the
\* order under way and its answer accounted for.
LiveCounters ==
  /\ part = "fok"    => LiveInv
  /\ part = "fak"    => Partial!LiveInv
  /\ part = "ledger" => Ledger!LedgerTypeOK /\ Ledger!CountersMatch

\* No signal buys twice, whichever answers are lost (should_retry_fok_reject).
NeverFillsTwice == part # "ledger" => AtMostOneFill

\* Ledger and exchange agree between orders, partial fills included
\* (matched_response_fill, apply_live_result_to_portfolio).
AnswersBooked == part # "ledger" => BooksAgree

\* The budget of the window bounds what the exchange holds, the fills that nobody
\* told the program about included (notify_order_executed).
RiskWithinBudget == part # "ledger" => WindowRiskBounded

\* The orders of a tick come to an end (execute_strategy_signals).
EveryTickConcludes ==
  (part # "ledger" /\ orders # <<>>) ~> (part # "ledger" => orders = <<>>)
=============================================================================
