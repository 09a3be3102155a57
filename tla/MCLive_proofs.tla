--------------------------- MODULE MCLive_proofs ----------------------------
(***************************************************************************)
(* The properties of module MCLive, for every value of its constants: each *)
(* part of the suite is an instance of a module the theorems of            *)
(* LiveExecution_proofs and Portfolio_proofs are about.                    *)
(***************************************************************************)
EXTENDS MCLive, LiveExecution_proofs

Fak == INSTANCE LiveExecution_proofs WITH
  Sizes <- MCFewSizes, MinOrder <- 2, PartialFills <- TRUE, MaxWindows <- 0,
  MaxLost <- 0, MaySell <- TRUE
Booked == INSTANCE Portfolio_proofs WITH
  Windows <- {0, 1}, StartingBank <- 3, Unit <- 2, Live <- TRUE, WarmsUp <- TRUE,
  Amounts <- {1, 2}, Prices <- {1}, PtbValues <- {1}, MaxSpent <- 2

-----------------------------------------------------------------------------
(* The instances of the suite are those the theorems speak of              *)

\* Orders that may fill in part: the same constants, hence the same model.
LEMMA FakAssumption == Fak!LiveAssumption
  BY LiveAssumption DEF MCFewSizes

LEMMA FakInit == Partial!LiveInit <=> Fak!LiveInit
  BY DEF Fak!LiveInit, Partial!LiveInit, Fak!NoCall, Partial!NoCall

LEMMA FakNext == Partial!LiveNext <=> Fak!LiveNext
  BY SMT DEF Fak!books, Partial!books, Fak!vars, Partial!vars, Fak!Lesser,
             Partial!Lesser, Fak!Greater, Partial!Greater, Fak!SharesFor,
             Partial!SharesFor, Fak!ValueOf, Partial!ValueOf, Fak!TradeCash,
             Partial!TradeCash, Fak!NoCall, Partial!NoCall, Fak!Buy, Partial!Buy,
             Fak!Sell, Partial!Sell, Fak!Plans, Partial!Plans, Fak!TickPlans,
             Partial!TickPlans, Fak!ReadBalance, Partial!ReadBalance, Fak!Promote,
             Partial!Promote, Fak!Redeem, Partial!Redeem, Fak!Older, Partial!Older,
             Fak!Intended, Partial!Intended, Fak!CallAge, Partial!CallAge,
             Fak!StartOrder, Partial!StartOrder, Fak!RefuseOrder, Partial!RefuseOrder,
             Fak!Fills, Partial!Fills, Fak!Filled, Partial!Filled, Fak!Covered,
             Partial!Covered, Fak!Answered, Partial!Answered, Fak!ExchangeFills,
             Partial!ExchangeFills, Fak!ExchangeRejects, Partial!ExchangeRejects,
             Fak!Answer, Partial!Answer, Fak!MaxAttempts, Partial!MaxAttempts,
             Fak!FokKilled, Partial!FokKilled, Fak!MayRetry, Partial!MayRetry,
             Fak!WaitToRetry, Partial!WaitToRetry, Fak!NextAttempt, Partial!NextAttempt,
             Fak!PostAgain, Partial!PostAgain, Fak!AnsweredFill, Partial!AnsweredFill,
             Fak!ByIntent, Partial!ByIntent, Fak!Untold, Partial!Untold,
             Fak!Applied, Partial!Applied, Fak!Notified, Partial!Notified, Fak!Executed,
             Partial!Executed, Fak!FinishOrder, Partial!FinishOrder, Fak!ExecuteStep,
             Partial!ExecuteStep, Fak!LiveNext, Partial!LiveNext

LEMMA FakInv == Partial!LiveInv <=> Fak!LiveInv
  BY SMT DEF Fak!Orders, Partial!Orders, Fak!Answers, Partial!Answers, Fak!Calls,
             Partial!Calls, Fak!MaxAttempts, Partial!MaxAttempts, Fak!NoCall,
             Partial!NoCall, Fak!Answer, Partial!Answer, Fak!Executed, Partial!Executed,
             Fak!Applied, Partial!Applied, Fak!AnsweredFill, Partial!AnsweredFill,
             Fak!ByIntent, Partial!ByIntent, Fak!SharesFor, Partial!SharesFor,
             Fak!ValueOf, Partial!ValueOf,
             Fak!Greater, Partial!Greater, Fak!LiveTypeOK, Partial!LiveTypeOK,
             Fak!CallConsistent, Partial!CallConsistent, Fak!ClipsFit, Partial!ClipsFit,
             Fak!BookedLedger, Partial!BookedLedger, Fak!BooksMatch, Partial!BooksMatch,
             Fak!RiskKnown, Partial!RiskKnown, Fak!LiveInv, Partial!LiveInv

\* The ledger of the fills the exchange reports.
LEMMA BookedAssumptions ==
  /\ Booked!WindowsAssumption /\ Booked!BankAssumption /\ Booked!UnitAssumption
  /\ Booked!LiveAssumption /\ Booked!WarmsAssumption
  /\ Booked!InputsAssumption
  OBVIOUS

LEMMA BookedInit == Ledger!LedgerInit <=> Booked!LedgerInit
  BY DEF Booked!LedgerInit, Ledger!LedgerInit, Booked!NoShares, Ledger!NoShares,
         Booked!NoQuotes, Ledger!NoQuotes, Booked!Sides, Ledger!Sides

LEMMA BookedNext == Ledger!LedgerNext <=> Booked!LedgerNext
  BY SMT DEF Booked!tally, Ledger!tally, Booked!book, Ledger!book, Booked!Sides,
             Ledger!Sides, Booked!Statuses, Ledger!Statuses, Booked!CreateWindow,
             Ledger!CreateWindow, Booked!StorePrices, Ledger!StorePrices, Booked!WarmUp,
             Ledger!WarmUp, Booked!LiveSinceStartup, Ledger!LiveSinceStartup,
             Booked!Watch, Ledger!Watch, Booked!StartWindow, Ledger!StartWindow,
             Booked!PromoteWindow, Ledger!PromoteWindow,
             Booked!MarkPending, Ledger!MarkPending, Booked!StorePtb, Ledger!StorePtb,
             Booked!Known, Ledger!Known, Booked!CanBuy, Ledger!CanBuy, Booked!Unspent,
             Ledger!Unspent, Booked!ConvertsSkippedToLive, Ledger!ConvertsSkippedToLive,
             Booked!Marked, Ledger!Marked, Booked!StatusAfterBuy, Ledger!StatusAfterBuy,
             Booked!BookBuy, Ledger!BookBuy, Booked!Owing, Ledger!Owing,
             Booked!DebitedCash, Ledger!DebitedCash, Booked!RecordExternalBuy,
             Ledger!RecordExternalBuy, Booked!ExecuteBuy, Ledger!ExecuteBuy,
             Booked!Sell, Ledger!Sell, Booked!ExecuteSell, Ledger!ExecuteSell,
             Booked!Settles, Ledger!Settles, Booked!Winner, Ledger!Winner,
             Booked!CloseProceeds, Ledger!CloseProceeds, Booked!LeftAfterClose,
             Ledger!LeftAfterClose, Booked!Counts, Ledger!Counts, Booked!CloseWindow,
             Ledger!CloseWindow, Booked!Quotes, Ledger!Quotes, Booked!Buy, Ledger!Buy,
             Booked!Trade, Ledger!Trade, Booked!Open, Ledger!Open, Booked!Promote,
             Ledger!Promote, Booked!Queue, Ledger!Queue, Booked!Settle, Ledger!Settle,
             Booked!FixPtb, Ledger!FixPtb, Booked!Quote, Ledger!Quote,
             Booked!LedgerNext, Ledger!LedgerNext

LEMMA BookedType == Ledger!LedgerTypeOK <=> Booked!LedgerTypeOK
  BY DEF Booked!LedgerTypeOK, Ledger!LedgerTypeOK, Booked!Sides, Ledger!Sides,
         Booked!Statuses, Ledger!Statuses

LEMMA BookedCounters == Ledger!CountersMatch <=> Booked!CountersMatch
  BY DEF Booked!Promoted, Ledger!Promoted, Booked!Uncounted, Ledger!Uncounted,
         Booked!StartWindow, Ledger!StartWindow, Booked!CountersMatch, Ledger!CountersMatch,
         Booked!Cardinality, Ledger!Cardinality

-----------------------------------------------------------------------------
(* The invariant of the suite                                              *)

BookedInv == Booked!LedgerTypeOK /\ Booked!CountersInv

\* The invariant of each module in its part of the suite.
SuiteInv ==
  /\ part \in {"fok", "fak", "ledger"}
  /\ part = "fok"    => LiveInv
  /\ part = "fak"    => Fak!LiveInv
  /\ part = "ledger" => BookedInv

\* No part is left, and the variables of the others stand still.
LEMMA SuiteStep == SuiteInv /\ [Next]_<<part, vars, booked>> => SuiteInv'
  <1> SUFFICES ASSUME SuiteInv, [Next]_<<part, vars, booked>> PROVE SuiteInv'
    OBVIOUS
  <1>1. /\ part' = part
        /\ part = "fok"    => [LiveNext]_vars
        /\ part = "fak"    => Partial!LiveNext \/ UNCHANGED vars
        /\ part = "ledger" => Ledger!LedgerNext \/ UNCHANGED booked
    BY DEF Next
  <1>2. CASE part = "fok"
    <2>1. LiveInv /\ [LiveNext]_vars
      BY <1>1, <1>2 DEF SuiteInv
    <2> QED BY <1>1, <1>2, <2>1, LiveNextInv DEF SuiteInv
  <1>3. CASE part = "fak"
    <2>1. Fak!LiveInv /\ [Fak!LiveNext]_(Fak!vars)
      BY <1>1, <1>3, FakNext DEF SuiteInv, vars, books, Fak!vars, Fak!books
    <2> QED BY <1>1, <1>3, <2>1, FakAssumption, Fak!LiveNextInv DEF SuiteInv
  <1>4. CASE part = "ledger"
    <2>1. BookedInv
      BY <1>4 DEF SuiteInv
    <2>2. BookedInv'
      <3>1. CASE Booked!LedgerNext
        <4>1. Booked!LedgerTypeOK'
          BY <2>1, <3>1, BookedAssumptions, Booked!LedgerTypeStep DEF BookedInv
        <4>2. Booked!CountersInv'
          BY <2>1, <3>1, BookedAssumptions, Booked!CountersStep DEF BookedInv
        <4> QED BY <4>1, <4>2 DEF BookedInv
      <3>2. CASE UNCHANGED Booked!ledger
        <4>1. Booked!LedgerTypeOK'
          BY <2>1, <3>2, BookedAssumptions, Booked!LedgerTypeStep DEF BookedInv
        <4>2. Booked!CountersInv'
          BY <2>1, <3>2, BookedAssumptions, Booked!CountersStutter DEF BookedInv
        <4> QED BY <4>1, <4>2 DEF BookedInv
      <3>3. UNCHANGED booked => UNCHANGED Booked!ledger
        BY DEF booked, Booked!ledger
      <3> QED BY <1>1, <1>4, <3>1, <3>2, <3>3, BookedNext
    <2> QED BY <1>1, <1>4, <2>2 DEF SuiteInv
  <1> QED BY <1>2, <1>3, <1>4 DEF SuiteInv

LEMMA SuiteStart == Init => SuiteInv
  <1> SUFFICES ASSUME Init PROVE SuiteInv
    OBVIOUS
  <1>1. CASE part = "fok" /\ LiveInit
    BY <1>1, LiveInitInv DEF SuiteInv
  <1>2. CASE part = "fak" /\ Partial!LiveInit
    <2>1. Fak!LiveInv
      BY <1>2, FakAssumption, FakInit, Fak!LiveInitInv
    <2> QED BY <1>2, <2>1 DEF SuiteInv
  <1>3. CASE part = "ledger" /\ Ledger!LedgerInit
    <2>1. Booked!LedgerInit
      BY <1>3, BookedInit
    <2>2. Booked!LedgerTypeOK
      BY <2>1, BookedAssumptions, Booked!LedgerTypeStart
    <2>3. Booked!CountersInv
      BY <2>1, BookedAssumptions, Booked!CountersStart
    <2> QED BY <1>3, <2>2, <2>3 DEF SuiteInv, BookedInv
  <1> QED BY <1>1, <1>2, <1>3 DEF Init

LEMMA SuiteInvariant == Spec => []SuiteInv
  <1> QED BY SuiteStart, SuiteStep, PTL DEF Spec

-----------------------------------------------------------------------------
(* The properties of the suite                                             *)

\* What the ledger, the exchange and the strategy count stays within its type and
\* its tallies, whole fills or partial ones (trader.rs, live_executor.rs).
THEOREM CountersAlwaysHold == Spec => []LiveCounters
  <1>1. SuiteInv => LiveCounters
    BY FakInv, BookedType, BookedCounters
       DEF SuiteInv, BookedInv, LiveCounters, Booked!CountersInv
  <1> QED BY <1>1, SuiteInvariant, PTL

\* should_retry_fok_reject: no signal buys twice, whichever answers are lost and
\* however often a killed order is sent again.
THEOREM NeverBuysTwice == Spec => []NeverFillsTwice
  <1>1. Fak!LiveInv => AtMostOneFill
    BY FakAssumption, Fak!InvFilledOnce DEF AtMostOneFill, Fak!AtMostOneFill
  <1>2. SuiteInv => NeverFillsTwice
    BY <1>1, InvFilledOnce DEF SuiteInv, NeverFillsTwice
  <1> QED BY <1>2, SuiteInvariant, PTL

\* apply_live_result_to_portfolio: between orders the ledger holds what the exchange
\* holds, as long as every answer arrived.
THEOREM AnswersAlwaysBooked == Spec => []AnswersBooked
  <1>1. Fak!LiveInv => BooksAgree
    BY FakAssumption, Fak!InvBooksAgree DEF BooksAgree, Fak!BooksAgree
  <1>2. SuiteInv => AnswersBooked
    BY <1>1, InvBooksAgree DEF SuiteInv, AnswersBooked
  <1> QED BY <1>2, SuiteInvariant, PTL

\* The budget of the window bounds what the exchange holds, but for the fills the
\* program was never told of (notify_order_executed).
THEOREM RiskAlwaysWithinBudget == Spec => []RiskWithinBudget
  <1>1. Fak!LiveInv => WindowRiskBounded
    BY FakAssumption, Fak!InvRiskBounded DEF WindowRiskBounded, Fak!WindowRiskBounded
  <1>2. SuiteInv => RiskWithinBudget
    BY <1>1, InvRiskBounded DEF SuiteInv, RiskWithinBudget
  <1> QED BY <1>2, SuiteInvariant, PTL
=============================================================================
