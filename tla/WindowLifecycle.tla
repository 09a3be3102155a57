--------------------------- MODULE WindowLifecycle --------------------------
(***************************************************************************)
(* The event loop of src/src/main.rs for the strategy the shipped          *)
(* configuration selects, j_endgame: market discovery, promotion of NEXT   *)
(* to CURRENT, capture of the price to beat (PTB), queueing and settlement *)
(* of finished windows, and the orders of a CLOB tick, over the ledger of  *)
(* module Portfolio.                                                       *)
(*                                                                         *)
(* One task runs the loop.  A handler runs to its end before the next one  *)
(* starts; `pc` names the point a handler has reached and `job` what it    *)
(* still has to do.  Between handlers, and where a handler awaits a        *)
(* network call, time passes and the feeds, which are tasks of their own,  *)
(* put events into the channel.                                            *)
(*                                                                         *)
(* Time is counted in ticks, Sec of them to a second.  Markets occupy      *)
(* consecutive slots of SlotLen ticks.                                     *)
(***************************************************************************)
EXTENDS Portfolio, Sequences

CONSTANTS
  MaxSlot,        \* bound: last slot for which a market exists
  SlotLen,        \* length of a market, bucket_sec
  Sec,            \* ticks in a second
  SafetySecs,     \* seconds past its end before the safety close (10)
  MaxClobAge,     \* max_clob_age_ms
  MaxSpotAge,     \* MAX_SPOT_AGE_MS
  Lookahead,      \* slots ahead of now that discovery asks for (6)
  RequestsFail,   \* whether some of the requests of one search may fail
  MaxSignals,     \* bound: orders of one tick
  MaxClock,       \* bound: last instant
  ChanCap,        \* bound: events waiting in the channel (unbounded)
  SpotPrices,     \* prices of the spot feed
  PublishedPtbs,  \* price_to_beat of a discovered market, 0 for None
  Implausible,    \* those of them ptb_implausible rejects
  QuoteSet,       \* top bids a CLOB tick may carry
  PollOutcomes    \* outcomes of a status poll

ASSUME TimeAssumption ==
  /\ MaxSlot \in Nat /\ SlotLen \in Nat \ {0} /\ Sec \in Nat \ {0}
  /\ SafetySecs \in Nat /\ MaxClobAge \in Nat /\ MaxSpotAge \in Nat
  /\ Lookahead \in Nat /\ MaxSignals \in Nat
  /\ MaxClock \in Nat /\ ChanCap \in Nat /\ RequestsFail \in BOOLEAN
ASSUME FeedAssumption ==
  /\ SpotPrices \subseteq PtbValues
  /\ PublishedPtbs \subseteq PtbValues \cup {0}
  /\ QuoteSet \subseteq Quotes
  /\ PollOutcomes \subseteq {"ok", "blocked", "unchecked"}
  /\ PollOutcomes # {}
ASSUME WarmUpAssumption == 0 \in Windows /\ WarmsUp
\* The exchange's accounts, which live mode reads at promotion, are not modelled.
ASSUME PaperAssumption == Live = FALSE

VARIABLES
  clock,
  chan,                        \* event_rx
  slot,                        \* slot[w]: the market of window w, -1 for none
  current_window,              \* clone of the CURRENT window, or NoWindow
  next_window,                 \* number of the NEXT window, or -1
  current_sub, next_sub,       \* windows the live subscriptions report, or -1
  next_window_number,
  spot,                        \* spot_price, spot_event_at_ms, spot_received_at_ms
  ptb_locked_windows,
  pending_settlements,         \* pending_settlements[w]: entries of the queue for w
  maintenance,
  maintenance_checked_window,  \* window of the last poll, or -1
  settled_by, settled_at,      \* history: window and PTB that settled w
  pc, job

market   == <<slot, next_window, next_window_number>>
subs     == <<current_sub, next_sub>>
polls    == <<maintenance, maintenance_checked_window>>
history  == <<settled_by, settled_at>>
app      == <<market, subs, spot, ptb_locked_windows, pending_settlements,
              polls, history, current_window>>
vars     == <<ledger, clock, chan, app, pc, job>>

NoWindow == [number |-> -1, status |-> "NONE", ptb |-> 0]
NoSpot   == [price |-> 0, at |-> -1, received |-> -1]
NoJob    == [window |-> -1, price |-> 0, then |-> "loop", signals |-> 0]

\* Clones of window w, as it stands when promoted and later.
LiveCloneOf(w) == [number |-> w, status |-> "LIVE", ptb |-> price_to_beat[w]]
CloneOf(w)     == [LiveCloneOf(w) EXCEPT !.status = status[w]]

Slots    == 0 .. MaxSlot
Start(w) == slot[w] * SlotLen
End(w)   == (slot[w] + 1) * SlotLen

\* (t - now) / 1000 on i64: the quotient is rounded toward zero.
SecsTo(t, now) == IF t >= now THEN (t - now) \div Sec
                              ELSE -((now - t) \div Sec)

TickOf(w, role, quotes) ==
  [kind |-> "MarketTick", window |-> w, role |-> role, quotes |-> quotes,
   price |-> 0, at |-> clock]
SpotAt(price) ==
  [kind |-> "SpotTick", window |-> -1, role |-> "", quotes |-> NoQuotes,
   price |-> price, at |-> clock]

LifecycleInit ==
  /\ LedgerInit
  /\ clock = 0
  /\ chan = <<>>
  /\ slot = [w \in Windows |-> -1]
  /\ current_window = NoWindow
  /\ next_window = -1
  /\ current_sub = -1
  /\ next_sub = -1
  /\ next_window_number = 1
  /\ spot = NoSpot
  /\ ptb_locked_windows = {}
  /\ pending_settlements = [w \in Windows |-> 0]
  /\ maintenance \in PollOutcomes
  /\ maintenance_checked_window = -1
  /\ settled_by = [w \in Windows |-> -1]
  /\ settled_at = [w \in Windows |-> 0]
  /\ pc = "start"
  /\ job = NoJob

-----------------------------------------------------------------------------
(* Time and the feeds                                                      *)

\* Points of a handler at which it awaits, and the loop's own select!.
Awaiting == pc \in {"loop", "discover", "poll"}

PassTime ==
  /\ Awaiting /\ clock < MaxClock
  /\ clock' = clock + 1
  /\ UNCHANGED <<ledger, chan, app, pc, job>>

Send(event) ==
  /\ Awaiting /\ Len(chan) < ChanCap
  /\ chan' = Append(chan, event)
  /\ UNCHANGED <<ledger, clock, app, pc, job>>

\* subscribe_prices: events sent before an abort stay in the channel.
SendTick ==
  \E quotes \in QuoteSet :
    \/ current_sub >= 0 /\ Send(TickOf(current_sub, "CURRENT", quotes))
    \/ next_sub >= 0 /\ Send(TickOf(next_sub, "NEXT", quotes))

\* subscribe_chainlink
SendSpot == \E price \in SpotPrices : Send(SpotAt(price))

-----------------------------------------------------------------------------
(* Discovery                                                               *)

Listed(s) ==
  /\ s \in Slots
  /\ s >= clock \div SlotLen - 1
  /\ s <= clock \div SlotLen + Lookahead

\* discover_initial_markets: a market already under way becomes window #0,
\* which j_endgame only watches.
DiscoverInitial ==
  /\ pc = "start"
  /\ \/ \E ptb \in PublishedPtbs :
          LET s == clock \div SlotLen IN
          /\ Listed(s)
          /\ WarmUp(0, ptb)
          /\ slot' = [slot EXCEPT ![0] = s]
          /\ current_window' = [number |-> 0, status |-> "SKIPPED", ptb |-> ptb]
          /\ current_sub' = 0
     \/ UNCHANGED <<ledger, slot, current_window, current_sub>>
  /\ pc' = "discover"
  /\ UNCHANGED <<clock, chan, next_window, next_window_number, next_sub, spot,
                 ptb_locked_windows, pending_settlements, polls, history, job>>

\* find_next_market: the first market after `after` that is not excluded; a
\* search asks for each slot in a request of its own, and leaves out those
\* whose request fails.
Candidates ==
  LET after == IF current_window.number >= 0
               THEN Start(current_window.number) ELSE clock
      open  == {s \in Slots : /\ Listed(s)
                              /\ s * SlotLen > after
                              /\ \A w \in Windows : slot[w] # s}
  IN  {s \in open : ~RequestsFail => \A t \in open : s <= t}

\* find_and_subscribe_next, entered with no NEXT window.
FindNext ==
  /\ pc = "discover"
  /\ \/ \E s \in Candidates, ptb \in PublishedPtbs :
          LET n == next_window_number IN
          /\ n \in Windows
          /\ CreateWindow(n, ptb)
          /\ slot' = [slot EXCEPT ![n] = s]
          /\ next_window' = n
          /\ next_sub' = n
     \/ UNCHANGED <<ledger, slot, next_window, next_sub>>
  /\ pc' = "loop"
  /\ UNCHANGED <<clock, chan, current_window, current_sub, next_window_number,
                 spot, ptb_locked_windows, pending_settlements, polls, history,
                 job>>

-----------------------------------------------------------------------------
(* Settlement                                                              *)

Queued(w) == pending_settlements[w] > 0

\* queue_window_for_settlement: one entry per window number.
QueueWindow(w) ==
  IF Queued(w)
  THEN UNCHANGED <<ledger, pending_settlements>>
  ELSE /\ MarkPending(w)
       /\ pending_settlements' = [pending_settlements EXCEPT ![w] = @ + 1]

\* pending_matches_next
Contiguous(w, next) == End(w) = Start(next)
Matches(w, next)    == w + 1 = next \/ Contiguous(w, next)

\* The queue without the entry that was settled.
AllQueued(w) == pending_settlements
Dequeued(w)  == [pending_settlements EXCEPT ![w] = @ - 1]

\* try_settle_pending_windows takes the queue, closes every entry that
\* matches the window whose PTB became known and puts the others back.
SettleOne(w) ==
  /\ pc = "settle"
  /\ Queued(w)
  /\ Matches(w, job.window)
  /\ CloseWindow(w, job.price)
  /\ pending_settlements' = Dequeued(w)
  /\ settled_by' = [settled_by EXCEPT ![w] = job.window]
  /\ settled_at' = [settled_at EXCEPT ![w] = job.price]
  /\ UNCHANGED <<clock, chan, market, subs, current_window, spot,
                 ptb_locked_windows, polls, pc, job>>

SettleDone ==
  /\ pc = "settle"
  /\ \A w \in Windows : Queued(w) => ~Matches(w, job.window)
  /\ pc' = job.then
  /\ job' = NoJob
  /\ UNCHANGED <<ledger, clock, chan, app>>

SettleThen(w, ptb, then) ==
  /\ pc' = "settle"
  /\ job' = [window |-> w, price |-> ptb, then |-> then, signals |-> 0]

\* evaluate_ptb_capture
Capturable(price, at) ==
  /\ current_window.number >= 0
  /\ price > 0
  /\ current_window.number \notin ptb_locked_windows
  /\ at >= Start(current_window.number)

Captures(price, at) ==
  /\ Capturable(price, at)
  /\ current_window.ptb = 0 \/ current_window.ptb \in Implausible

CloneUnpriced(price) == current_window
ClonePriced(price)   == [current_window EXCEPT !.ptb = price]

\* Lock the PTB of CURRENT in both copies of the window, then settle with it.
CapturePtb(price, then) ==
  LET w == current_window.number IN
  /\ StorePtb(w, price)
  /\ current_window' = ClonePriced(price)
  /\ ptb_locked_windows' = ptb_locked_windows \cup {w}
  /\ SettleThen(w, price, then)

SpotFresh == spot.price > 0 /\ clock - spot.received <= MaxSpotAge

-----------------------------------------------------------------------------
(* monitor_time                                                            *)

WarmingUp  == current_window.status = "SKIPPED"
Unfinished == current_window.status \in {"LIVE", "SKIPPED"}

\* monitor_time finds NEXT due; promote_next_to_current queues the old
\* CURRENT window and aborts both subscriptions.
BeginPromotion ==
  /\ pc = "loop"
  /\ next_window >= 0
  /\ SecsTo(Start(next_window), clock) <= 0
  /\ IF Unfinished
     THEN QueueWindow(current_window.number)
     ELSE UNCHANGED <<ledger, pending_settlements>>
  /\ current_sub' = -1
  /\ next_sub' = -1
  /\ pc' = "promote"
  /\ UNCHANGED <<clock, chan, market, spot, ptb_locked_windows, polls, history,
                 current_window, job>>

\* NEXT becomes CURRENT and, for j_endgame, always LIVE.  A PTB the market
\* already publishes settles the queue at once.
PromoteNext ==
  LET w == next_window IN
  /\ pc = "promote"
  /\ PromoteWindow(w, TRUE)
  /\ current_window' = LiveCloneOf(w)
  /\ next_window' = -1
  /\ next_window_number' = next_window_number + 1
  /\ IF price_to_beat[w] > 0
     THEN SettleThen(w, price_to_beat[w], "capture")
     ELSE pc' = "capture" /\ UNCHANGED job
  /\ UNCHANGED <<clock, chan, slot, subs, spot, ptb_locked_windows,
                 pending_settlements, polls, history>>

\* The window may have opened already: capture its PTB from the last spot.
CaptureOnPromotion ==
  /\ pc = "capture"
  /\ IF SpotFresh /\ Captures(spot.price, spot.at)
     THEN CapturePtb(spot.price, "subscribe")
     ELSE /\ pc' = "subscribe"
          /\ UNCHANGED <<ledger, current_window, ptb_locked_windows, job>>
  /\ UNCHANGED <<clock, chan, market, subs, spot, pending_settlements, polls,
                 history>>

SubscribeCurrent ==
  /\ pc = "subscribe"
  /\ current_sub' = current_window.number
  /\ pc' = "discover"
  /\ UNCHANGED <<ledger, clock, chan, market, next_sub, spot, current_window,
                 ptb_locked_windows, pending_settlements, polls, history, job>>

\* The rest of monitor_time: the safety close, and another search for NEXT
\* when there is none (at most one in ten seconds: a choice here).
Monitor ==
  /\ pc = "loop"
  /\ next_window >= 0 => SecsTo(Start(next_window), clock) > 0
  /\ IF /\ Unfinished
        /\ SecsTo(End(current_window.number), clock) < -SafetySecs
     THEN /\ QueueWindow(current_window.number)
          /\ current_window' = NoWindow
     ELSE UNCHANGED <<ledger, pending_settlements, current_window>>
  /\ pc' \in (IF next_window = -1 THEN {"loop", "discover"} ELSE {"loop"})
  /\ UNCHANGED <<clock, chan, market, subs, spot, ptb_locked_windows, polls,
                 history, job>>

-----------------------------------------------------------------------------
(* process_event                                                           *)

Receive(kind) ==
  /\ pc = "loop"
  /\ chan # <<>>
  /\ Head(chan).kind = kind
  /\ chan' = Tail(chan)

\* A payload not newer than the last one, or too old or too far ahead.
SpotRejected(event) ==
  \/ event.at <= spot.at
  \/ clock - event.at > MaxSpotAge
  \/ event.at - clock > MaxSpotAge

NeedsPoll ==
  /\ current_window.number > 0
  /\ maintenance_checked_window # current_window.number

SpotTick ==
  LET event == Head(chan)
      rest  == IF NeedsPoll THEN "poll" ELSE "loop"
  IN  /\ Receive("SpotTick")
      /\ IF SpotRejected(event)
         THEN UNCHANGED <<ledger, current_window, ptb_locked_windows, spot, pc, job>>
         ELSE /\ spot' = [price |-> event.price, at |-> event.at, received |-> clock]
              /\ IF Captures(event.price, event.at)
                 THEN CapturePtb(event.price, rest)
                 ELSE /\ pc' = rest
                      /\ UNCHANGED <<ledger, current_window, ptb_locked_windows, job>>
      /\ UNCHANGED <<clock, market, subs, pending_settlements, polls, history>>

\* The status poll a SpotTick ends with, once per window number.
PollMaintenance ==
  /\ pc = "poll"
  /\ maintenance' \in PollOutcomes
  /\ maintenance_checked_window' = current_window.number
  /\ pc' = "loop"
  /\ UNCHANGED <<ledger, clock, chan, market, subs, current_window, spot,
                 ptb_locked_windows, pending_settlements, history, job>>

\* The gates of run_j_endgame_live_tick; the status of the window is not one.
Executable(event) ==
  /\ event.window # 0
  /\ maintenance # "blocked"
  /\ MaxClobAge > 0 => clock - event.at <= MaxClobAge
  /\ \A side \in Sides : event.quotes[side] > 0
  /\ SpotFresh
BeforeEnd(event) == SecsTo(End(event.window), event.at) > 0
MayTrade(event)  == Executable(event) /\ BeforeEnd(event)

\* Only ticks of a CURRENT subscription are given to the strategy.
Trades(event) == event.role = "CURRENT" /\ MayTrade(event)

\* A CURRENT tick re-points current_window at the window it names, whichever
\* subscription sent it, and lets the strategy trade there.
MarketTick ==
  LET event == Head(chan)
      w     == event.window
  IN  /\ Receive("MarketTick")
      /\ StorePrices(w, event.quotes)
      /\ current_window' = IF event.role = "CURRENT"
                           THEN CloneOf(w) ELSE current_window
      /\ IF Trades(event)
         THEN /\ pc' = "trade"
              /\ job' = [window |-> w, price |-> 0, then |-> "loop",
                         signals |-> MaxSignals]
         ELSE UNCHANGED <<pc, job>>
      /\ UNCHANGED <<clock, market, subs, spot, ptb_locked_windows,
                     pending_settlements, polls, history>>

\* execute_j_paper_signal: a buy fills at the best ask, which is not below the
\* bid, and a sale of at least a dollar at the best bid.
PaperBuy(w, side, amount, ask) ==
  /\ amount % ask = 0
  /\ ask >= bid[w][side]
  /\ spent[w] + amount <= MaxSpent
  /\ Buy(w, side, amount, ask)

PaperSell(w, side, amount, price) ==
  /\ price = bid[w][side]
  /\ amount * price >= Unit
  /\ ExecuteSell(w, side, amount, price)

\* execute_strategy_signals: one order of the tick.  The strategy is any choice
\* of orders.
ExecuteSignal ==
  LET w == job.window IN
  /\ pc = "trade" /\ job.signals > 0
  /\ \E side \in Sides, amount \in Amounts, price \in Prices \ {0} :
       PaperBuy(w, side, amount, price) \/ PaperSell(w, side, amount, price)
  /\ job' = [job EXCEPT !.signals = @ - 1]
  /\ UNCHANGED <<clock, chan, app, pc>>

\* No further order, or those left are rejected.
SignalsDone ==
  /\ pc = "trade"
  /\ pc' = "loop"
  /\ job' = NoJob
  /\ UNCHANGED <<ledger, clock, chan, app>>

-----------------------------------------------------------------------------

Handler ==
  \/ DiscoverInitial
  \/ FindNext
  \/ BeginPromotion
  \/ PromoteNext
  \/ CaptureOnPromotion
  \/ SubscribeCurrent
  \/ \E w \in Windows : SettleOne(w)
  \/ SettleDone
  \/ Monitor
  \/ SpotTick
  \/ PollMaintenance
  \/ MarketTick
  \/ ExecuteSignal
  \/ SignalsDone

LifecycleNext == PassTime \/ SendTick \/ SendSpot \/ Handler

LifecycleSpec == LifecycleInit /\ [][LifecycleNext]_vars

-----------------------------------------------------------------------------
(* Properties                                                              *)

\* The range of the loop's variables.
Handlers == {"loop", "capture", "subscribe", "poll"}
Event == [kind : {"MarketTick", "SpotTick"}, window : Windows \cup {-1},
          role : {"CURRENT", "NEXT", ""}, quotes : Quotes,
          price : SpotPrices \cup {0}, at : Nat]
Job   == [window : Windows \cup {-1}, price : PtbValues \cup {0},
          then : Handlers, signals : Nat]
LoopTypeOK ==
  /\ clock \in Nat
  /\ chan \in Seq(Event)
  /\ slot \in [Windows -> Slots \cup {-1}]
  /\ current_window \in [number : Windows \cup {-1}, status : Statuses, ptb : Nat]
  /\ next_window \in Windows \cup {-1}
  /\ current_sub \in Windows \cup {-1}
  /\ next_sub \in Windows \cup {-1}
  /\ next_window_number \in Nat \ {0}
  /\ spot \in [price : SpotPrices \cup {0}, at : Int, received : Int]
  /\ ptb_locked_windows \subseteq Windows
  /\ pending_settlements \in [Windows -> Nat]
  /\ maintenance \in PollOutcomes
  /\ maintenance_checked_window \in Windows \cup {-1}
  /\ settled_by \in [Windows -> Windows \cup {-1}]
  /\ settled_at \in [Windows -> Nat]
  /\ pc \in Handlers \cup {"start", "trade", "promote", "settle", "discover"}
  /\ job \in Job
LifecycleTypeOK ==
  /\ LedgerTypeOK
  /\ price_to_beat \in [Windows -> PtbValues \cup {0}]
  /\ LoopTypeOK

\* Every window waiting for its close price stands in the queue exactly once,
\* and nothing else does: so no window is settled twice, and none is lost
\* between the queue and the ledger.
QueueMatchesLedger ==
  \A w \in Windows :
    pending_settlements[w] = IF status[w] = "PENDING_SETTLEMENT" THEN 1 ELSE 0

\* AppState keeps a clone of the window it calls CURRENT.  Whenever a handler
\* decides by the clone, it says what the ledger says, whatever ticks of other
\* windows, captures and promotions came before.
CloneIsCurrent ==
  current_window.number >= 0 /\ pc # "promote" =>
    /\ current_window.status = status[current_window.number]
    /\ current_window.ptb = price_to_beat[current_window.number]

\* Numbers are given out in order: the NEXT window is the highest one, still
\* waiting, and only the warm-up window 0 is ever SKIPPED.
NumbersInOrder ==
  /\ \A w \in Windows : w > next_window_number => status[w] = "NONE"
  /\ IF next_window >= 0
     THEN next_window = next_window_number /\ status[next_window] = "WAITING_ENTRY"
     ELSE \A w \in Windows : w >= next_window_number => status[w] = "NONE"
  /\ \A w \in Windows : status[w] = "SKIPPED" => w = 0
  /\ pc = "start" => \A w \in Windows : status[w] = "NONE"

\* What the subscriptions and the channel name: a tick, however late, is of a
\* window the ledger knows, and one with the CURRENT role of a promoted one.
Wellformed(event) ==
  IF event.kind = "SpotTick"
  THEN event.price # 0
  ELSE /\ event.window \in Windows
       /\ Known(event.window)
       /\ event.role = "CURRENT" => event.window \in Promoted
TicksOfKnownWindows ==
  /\ current_sub >= 0 => current_sub \in Promoted
  /\ next_sub >= 0 => Known(next_sub)
  /\ \A i \in 1 .. Len(chan) : Wellformed(chan[i])

\* What a handler under way still has to do.
HandlerState ==
  /\ current_window = NoWindow \/ current_window.number \in Promoted
  /\ pc = "promote" => next_window >= 0
  /\ pc \in {"capture", "subscribe"} => current_window.number >= 0
  /\ pc \in {"start", "capture", "subscribe", "discover"} => next_window = -1
  /\ pc = "settle" =>
       /\ job.price # 0
       /\ job.window >= 0 /\ job.window = current_window.number
       /\ job.then \in {"capture", "subscribe"} => next_window = -1
  /\ pc = "trade" => job.window > 0 /\ job.window = current_window.number

\* The inductive invariant behind the theorems of WindowLifecycle_proofs.
LifecycleInv ==
  /\ LifecycleTypeOK
  /\ QueueMatchesLedger
  /\ CloneIsCurrent
  /\ NumbersInOrder
  /\ TicksOfKnownWindows
  /\ HandlerState

\* The price a window was closed at is the PTB its successor is itself judged
\* against: it is not captured again or replaced afterwards.
SettlementPriceStands ==
  \A w \in Windows :
    settled_by[w] >= 0 => settled_at[w] = price_to_beat[settled_by[w]]

\* What makes it so when no published PTB is implausible: a PTB is captured where
\* there was none, before it settles anything, and is locked from then on; the one
\* being applied is the one the ledger holds.
SettlersPriced ==
  \A w \in Windows :
    settled_by[w] >= 0 => /\ settled_by[w] \in Promoted
                          /\ price_to_beat[settled_by[w]] > 0
AppliedPriceHeld == pc = "settle" => job.price = price_to_beat[job.window]
ImplausibleLocked ==
  \A w \in Windows :
    price_to_beat[w] > 0 /\ price_to_beat[w] \in Implausible => w \in ptb_locked_windows
PricesStand ==
  SettlementPriceStands /\ SettlersPriced /\ AppliedPriceHeld /\ ImplausibleLocked

\* The session's profit is the sum over the closed windows: nothing is traded
\* in a window after it was closed, when no later close could count it.
PnlMatchesClosed ==
  LET closed == {w \in Windows : status[w] = "CLOSED_TIME"}
  IN  overall_realized_pnl = SumFunctionOnSet(cash_returned, closed)
                             - SumFunctionOnSet(spent, closed)

\* What discovery does unless a request fails or the loop returned to a window it had
\* left: a window is of a later slot than those numbered before it.
SlotsInOrder ==
  \A v, w \in Windows : v < w /\ Known(v) /\ Known(w) => slot[v] < slot[w]

\* What then makes it so when no PTB is published: events are handled in the order
\* they were sent, a window settles on spot of its successor's time, and a tick sent
\* before its end was handled before that spot.
EventsInOrder ==
  /\ spot.at <= clock
  /\ \A i \in 1 .. Len(chan) : spot.at <= chan[i].at /\ chan[i].at <= clock
  /\ \A i, j \in 1 .. Len(chan) : i <= j => chan[i].at <= chan[j].at
SettledBySpot ==
  /\ \A w \in Windows : w \notin Promoted => price_to_beat[w] = 0
  /\ pc = "settle" => Start(job.window) <= spot.at
  /\ \A w \in Windows : status[w] = "CLOSED_TIME" => End(w) <= spot.at
  /\ pc = "trade" => status[job.window] # "CLOSED_TIME"
ProfitInv == EventsInOrder /\ SettledBySpot /\ PnlMatchesClosed

\* What makes the next property so: a window is promoted less than a second ahead of its start,
\* and an order is under way for a young tick of a time before its end.
HandlersInTime ==
  /\ \A w \in Promoted : clock > Start(w) - Sec
  /\ pc = "promote" => clock > Start(next_window) - Sec
  /\ pc = "trade" /\ MaxClobAge > 0 => clock <= End(job.window) - Sec + MaxClobAge

\* An order is booked only around the life of its window: after its promotion,
\* which comes less than a second before its start, and, with an age limit, no
\* later than that limit allows a tick sent a second before its end.
OrdersNearWindow ==
  [][\A w \in Windows : spent'[w] > spent[w] =>
       /\ clock > Start(w) - Sec
       /\ MaxClobAge > 0 => clock <= End(w) - Sec + MaxClobAge]_vars

\* A window waiting for its close price has not missed it: while it waits, its
\* successor's PTB is unknown, or is being applied right now.  (CLOB ticks that
\* outlive their window break this: see OneLiveWindow.)
SettlementNotMissed ==
  \A w \in Windows, next \in Promoted :
    /\ status[w] = "PENDING_SETTLEMENT"
    /\ next = w + 1
    /\ price_to_beat[next] > 0
    => pc = "settle" /\ job.window = next

-----------------------------------------------------------------------------
(* What a comment says and the loop does not do                            *)

\* "Queue old CURRENT window for settlement" when its successor is promoted:
\* at most one window is ever LIVE.
OneLiveWindow ==
  \A v, w \in Windows : status[v] = "LIVE" /\ status[w] = "LIVE" => v = w

\* What both rest on: with no CLOB ticks the loop never leaves the window it
\* promoted last, and a window goes LIVE only when the one before was queued.
OnlySpotEvents  == \A i \in 1 .. Len(chan) : chan[i].kind = "SpotTick"
CurrentIsNewest ==
  /\ current_window.number >= 0 => current_window.number + 1 = next_window_number
  /\ pc = "start" => next_window_number = 1
OnlyCurrentLive ==
  \A w \in Windows : status[w] = "LIVE" => w = current_window.number /\ pc # "promote"
SilentInv ==
  OnlySpotEvents /\ CurrentIsNewest /\ OnlyCurrentLive /\ SettlementNotMissed
=============================================================================
