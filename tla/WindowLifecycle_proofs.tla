----------------------- MODULE WindowLifecycle_proofs -----------------------
(***************************************************************************)
(* What TLAPS proves of the event loop, for every number of windows and    *)
(* slots, every length of a window, every age limit and every length of    *)
(* the channel: LifecycleInv is inductive, and every step of the loop is a *)
(* step of the abstract ledger or leaves the ledger as it is.  The last    *)
(* theorem is about the sessions of MCSessions, for the same constants.    *)
(***************************************************************************)
EXTENDS MCSessions, Portfolio_proofs, SequenceTheorems

LEMMA WindowNumbers == \A w \in Windows : w \in Nat /\ w >= 0
  BY WindowsAssumption

-----------------------------------------------------------------------------
(* Events                                                                  *)

\* An event once well formed stays so: windows stay known, and promoted.
WindowsKept == /\ Promoted \subseteq Promoted'
               /\ \A w \in Windows : Known(w) => Known(w)'

LEMMA EventsKept ==
  ASSUME WindowsKept, NEW event, Wellformed(event)
  PROVE  Wellformed(event)'
  BY DEF WindowsKept, Wellformed

\* Receiving takes a well-formed event out of the channel and leaves the others.
LEMMA Receiving ==
  ASSUME LifecycleInv, NEW kind, Receive(kind)
  PROVE  /\ Head(chan) \in Event
         /\ Wellformed(Head(chan))
         /\ Head(chan).kind = kind
         /\ chan' \in Seq(Event)
         /\ \A i \in 1 .. Len(chan') : Wellformed(chan'[i])
  <1>1. chan \in Seq(Event) /\ chan # <<>> /\ chan' = Tail(chan)
    BY DEF LifecycleInv, LifecycleTypeOK, LoopTypeOK, Receive
  <1>2. /\ Head(chan) \in Event
        /\ Tail(chan) \in Seq(Event)
        /\ Len(Tail(chan)) = Len(chan) - 1
        /\ \A i \in 1 .. Len(Tail(chan)) : Tail(chan)[i] = chan[i+1]
    BY <1>1, HeadTailProperties
  <1>3. Len(chan) \in Nat /\ Len(chan) > 0 /\ Head(chan) = chan[1]
    BY <1>1
  <1>4. \A i \in 1 .. Len(chan) : Wellformed(chan[i])
    BY DEF LifecycleInv, TicksOfKnownWindows
  <1>5. ASSUME NEW i \in 1 .. Len(chan')
        PROVE  Wellformed(chan'[i])
    <2>1. i + 1 \in 1 .. Len(chan) /\ chan'[i] = chan[i+1]
      BY <1>1, <1>2, <1>3
    <2> QED BY <2>1, <1>4
  <1>6. Wellformed(Head(chan))
    BY <1>3, <1>4
  <1> QED BY <1>1, <1>2, <1>5, <1>6 DEF Receive

-----------------------------------------------------------------------------
(* Every step of the loop is a step of the ledger                          *)

LEMMA QueueWindowRefines ==
  ASSUME LifecycleInv, Unfinished, pc = "loop",
         QueueWindow(current_window.number)
  PROVE  /\ current_window.number \in Windows
         /\ status[current_window.number] = current_window.status
         /\ ~Queued(current_window.number)
         /\ Queue(current_window.number)
  <1>1. current_window.number \in Windows /\ current_window.number >= 0
    <2>1. current_window # NoWindow
      BY DEF Unfinished, NoWindow
    <2>2. current_window.number \in Windows
      BY <2>1 DEF LifecycleInv, HandlerState, Promoted
    <2> QED BY <2>2, WindowNumbers
  <1>2. status[current_window.number] = current_window.status
    BY <1>1 DEF LifecycleInv, CloneIsCurrent
  <1>3. pending_settlements[current_window.number] = 0
    BY <1>1, <1>2 DEF LifecycleInv, QueueMatchesLedger, Unfinished
  <1> QED BY <1>1, <1>2, <1>3 DEF QueueWindow, Queued, Queue, Unfinished

LEMMA DiscoverInitialRefines ==
  ASSUME LifecycleInv, DiscoverInitial
  PROVE  [LedgerNext]_ledger
  <1>1. ASSUME NEW ptb \in PublishedPtbs, WarmUp(0, ptb)
        PROVE  LedgerNext
    <2>1. 0 \in Windows /\ ~Known(0) /\ ptb \in PtbValues \cup {0}
      BY WarmUpAssumption, FeedAssumption
         DEF LifecycleInv, NumbersInOrder, Known, DiscoverInitial
    <2>2. Open(0)
      BY <1>1, <2>1, WarmUpAssumption DEF Open, Watch, StartWindow
    <2> QED BY <2>1, <2>2 DEF LedgerNext
  <1> QED BY <1>1 DEF DiscoverInitial

LEMMA FindNextRefines ==
  ASSUME LifecycleInv, FindNext
  PROVE  [LedgerNext]_ledger
  <1>1. ASSUME NEW ptb \in PublishedPtbs, next_window_number \in Windows,
               CreateWindow(next_window_number, ptb)
        PROVE  LedgerNext
    <2>1. ~Known(next_window_number) /\ ptb \in PtbValues \cup {0}
      BY <1>1, FeedAssumption, WindowsAssumption
         DEF LifecycleInv, NumbersInOrder, HandlerState, Known, FindNext
    <2>2. next_window_number # StartWindow
      BY DEF LifecycleInv, LifecycleTypeOK, LoopTypeOK, StartWindow
    <2>3. Open(next_window_number)
      BY <1>1, <2>1, <2>2 DEF Open
    <2> QED BY <1>1, <2>3 DEF LedgerNext
  <1> QED BY <1>1 DEF FindNext

LEMMA BeginPromotionRefines ==
  ASSUME LifecycleInv, BeginPromotion
  PROVE  [LedgerNext]_ledger
  BY QueueWindowRefines DEF BeginPromotion, LedgerNext

LEMMA MonitorRefines ==
  ASSUME LifecycleInv, Monitor
  PROVE  [LedgerNext]_ledger
  BY QueueWindowRefines DEF Monitor, LedgerNext

LEMMA PromoteNextRefines ==
  ASSUME LifecycleInv, PromoteNext
  PROVE  /\ LedgerNext
         /\ next_window \in Windows
         /\ status[next_window] = "WAITING_ENTRY"
         /\ next_window = next_window_number
  <1>1. /\ next_window \in Windows
        /\ status[next_window] = "WAITING_ENTRY"
        /\ next_window = next_window_number
    BY DEF LifecycleInv, LifecycleTypeOK, LoopTypeOK, HandlerState,
           NumbersInOrder, PromoteNext
  <1>2. Promote(next_window)
    BY <1>1 DEF Promote, PromoteNext
  <1> QED BY <1>1, <1>2 DEF LedgerNext

LEMMA SettleOneRefines ==
  ASSUME LifecycleInv, NEW w \in Windows, SettleOne(w)
  PROVE  LedgerNext /\ status[w] = "PENDING_SETTLEMENT"
  <1>1. status[w] = "PENDING_SETTLEMENT"
    BY DEF LifecycleInv, QueueMatchesLedger, SettleOne, Queued
  <1>2. job.price \in PtbValues
    BY DEF LifecycleInv, LifecycleTypeOK, LoopTypeOK, Job, HandlerState, SettleOne
  <1>3. Settle(w)
    BY <1>1, <1>2 DEF Settle, SettleOne
  <1> QED BY <1>1, <1>3 DEF LedgerNext

LEMMA CapturePtbRefines ==
  ASSUME LifecycleInv, NEW price, NEW at, NEW then,
         price \in SpotPrices \cup {0},
         Captures(price, at), CapturePtb(price, then)
  PROVE  /\ LedgerNext
         /\ price \in PtbValues
         /\ current_window.number \in Windows
         /\ current_window.number \in Promoted
  <1>1. price \in PtbValues
    BY FeedAssumption, InputsAssumption DEF Captures, Capturable
  <1>2. /\ current_window.number \in Promoted
        /\ current_window.number \in Windows
    BY DEF Captures, Capturable, LifecycleInv, HandlerState, NoWindow, Promoted
  <1>3. FixPtb(current_window.number)
    BY <1>1, <1>2 DEF FixPtb, CapturePtb, Known, Promoted
  <1> QED BY <1>1, <1>2, <1>3 DEF LedgerNext

LEMMA CaptureOnPromotionRefines ==
  ASSUME LifecycleInv, CaptureOnPromotion
  PROVE  [LedgerNext]_ledger
  <1>1. spot.price \in SpotPrices \cup {0}
    BY DEF LifecycleInv, LifecycleTypeOK, LoopTypeOK
  <1> QED BY <1>1, CapturePtbRefines DEF CaptureOnPromotion

LEMMA SpotTickRefines ==
  ASSUME LifecycleInv, SpotTick
  PROVE  [LedgerNext]_ledger
  <1> DEFINE event == Head(chan)
             rest  == IF NeedsPoll THEN "poll" ELSE "loop"
  <1>1. event.price \in SpotPrices \cup {0}
    BY Receiving DEF SpotTick, Event
  <1>2. CASE Captures(event.price, event.at) /\ CapturePtb(event.price, rest)
    <2> HIDE DEF event, rest
    <2> QED BY <1>1, <1>2, CapturePtbRefines
  <1> QED BY <1>2 DEF SpotTick

LEMMA MarketTickRefines ==
  ASSUME LifecycleInv, MarketTick
  PROVE  LedgerNext
  <1> DEFINE event == Head(chan)
  <1>1. /\ event.window \in Windows /\ Known(event.window)
        /\ event.quotes \in Quotes
    <2>1. event \in Event /\ Wellformed(event) /\ event.kind = "MarketTick"
      BY Receiving DEF MarketTick
    <2> HIDE DEF event
    <2> QED BY <2>1 DEF Wellformed, Event
  <1>2. StorePrices(event.window, event.quotes)
    BY DEF MarketTick
  <1> HIDE DEF event
  <1> QED BY <1>1, <1>2 DEF Quote, LedgerNext

\* An order of a tick does not disturb what the loop knows of the window: its
\* status is not one a buy changes.
LEMMA ExecuteSignalRefines ==
  ASSUME LifecycleInv, ExecuteSignal
  PROVE  LedgerNext /\ status' = status /\ price_to_beat' = price_to_beat
  <1> DEFINE w == job.window
  <1>1. /\ w \in Windows /\ w > 0
        /\ w \in Promoted
        /\ status[w] \in {"LIVE", "PENDING_SETTLEMENT", "CLOSED_TIME"}
    BY DEF LifecycleInv, HandlerState, NumbersInOrder, ExecuteSignal, Promoted,
           NoWindow
  <1>2. PICK side \in Sides, amount \in Amounts, price \in Prices \ {0} :
          PaperBuy(w, side, amount, price) \/ PaperSell(w, side, amount, price)
    BY DEF ExecuteSignal
  <1> HIDE DEF w
  <1>3. Trade(w)
    BY <1>2 DEF Trade, PaperBuy, PaperSell
  <1>4. CASE PaperBuy(w, side, amount, price)
    <2>1. status' = [status EXCEPT ![w] = StatusAfterBuy(w)]
      BY <1>4 DEF PaperBuy, Buy, ExecuteBuy, RecordExternalBuy, BookBuy
    <2>2. StatusAfterBuy(w) = status[w] /\ status \in [Windows -> Statuses]
      BY <1>1 DEF StatusAfterBuy, LifecycleInv, LifecycleTypeOK, LedgerTypeOK
    <2>3. price_to_beat' = price_to_beat
      BY <1>4 DEF PaperBuy, Buy, ExecuteBuy, RecordExternalBuy, BookBuy
    <2> QED BY <1>1, <1>3, <2>1, <2>2, <2>3 DEF LedgerNext
  <1>5. CASE PaperSell(w, side, amount, price)
    <2>1. status' = status /\ price_to_beat' = price_to_beat
      BY <1>5 DEF PaperSell, ExecuteSell, Sell
    <2> QED BY <1>1, <1>3, <2>1 DEF LedgerNext
  <1> QED BY <1>2, <1>4, <1>5

\* Every step of the loop is one the ledger's protocol allows.
LEMMA Refinement ==
  ASSUME LifecycleInv, LifecycleNext
  PROVE  [LedgerNext]_ledger
  <1>1. CASE PassTime \/ SendTick \/ SendSpot
    BY <1>1 DEF PassTime, SendTick, SendSpot, Send
  <1>2. CASE SubscribeCurrent \/ SettleDone \/ PollMaintenance \/ SignalsDone
    BY <1>2 DEF SubscribeCurrent, SettleDone, PollMaintenance, SignalsDone
  <1> QED
    BY <1>1, <1>2, DiscoverInitialRefines, FindNextRefines,
       BeginPromotionRefines, MonitorRefines, PromoteNextRefines,
       SettleOneRefines, CaptureOnPromotionRefines, SpotTickRefines,
       MarketTickRefines, ExecuteSignalRefines
       DEF LifecycleNext, Handler

-----------------------------------------------------------------------------
(* The invariant is inductive: parts that no action may disturb            *)

LEMMA StatusesKept ==
  ASSUME LedgerTypeOK, [LedgerNext]_ledger
  PROVE  WindowsKept
  <1>1. CASE status' = status
    BY <1>1 DEF WindowsKept, Promoted, Known
  <1>2. ASSUME NEW w \in Windows, NEW st \in Statuses,
               status' = [status EXCEPT ![w] = st], StatusMove(w, st)
        PROVE  WindowsKept
    <2>1. \A v \in Windows \ {w} : status'[v] = status[v]
      BY <1>2 DEF LedgerTypeOK
    <2>2. status'[w] = st
      BY <1>2 DEF LedgerTypeOK
    <2>3. w \in Promoted => st \in {"LIVE", "SKIPPED", "PENDING_SETTLEMENT", "CLOSED_TIME"}
      BY <1>2 DEF StatusMove, StatusAfterBuy, Marked, Promoted
    <2>4. Known(w) => st # "NONE"
      BY <1>2 DEF StatusMove, StatusAfterBuy, Marked, Known
    <2> QED BY <2>1, <2>2, <2>3, <2>4 DEF WindowsKept, Promoted, Known
  <1>3. CASE UNCHANGED ledger
    BY <1>1, <1>3 DEF ledger
  <1> QED BY <1>1, <1>2, <1>3, StatusSteps

\* What the ledger keeps in every step of the loop.
LEMMA LedgerKept ==
  ASSUME LifecycleInv, LifecycleNext
  PROVE  LedgerTypeOK' /\ WindowsKept
  BY Refinement, LedgerTypeStep, StatusesKept DEF LifecycleInv, LifecycleTypeOK

\* Events that stay in the channel stay well formed.
LEMMA ChannelKept ==
  ASSUME LifecycleInv, WindowsKept, UNCHANGED chan
  PROVE  \A i \in 1 .. Len(chan') : Wellformed(chan[i])'
  <1>1. \A i \in 1 .. Len(chan') : Wellformed(chan'[i])
    BY DEF LifecycleInv, TicksOfKnownWindows
  <1> QED BY <1>1 DEF Wellformed, WindowsKept

\* The loop's own part of an event sent to the channel.
LEMMA SendInv ==
  ASSUME LifecycleInv, NEW event \in Event, Wellformed(event), Send(event)
  PROVE  LifecycleInv'
  <1>1. chan \in Seq(Event) /\ chan' = Append(chan, event)
    BY DEF LifecycleInv, LifecycleTypeOK, LoopTypeOK, Send
  <1>2. /\ chan' \in Seq(Event)
        /\ Len(chan') = Len(chan) + 1
        /\ \A i \in 1 .. Len(chan) : chan'[i] = chan[i]
        /\ chan'[Len(chan) + 1] = event
    BY <1>1, AppendProperties
  <1>3. \A i \in 1 .. Len(chan) : Wellformed(chan[i])
    BY DEF LifecycleInv, TicksOfKnownWindows
  <1>4. \A i \in 1 .. Len(chan') : Wellformed(chan'[i])
    BY <1>1, <1>2, <1>3
  <1>5. status' = status
    BY DEF Send, ledger
  <1>6. LifecycleTypeOK'
    BY <1>2, ZenonT(40) DEF LifecycleInv, LifecycleTypeOK, LoopTypeOK, LedgerTypeOK, Send,
                ledger, app, market, subs, polls, history
  <1>7. TicksOfKnownWindows'
    <2>1. \A i \in 1 .. Len(chan') : Wellformed(chan[i])'
      BY <1>4, <1>5 DEF Wellformed, Known, Promoted
    <2> QED BY <1>5, <2>1
            DEF LifecycleInv, TicksOfKnownWindows, Send, app, subs, Known, Promoted
  <1>8. QueueMatchesLedger' /\ CloneIsCurrent' /\ NumbersInOrder' /\ HandlerState'
    BY DEF LifecycleInv, QueueMatchesLedger, CloneIsCurrent, NumbersInOrder,
           HandlerState, Send, ledger, app, market, Known, Promoted
  <1> QED BY <1>6, <1>7, <1>8 DEF LifecycleInv

LEMMA PassTimeInv ==
  ASSUME LifecycleInv, PassTime
  PROVE  LifecycleInv'
  <1>1. status' = status /\ chan' = chan
    BY DEF PassTime, ledger
  <1>2. LifecycleTypeOK'
    <2>1. clock' \in Nat
      BY DEF LifecycleInv, LifecycleTypeOK, LoopTypeOK, PassTime
    <2> QED
      BY <2>1, ZenonT(40)
         DEF LifecycleInv, LifecycleTypeOK, LoopTypeOK, LedgerTypeOK,
             PassTime, ledger, app, market, subs, polls, history
  <1>3. TicksOfKnownWindows'
    BY <1>1 DEF LifecycleInv, TicksOfKnownWindows, PassTime, app, subs, Wellformed,
                Known, Promoted
  <1>4. QueueMatchesLedger' /\ CloneIsCurrent' /\ NumbersInOrder' /\ HandlerState'
    BY DEF LifecycleInv, QueueMatchesLedger, CloneIsCurrent, NumbersInOrder,
           HandlerState, PassTime, ledger, app, market, Known, Promoted
  <1> QED BY <1>2, <1>3, <1>4 DEF LifecycleInv

LEMMA SendTickInv ==
  ASSUME LifecycleInv, SendTick
  PROVE  LifecycleInv'
  <1>1. ASSUME NEW w \in Windows, NEW role \in {"CURRENT", "NEXT"},
               NEW quotes \in QuoteSet, Known(w),
               role = "CURRENT" => w \in Promoted,
               Send(TickOf(w, role, quotes))
        PROVE  LifecycleInv'
    <2>1. quotes \in Quotes /\ clock \in Nat
      BY FeedAssumption DEF LifecycleInv, LifecycleTypeOK, LoopTypeOK
    <2>2. TickOf(w, role, quotes) \in Event
      BY <2>1 DEF TickOf, Event
    <2>3. Wellformed(TickOf(w, role, quotes))
      BY <1>1 DEF TickOf, Wellformed
    <2> QED BY <1>1, <2>2, <2>3, SendInv
  <1>2. /\ current_sub >= 0 => current_sub \in Promoted /\ current_sub \in Windows
                               /\ Known(current_sub)
        /\ next_sub >= 0 => Known(next_sub) /\ next_sub \in Windows
    BY DEF LifecycleInv, TicksOfKnownWindows, LifecycleTypeOK, LoopTypeOK,
           Promoted, Known
  <1> QED BY <1>1, <1>2 DEF SendTick

LEMMA SendSpotInv ==
  ASSUME LifecycleInv, SendSpot
  PROVE  LifecycleInv'
  <1>1. PICK price \in SpotPrices : Send(SpotAt(price))
    BY DEF SendSpot
  <1>2. price # 0 /\ clock \in Nat /\ NoQuotes \in Quotes
    BY FeedAssumption, InputsAssumption
       DEF LifecycleInv, LifecycleTypeOK, LoopTypeOK, NoQuotes, Quotes
  <1>3. SpotAt(price) \in Event /\ Wellformed(SpotAt(price))
    BY <1>2 DEF SpotAt, Event, Wellformed
  <1> QED BY <1>1, <1>3, SendInv

-----------------------------------------------------------------------------
(* Discovery                                                               *)

LEMMA DiscoverInitialInv ==
  ASSUME LifecycleInv, DiscoverInitial
  PROVE  LifecycleInv'
  <1>1. LedgerTypeOK' /\ WindowsKept
    BY LedgerKept DEF LifecycleNext, Handler
  <1>2. CASE UNCHANGED <<ledger, slot, current_window, current_sub>>
    <2>1. LifecycleTypeOK'
      BY <1>1, <1>2 DEF LifecycleInv, LifecycleTypeOK, LoopTypeOK,
                        DiscoverInitial, ledger, polls, history, Handlers
    <2>2. TicksOfKnownWindows'
      BY <1>1, <1>2, ChannelKept
         DEF LifecycleInv, TicksOfKnownWindows, DiscoverInitial, ledger,
             Known, Promoted
    <2>3. /\ QueueMatchesLedger' /\ CloneIsCurrent' /\ NumbersInOrder'
          /\ HandlerState'
      BY <1>2 DEF LifecycleInv, QueueMatchesLedger, CloneIsCurrent, NumbersInOrder,
             HandlerState, DiscoverInitial, ledger, Known, Promoted
    <2> QED BY <2>1, <2>2, <2>3 DEF LifecycleInv
  <1>3. ASSUME NEW ptb \in PublishedPtbs, NEW s \in Slots, WarmUp(0, ptb),
               slot' = [slot EXCEPT ![0] = s],
               current_window' = [number |-> 0, status |-> "SKIPPED", ptb |-> ptb],
               current_sub' = 0
        PROVE  LifecycleInv'
    <2>1. /\ 0 \in Windows /\ ptb \in PtbValues \cup {0} /\ ptb \in Nat
          /\ status[0] = "NONE"
      BY WarmUpAssumption, FeedAssumption, InputsAssumption
         DEF LifecycleInv, NumbersInOrder, DiscoverInitial
    <2>2. /\ status' = [status EXCEPT ![0] = "SKIPPED"]
          /\ price_to_beat' = [price_to_beat EXCEPT ![0] = ptb]
          /\ status \in [Windows -> Statuses]
          /\ price_to_beat \in [Windows -> PtbValues \cup {0}]
      BY <1>3 DEF WarmUp, LifecycleInv, LifecycleTypeOK, LedgerTypeOK
    <2>3. LifecycleTypeOK'
      <3>1. current_window' \in [number : Windows \cup {-1}, status : Statuses, ptb : Nat]
        BY <1>3, <2>1 DEF Statuses
      <3> QED
        BY <1>1, <1>3, <2>1, <2>2, <3>1
           DEF LifecycleInv, LifecycleTypeOK, LoopTypeOK, DiscoverInitial, polls,
               history, Handlers
    <2>4. TicksOfKnownWindows'
      BY <1>1, <1>3, <2>1, <2>2, ChannelKept, SMTT(30)
         DEF LifecycleInv, TicksOfKnownWindows, DiscoverInitial, WindowsKept,
             Known, Promoted, LifecycleTypeOK, LoopTypeOK
    <2>5. QueueMatchesLedger' /\ CloneIsCurrent'
      BY <1>3, <2>1, <2>2
         DEF LifecycleInv, QueueMatchesLedger, CloneIsCurrent, DiscoverInitial
    <2>6. NumbersInOrder' /\ HandlerState'
      BY <1>3, <2>1, <2>2
         DEF LifecycleInv, NumbersInOrder, HandlerState, DiscoverInitial,
             Promoted, LifecycleTypeOK, LoopTypeOK, NoWindow
    <2> QED BY <2>3, <2>4, <2>5, <2>6 DEF LifecycleInv
  <1> QED BY <1>2, <1>3 DEF DiscoverInitial, Listed

LEMMA FindNextInv ==
  ASSUME LifecycleInv, FindNext
  PROVE  LifecycleInv'
  <1>1. LedgerTypeOK' /\ WindowsKept
    BY LedgerKept DEF LifecycleNext, Handler
  <1>2. CASE UNCHANGED <<ledger, slot, next_window, next_sub>>
    <2>1. LifecycleTypeOK'
      BY <1>1, <1>2 DEF LifecycleInv, LifecycleTypeOK, LoopTypeOK,
                        FindNext, ledger, polls, history, Handlers
    <2>2. TicksOfKnownWindows'
      BY <1>1, <1>2, ChannelKept
         DEF LifecycleInv, TicksOfKnownWindows, FindNext, ledger, Known, Promoted
    <2>3. /\ QueueMatchesLedger' /\ CloneIsCurrent' /\ NumbersInOrder'
          /\ HandlerState'
      BY <1>2 DEF LifecycleInv, QueueMatchesLedger, CloneIsCurrent, NumbersInOrder,
             HandlerState, FindNext, ledger, Known, Promoted
    <2> QED BY <2>1, <2>2, <2>3 DEF LifecycleInv
  <1> DEFINE n == next_window_number
  <1>3. ASSUME NEW ptb \in PublishedPtbs, NEW s \in Slots, n \in Windows,
               CreateWindow(n, ptb), slot' = [slot EXCEPT ![n] = s],
               next_window' = n, next_sub' = n
        PROVE  LifecycleInv'
    <2>1. ptb \in PtbValues \cup {0} /\ status[n] = "NONE" /\ n \in Nat
      BY <1>3, WindowNumbers, FeedAssumption
         DEF LifecycleInv, NumbersInOrder, HandlerState, FindNext
    <2>2. /\ status' = [status EXCEPT ![n] = "WAITING_ENTRY"]
          /\ price_to_beat' = [price_to_beat EXCEPT ![n] = ptb]
          /\ status \in [Windows -> Statuses]
          /\ price_to_beat \in [Windows -> PtbValues \cup {0}]
      BY <1>3 DEF CreateWindow, LifecycleInv, LifecycleTypeOK, LedgerTypeOK
    <2>3. LifecycleTypeOK'
      BY <1>1, <1>3, <2>1, <2>2
         DEF LifecycleInv, LifecycleTypeOK, LoopTypeOK, FindNext, polls,
             history, Handlers
    <2>4. TicksOfKnownWindows'
      BY <1>1, <1>3, <2>1, <2>2, ChannelKept
         DEF LifecycleInv, TicksOfKnownWindows, FindNext, WindowsKept,
             Known, Promoted
    <2>5. QueueMatchesLedger'
      BY <1>3, <2>1, <2>2 DEF LifecycleInv, QueueMatchesLedger, FindNext
    <2>6. CloneIsCurrent'
      BY <1>3, <2>1, <2>2
         DEF LifecycleInv, CloneIsCurrent, FindNext, HandlerState, NoWindow, Promoted
    <2>7. NumbersInOrder'
      BY <1>3, <2>1, <2>2
         DEF LifecycleInv, NumbersInOrder, HandlerState, FindNext
    <2>8. HandlerState'
      BY <1>1, <1>3, <2>1, <2>2
         DEF LifecycleInv, HandlerState, FindNext, WindowsKept, NoWindow
    <2> QED BY <2>3, <2>4, <2>5, <2>6, <2>7, <2>8 DEF LifecycleInv
  <1> QED BY <1>2, <1>3 DEF FindNext, Candidates

-----------------------------------------------------------------------------
(* Promotion                                                               *)

\* A promoted window that is queued or closed does not disturb the numbers.
LEMMA NumbersKept ==
  ASSUME LifecycleInv, NEW w \in Windows, status[w] \notin {"NONE", "WAITING_ENTRY"},
         NEW st, st \notin {"NONE", "SKIPPED"},
         status' = [status EXCEPT ![w] = st],
         UNCHANGED <<next_window, next_window_number>>, pc' # "start"
  PROVE  NumbersInOrder'
  <1>1. status'[w] = st /\ \A v \in Windows \ {w} : status'[v] = status[v]
    BY DEF LifecycleInv, LifecycleTypeOK, LedgerTypeOK
  <1>2. next_window \in Windows \cup {-1} /\ ~(-1 >= 0)
    BY DEF LifecycleInv, LifecycleTypeOK, LoopTypeOK
  <1> QED BY <1>1, <1>2 DEF LifecycleInv, NumbersInOrder

\* Queueing the current window leaves the queue and the numbers in order.
LEMMA QueueWindowKeeps ==
  ASSUME LifecycleInv, Unfinished, pc = "loop",
         QueueWindow(current_window.number)
  PROVE  /\ pending_settlements' \in [Windows -> Nat]
         /\ price_to_beat' = price_to_beat
         /\ status' = [status EXCEPT ![current_window.number] = "PENDING_SETTLEMENT"]
         /\ status[current_window.number] \in {"LIVE", "SKIPPED"}
         /\ QueueMatchesLedger'
  <1> DEFINE w == current_window.number
  <1>1. /\ w \in Windows /\ ~Queued(w)
        /\ status[w] \in {"LIVE", "SKIPPED"}
    BY QueueWindowRefines DEF Unfinished
  <1>2. /\ MarkPending(w)
        /\ pending_settlements' = [pending_settlements EXCEPT ![w] = @ + 1]
    BY <1>1 DEF QueueWindow
  <1>3. /\ status \in [Windows -> Statuses]
        /\ pending_settlements \in [Windows -> Nat]
        /\ \A v \in Windows : pending_settlements[v]
                               = IF status[v] = "PENDING_SETTLEMENT" THEN 1 ELSE 0
    BY DEF LifecycleInv, LifecycleTypeOK, LoopTypeOK, LedgerTypeOK, QueueMatchesLedger
  <1>4. /\ status' = [status EXCEPT ![w] = "PENDING_SETTLEMENT"]
        /\ price_to_beat' = price_to_beat
    BY <1>2 DEF MarkPending
  <1> HIDE DEF w
  <1>5. QueueMatchesLedger'
    BY <1>1, <1>2, <1>3, <1>4 DEF QueueMatchesLedger
  <1> QED BY <1>1, <1>2, <1>3, <1>4, <1>5 DEF w

LEMMA BeginPromotionInv ==
  ASSUME LifecycleInv, BeginPromotion
  PROVE  LifecycleInv'
  <1>1. LedgerTypeOK' /\ WindowsKept
    BY LedgerKept DEF LifecycleNext, Handler
  <1>2. /\ pending_settlements' \in [Windows -> Nat]
        /\ price_to_beat' = price_to_beat
        /\ QueueMatchesLedger'
        /\ \/ status' = status
           \/ /\ current_window.number \in Windows
              /\ status' = [status EXCEPT ![current_window.number] = "PENDING_SETTLEMENT"]
              /\ status[current_window.number] \in {"LIVE", "SKIPPED"}
    <2>1. CASE Unfinished
      BY <2>1, QueueWindowKeeps, QueueWindowRefines DEF BeginPromotion
    <2>2. CASE ~Unfinished
      BY <2>2 DEF BeginPromotion, ledger, LifecycleInv, QueueMatchesLedger,
                  LifecycleTypeOK, LoopTypeOK
    <2> QED BY <2>1, <2>2
  <1>3. LifecycleTypeOK'
    BY <1>1, <1>2 DEF LifecycleInv, LifecycleTypeOK, LoopTypeOK, BeginPromotion,
                      market, polls, history, Handlers
  <1>4. TicksOfKnownWindows'
    BY <1>1, ChannelKept DEF TicksOfKnownWindows, BeginPromotion
  <1>5. CloneIsCurrent'
    BY DEF CloneIsCurrent, BeginPromotion
  <1>6. NumbersInOrder'
    <2>1. CASE status' = status
      BY <2>1 DEF LifecycleInv, NumbersInOrder, BeginPromotion, market
    <2> QED
      BY <1>2, <2>1, NumbersKept DEF BeginPromotion, market
  <1>7. HandlerState'
    BY <1>1 DEF LifecycleInv, HandlerState, BeginPromotion, WindowsKept, market,
                NoWindow
  <1> QED BY <1>2, <1>3, <1>4, <1>5, <1>6, <1>7 DEF LifecycleInv

LEMMA MonitorInv ==
  ASSUME LifecycleInv, Monitor
  PROVE  LifecycleInv'
  <1> DEFINE closing == /\ Unfinished
                        /\ SecsTo(End(current_window.number), clock) < -SafetySecs
  <1>1. LedgerTypeOK' /\ WindowsKept
    BY LedgerKept DEF LifecycleNext, Handler
  <1>2. /\ pc = "loop" /\ pc' \in {"loop", "discover"}
        /\ pc' = "discover" => next_window = -1
        /\ UNCHANGED <<clock, chan, market, subs, spot, ptb_locked_windows, polls,
                       history, job>>
    BY DEF Monitor
  <1>3. /\ pending_settlements' \in [Windows -> Nat]
        /\ price_to_beat' = price_to_beat
        /\ QueueMatchesLedger'
        /\ \/ status' = status /\ current_window' = current_window
           \/ /\ current_window.number \in Windows
              /\ status' = [status EXCEPT ![current_window.number] = "PENDING_SETTLEMENT"]
              /\ status[current_window.number] \in {"LIVE", "SKIPPED"}
              /\ current_window' = NoWindow
    <2>1. CASE closing
      BY <2>1, QueueWindowKeeps, QueueWindowRefines DEF Monitor
    <2>2. CASE ~closing
      BY <2>2 DEF Monitor, ledger, LifecycleInv, QueueMatchesLedger,
                  LifecycleTypeOK, LoopTypeOK
    <2> QED BY <2>1, <2>2
  <1>4. LifecycleTypeOK'
    <2>1. NoWindow \in [number : Windows \cup {-1}, status : Statuses, ptb : Nat]
      BY DEF NoWindow, Statuses
    <2> QED
      BY <1>1, <1>2, <1>3, <2>1
         DEF LifecycleInv, LifecycleTypeOK, LoopTypeOK, market, subs, polls,
             history, Handlers
  <1>5. TicksOfKnownWindows'
    BY <1>1, <1>2, ChannelKept
       DEF LifecycleInv, TicksOfKnownWindows, WindowsKept, subs, LifecycleTypeOK,
           LoopTypeOK
  <1>6. CloneIsCurrent'
    BY <1>2, <1>3 DEF LifecycleInv, CloneIsCurrent, NoWindow
  <1>7. NumbersInOrder'
    <2>1. CASE status' = status
      BY <1>2, <2>1 DEF LifecycleInv, NumbersInOrder, market
    <2> QED
      BY <1>2, <1>3, <2>1, NumbersKept DEF market
  <1>8. HandlerState'
    BY <1>1, <1>2, <1>3 DEF LifecycleInv, HandlerState, WindowsKept, market
  <1> QED BY <1>3, <1>4, <1>5, <1>6, <1>7, <1>8 DEF LifecycleInv

LEMMA PromoteNextInv ==
  ASSUME LifecycleInv, PromoteNext
  PROVE  LifecycleInv'
  <1> DEFINE w == next_window
  <1>1. LedgerTypeOK' /\ WindowsKept
    BY LedgerKept DEF LifecycleNext, Handler
  <1>2. w \in Windows /\ status[w] = "WAITING_ENTRY" /\ w = next_window_number
    BY PromoteNextRefines
  <1>3. /\ w \in Nat /\ w >= 0 /\ next_window_number \in Nat
        /\ price_to_beat[w] \in Nat
        /\ price_to_beat[w] \in PtbValues \cup {0}
        /\ status \in [Windows -> Statuses]
    BY <1>2, WindowNumbers DEF LifecycleInv, LifecycleTypeOK, LoopTypeOK, LedgerTypeOK
  <1>4. /\ status' = [status EXCEPT ![w] = "LIVE"]
        /\ price_to_beat' = price_to_beat
        /\ current_window' = LiveCloneOf(w)
        /\ next_window' = -1
        /\ next_window_number' = next_window_number + 1
    BY DEF PromoteNext, PromoteWindow
  <1>5. \/ pc' = "capture" /\ job' = job
        \/ /\ pc' = "settle"
           /\ price_to_beat[w] # 0
           /\ job' = [window |-> w, price |-> price_to_beat[w],
                      then |-> "capture", signals |-> 0]
    BY <1>3 DEF PromoteNext, SettleThen
  <1>6. UNCHANGED <<clock, chan, slot, subs, spot, ptb_locked_windows,
                    pending_settlements, polls, history>>
    BY DEF PromoteNext
  <1> HIDE DEF w
  <1>7. LifecycleTypeOK'
    <2>1. current_window' \in [number : Windows \cup {-1}, status : Statuses, ptb : Nat]
      BY <1>2, <1>3, <1>4 DEF LiveCloneOf, Statuses
    <2>2. job' \in Job
      <3>1. job \in Job /\ "capture" \in Handlers /\ 0 \in Nat
        BY DEF Handlers, LifecycleInv, LifecycleTypeOK, LoopTypeOK
      <3> QED BY <1>2, <1>3, <1>5, <3>1 DEF Job
    <2>3. next_window_number' \in Nat \ {0}
      BY <1>3, <1>4
    <2> QED
      BY <1>1, <1>4, <1>5, <1>6, <2>1, <2>2, <2>3
         DEF LifecycleInv, LifecycleTypeOK, LoopTypeOK, Handlers, subs, polls, history
  <1>8. TicksOfKnownWindows'
    BY <1>1, <1>6, ChannelKept
       DEF LifecycleInv, TicksOfKnownWindows, WindowsKept, subs, LifecycleTypeOK,
           LoopTypeOK
  <1>9. QueueMatchesLedger'
    BY <1>2, <1>3, <1>4, <1>6 DEF LifecycleInv, QueueMatchesLedger
  <1>10. CloneIsCurrent'
    BY <1>2, <1>3, <1>4 DEF CloneIsCurrent, LiveCloneOf
  <1>11. NumbersInOrder'
    <2>1. \A v \in Windows : v \in Nat /\ (v > next_window_number => status[v] = "NONE")
      BY WindowNumbers DEF LifecycleInv, NumbersInOrder
    <2>2. \A v \in Windows : v >= next_window_number + 1 => status'[v] = "NONE"
      BY <1>2, <1>3, <1>4, <2>1
    <2>3. \A v \in Windows : status'[v] = "SKIPPED" => v = 0
      BY <1>2, <1>3, <1>4 DEF LifecycleInv, NumbersInOrder
    <2> QED BY <1>3, <1>4, <1>5, <2>1, <2>2, <2>3 DEF NumbersInOrder
  <1>12. HandlerState'
    <2>1. current_window'.number = w /\ w \in Promoted'
      BY <1>2, <1>3, <1>4 DEF LiveCloneOf, Promoted
    <2> QED BY <1>2, <1>3, <1>4, <1>5, <2>1 DEF HandlerState
  <1> QED BY <1>7, <1>8, <1>9, <1>10, <1>11, <1>12 DEF LifecycleInv

LEMMA SubscribeCurrentInv ==
  ASSUME LifecycleInv, SubscribeCurrent
  PROVE  LifecycleInv'
  <1>1. current_window.number \in Windows /\ current_window.number \in Promoted
    BY DEF LifecycleInv, HandlerState, SubscribeCurrent, NoWindow, Promoted
  <1>2. status' = status /\ chan' = chan /\ price_to_beat' = price_to_beat
    BY DEF SubscribeCurrent, ledger
  <1>3. LifecycleTypeOK'
    BY <1>1 DEF LifecycleInv, LifecycleTypeOK, LoopTypeOK, LedgerTypeOK,
                SubscribeCurrent, ledger, market, polls, history, Handlers
  <1>4. TicksOfKnownWindows'
    BY <1>1, <1>2 DEF LifecycleInv, TicksOfKnownWindows, SubscribeCurrent,
                      Wellformed, Known, Promoted
  <1>5. QueueMatchesLedger' /\ CloneIsCurrent' /\ NumbersInOrder'
    BY <1>2 DEF LifecycleInv, QueueMatchesLedger, CloneIsCurrent, NumbersInOrder,
                SubscribeCurrent, market
  <1>6. HandlerState'
    BY <1>2 DEF LifecycleInv, HandlerState, SubscribeCurrent, market, Promoted
  <1> QED BY <1>3, <1>4, <1>5, <1>6 DEF LifecycleInv

-----------------------------------------------------------------------------
(* Settlement                                                              *)

LEMMA NextSlotDiffers == \A s \in Int, l \in Nat \ {0} : (s + 1) * l # s * l
  OBVIOUS

\* A window does not match itself, so that a close never changes the window
\* whose PTB caused it.
LEMMA SelfUnmatched ==
  ASSUME LifecycleInv, NEW w \in Windows
  PROVE  ~Matches(w, w)
  <1>1. slot[w] \in Int
    BY TimeAssumption DEF LifecycleInv, LifecycleTypeOK, LoopTypeOK, Slots
  <1>2. End(w) # Start(w)
    BY <1>1, NextSlotDiffers, TimeAssumption DEF End, Start
  <1>3. w \in Nat
    BY WindowNumbers
  <1>4. w + 1 # w
    BY <1>3
  <1> QED BY <1>2, <1>4 DEF Matches, Contiguous

LEMMA SettleOneInv ==
  ASSUME LifecycleInv, NEW w \in Windows, SettleOne(w)
  PROVE  LifecycleInv'
  <1>1. LedgerTypeOK' /\ WindowsKept
    BY LedgerKept DEF LifecycleNext, Handler
  <1>2. status[w] = "PENDING_SETTLEMENT"
    BY SettleOneRefines
  <1>3. /\ status' = [status EXCEPT ![w] = "CLOSED_TIME"]
        /\ price_to_beat' = price_to_beat
        /\ pending_settlements' = [pending_settlements EXCEPT ![w] = @ - 1]
    BY DEF SettleOne, CloseWindow, Dequeued
  <1>4. /\ status \in [Windows -> Statuses]
        /\ pending_settlements \in [Windows -> Nat]
        /\ \A v \in Windows : pending_settlements[v]
                               = IF status[v] = "PENDING_SETTLEMENT" THEN 1 ELSE 0
    BY DEF LifecycleInv, LifecycleTypeOK, LoopTypeOK, LedgerTypeOK, QueueMatchesLedger
  <1>5. /\ pc = "settle" /\ Matches(w, job.window)
        /\ settled_by' = [settled_by EXCEPT ![w] = job.window]
        /\ settled_at' = [settled_at EXCEPT ![w] = job.price]
        /\ UNCHANGED <<clock, chan, market, subs, current_window, spot,
                       ptb_locked_windows, polls, pc, job>>
    BY DEF SettleOne
  <1>6. pending_settlements' \in [Windows -> Nat] /\ QueueMatchesLedger'
    BY <1>2, <1>3, <1>4 DEF QueueMatchesLedger
  <1>7. job.window \in Windows \cup {-1} /\ job.price \in Nat
    <2>1. job \in Job
      BY DEF LifecycleInv, LifecycleTypeOK, LoopTypeOK
    <2>2. \A ptb \in PtbValues \cup {0} : ptb \in Nat
      BY InputsAssumption
    <2>3. job.window \in Windows \cup {-1} /\ job.price \in PtbValues \cup {0}
      BY <2>1 DEF Job
    <2> QED BY <2>2, <2>3
  <1>8. LifecycleTypeOK'
    BY <1>1, <1>3, <1>5, <1>6, <1>7
       DEF LifecycleInv, LifecycleTypeOK, LoopTypeOK, market, subs, polls
  <1>9. TicksOfKnownWindows'
    BY <1>1, <1>5, ChannelKept
       DEF LifecycleInv, TicksOfKnownWindows, WindowsKept, subs, LifecycleTypeOK,
           LoopTypeOK
  <1>10. CloneIsCurrent'
    <2>1. w # current_window.number
      BY <1>5, SelfUnmatched DEF LifecycleInv, HandlerState
    <2> QED BY <1>3, <1>4, <1>5, <2>1 DEF LifecycleInv, CloneIsCurrent
  <1>11. NumbersInOrder'
    BY <1>2, <1>3, <1>5, NumbersKept DEF market
  <1>12. HandlerState'
    BY <1>1, <1>5 DEF LifecycleInv, HandlerState, WindowsKept, market
  <1> QED BY <1>6, <1>8, <1>9, <1>10, <1>11, <1>12 DEF LifecycleInv

LEMMA SettleDoneInv ==
  ASSUME LifecycleInv, SettleDone
  PROVE  LifecycleInv'
  <1>1. /\ pc = "settle" /\ pc' = job.then /\ job' = NoJob
        /\ UNCHANGED <<ledger, clock, chan, app>>
    BY DEF SettleDone
  <1>2. job.then \in Handlers
    BY DEF LifecycleInv, LifecycleTypeOK, LoopTypeOK, Job
  <1>3. NoJob \in Job
    BY DEF NoJob, Job, Handlers
  <1>4. LifecycleTypeOK'
    BY <1>1, <1>2, <1>3
       DEF LifecycleInv, LifecycleTypeOK, LoopTypeOK, LedgerTypeOK, ledger, app,
           market, subs, polls, history
  <1>5. /\ TicksOfKnownWindows' /\ QueueMatchesLedger' /\ CloneIsCurrent'
        /\ NumbersInOrder'
    BY <1>1, <1>2
       DEF LifecycleInv, TicksOfKnownWindows, QueueMatchesLedger, CloneIsCurrent,
           NumbersInOrder, ledger, app, market, subs, Handlers, Wellformed,
           Known, Promoted
  <1>6. HandlerState'
    BY <1>1, <1>2, WindowNumbers
       DEF LifecycleInv, HandlerState, ledger, app, market, Handlers, Promoted
  <1> QED BY <1>4, <1>5, <1>6 DEF LifecycleInv

-----------------------------------------------------------------------------
(* Capture                                                                 *)

\* What a capture changes, and that both copies of the window agree after it.
LEMMA CaptureKeeps ==
  ASSUME LifecycleInv, NEW price, NEW at, NEW then \in Handlers,
         price \in SpotPrices \cup {0},
         Captures(price, at), CapturePtb(price, then),
         pc # "promote",
         then \in {"capture", "subscribe"} => next_window = -1,
         UNCHANGED <<next_window, next_window_number, pending_settlements>>
  PROVE  /\ price_to_beat' \in [Windows -> PtbValues \cup {0}]
         /\ current_window' \in [number : Windows \cup {-1}, status : Statuses, ptb : Nat]
         /\ ptb_locked_windows' \subseteq Windows
         /\ job' \in Job
         /\ pc' = "settle"
         /\ QueueMatchesLedger' /\ CloneIsCurrent' /\ NumbersInOrder'
         /\ HandlerState'
  <1> DEFINE w == current_window.number
  <1>1. price \in PtbValues /\ w \in Windows /\ w \in Promoted
    BY CapturePtbRefines
  <1>2. price \in Nat /\ price # 0 /\ w >= 0
    BY <1>1, WindowNumbers, InputsAssumption
  <1>3. /\ status' = status
        /\ price_to_beat' = [price_to_beat EXCEPT ![w] = price]
        /\ current_window' = [current_window EXCEPT !.ptb = price]
        /\ ptb_locked_windows' = ptb_locked_windows \cup {w}
        /\ pc' = "settle"
        /\ job' = [window |-> w, price |-> price, then |-> then, signals |-> 0]
    BY DEF CapturePtb, StorePtb, ClonePriced, SettleThen
  <1>4. /\ price_to_beat \in [Windows -> PtbValues \cup {0}]
        /\ current_window \in [number : Windows \cup {-1}, status : Statuses, ptb : Nat]
        /\ ptb_locked_windows \subseteq Windows
    BY DEF LifecycleInv, LifecycleTypeOK, LoopTypeOK
  <1>5. /\ current_window' \in [number : Windows \cup {-1}, status : Statuses, ptb : Nat]
        /\ current_window'.number = w
        /\ current_window'.status = current_window.status
        /\ current_window'.ptb = price
    BY <1>2, <1>3, <1>4
  <1>6. CloneIsCurrent'
    <2>1. current_window.status = status[w]
      BY <1>2 DEF LifecycleInv, CloneIsCurrent
    <2> QED BY <1>1, <1>3, <1>4, <1>5, <2>1 DEF CloneIsCurrent
  <1>7. QueueMatchesLedger' /\ NumbersInOrder'
    BY <1>3 DEF LifecycleInv, QueueMatchesLedger, NumbersInOrder
  <1>8. HandlerState'
    BY <1>1, <1>2, <1>3, <1>5 DEF HandlerState, Promoted
  <1>9. job' \in Job
    BY <1>1, <1>3 DEF Job
  <1>10. price_to_beat' \in [Windows -> PtbValues \cup {0}]
    BY <1>1, <1>3, <1>4
  <1> HIDE DEF w
  <1> QED BY <1>1, <1>3, <1>4, <1>5, <1>6, <1>7, <1>8, <1>9, <1>10

LEMMA CaptureOnPromotionInv ==
  ASSUME LifecycleInv, CaptureOnPromotion
  PROVE  LifecycleInv'
  <1>1. LedgerTypeOK' /\ WindowsKept
    BY LedgerKept DEF LifecycleNext, Handler
  <1>2. /\ pc = "capture" /\ next_window = -1
        /\ current_window.number \in Windows
        /\ current_window.number \in Promoted
        /\ UNCHANGED <<clock, chan, market, subs, spot, pending_settlements, polls,
                       history>>
    BY DEF CaptureOnPromotion, LifecycleInv, HandlerState, NoWindow, Promoted
  <1>3. TicksOfKnownWindows'
    BY <1>1, <1>2, ChannelKept, SMTT(30)
       DEF LifecycleInv, TicksOfKnownWindows, WindowsKept, subs, LifecycleTypeOK,
           LoopTypeOK
  <1>4. CASE CapturePtb(spot.price, "subscribe") /\ Captures(spot.price, spot.at)
    <2>1. spot.price \in SpotPrices \cup {0} /\ "subscribe" \in Handlers
      BY DEF LifecycleInv, LifecycleTypeOK, LoopTypeOK, Handlers
    <2>2. UNCHANGED <<next_window, next_window_number, pending_settlements>>
      BY <1>2 DEF market
    <2>3. /\ price_to_beat' \in [Windows -> PtbValues \cup {0}]
          /\ current_window' \in [number : Windows \cup {-1}, status : Statuses, ptb : Nat]
          /\ ptb_locked_windows' \subseteq Windows
          /\ job' \in Job
          /\ pc' = "settle"
          /\ QueueMatchesLedger' /\ CloneIsCurrent' /\ NumbersInOrder'
          /\ HandlerState'
      BY <1>2, <1>4, <2>1, <2>2, CaptureKeeps
    <2>4. LifecycleTypeOK'
      BY <1>1, <1>2, <2>3
         DEF LifecycleInv, LifecycleTypeOK, LoopTypeOK, market, subs, polls, history
    <2> QED BY <1>3, <2>3, <2>4 DEF LifecycleInv
  <1>5. CASE /\ pc' = "subscribe"
             /\ UNCHANGED <<ledger, current_window, ptb_locked_windows, job>>
    <2>1. LifecycleTypeOK'
      BY <1>2, <1>5
         DEF LifecycleInv, LifecycleTypeOK, LoopTypeOK, LedgerTypeOK, ledger,
             market, subs, polls, history, Handlers
    <2>2. QueueMatchesLedger' /\ CloneIsCurrent' /\ NumbersInOrder' /\ HandlerState'
      BY <1>2, <1>5, WindowNumbers
         DEF LifecycleInv, QueueMatchesLedger, CloneIsCurrent, NumbersInOrder,
             HandlerState, ledger, market, Promoted
    <2> QED BY <1>3, <2>1, <2>2 DEF LifecycleInv
  <1> QED BY <1>4, <1>5 DEF CaptureOnPromotion

-----------------------------------------------------------------------------
(* Events                                                                  *)

\* The channel after a receipt, seen from the next state.
LEMMA ChannelAfterReceipt ==
  ASSUME LifecycleInv, WindowsKept, NEW kind, Receive(kind)
  PROVE  chan' \in Seq(Event) /\ \A i \in 1 .. Len(chan') : Wellformed(chan[i])'
  <1>1. chan' \in Seq(Event) /\ \A i \in 1 .. Len(chan') : Wellformed(chan'[i])
    BY Receiving
  <1> QED BY <1>1 DEF Wellformed, WindowsKept

LEMMA SpotTickInv ==
  ASSUME LifecycleInv, SpotTick
  PROVE  LifecycleInv'
  <1> DEFINE event == Head(chan)
             rest  == IF NeedsPoll THEN "poll" ELSE "loop"
  <1>1. LedgerTypeOK' /\ WindowsKept
    BY LedgerKept DEF LifecycleNext, Handler
  <1>2. /\ Receive("SpotTick") /\ pc = "loop"
        /\ UNCHANGED <<clock, market, subs, pending_settlements, polls, history>>
    BY DEF SpotTick, Receive
  <1>3. event \in Event
    BY <1>2, Receiving
  <1>4. rest \in {"poll", "loop"} /\ rest \in Handlers
    BY DEF Handlers
  <1>5. \/ UNCHANGED <<ledger, current_window, ptb_locked_windows, spot, pc, job>>
        \/ /\ spot' = [price |-> event.price, at |-> event.at, received |-> clock]
           /\ \/ Captures(event.price, event.at) /\ CapturePtb(event.price, rest)
              \/ /\ pc' = rest
                 /\ UNCHANGED <<ledger, current_window, ptb_locked_windows, job>>
    BY DEF SpotTick
  <1> HIDE DEF event, rest
  <1>6. spot' \in [price : SpotPrices \cup {0}, at : Int, received : Int]
    <2>1. event.price \in SpotPrices \cup {0} /\ event.at \in Nat
      BY <1>3 DEF Event
    <2>2. /\ clock \in Nat
          /\ spot \in [price : SpotPrices \cup {0}, at : Int, received : Int]
      BY DEF LifecycleInv, LifecycleTypeOK, LoopTypeOK
    <2>3. \A n \in Nat : n \in Int
      OBVIOUS
    <2> QED BY <1>5, <2>1, <2>2, <2>3
  <1>7. TicksOfKnownWindows'
    BY <1>1, <1>2, ChannelAfterReceipt, SMTT(30)
       DEF LifecycleInv, TicksOfKnownWindows, WindowsKept, subs, LifecycleTypeOK,
           LoopTypeOK
  <1>8. chan' \in Seq(Event)
    BY <1>1, <1>2, ChannelAfterReceipt, SMTT(30)
  <1>9. CASE Captures(event.price, event.at) /\ CapturePtb(event.price, rest)
    <2>1. event.price \in SpotPrices \cup {0}
      BY <1>3 DEF Event
    <2>2. UNCHANGED <<next_window, next_window_number, pending_settlements>>
      BY <1>2 DEF market
    <2>3. /\ price_to_beat' \in [Windows -> PtbValues \cup {0}]
          /\ current_window' \in [number : Windows \cup {-1}, status : Statuses, ptb : Nat]
          /\ ptb_locked_windows' \subseteq Windows
          /\ job' \in Job
          /\ pc' = "settle"
          /\ QueueMatchesLedger' /\ CloneIsCurrent' /\ NumbersInOrder'
          /\ HandlerState'
      BY <1>2, <1>4, <1>9, <2>1, <2>2, CaptureKeeps
    <2>4. LifecycleTypeOK'
      BY <1>1, <1>2, <1>6, <1>8, <2>3
         DEF LifecycleInv, LifecycleTypeOK, LoopTypeOK, market, subs, polls, history
    <2> QED BY <1>7, <2>3, <2>4 DEF LifecycleInv
  <1>10. CASE /\ pc' \in {rest, pc}
              /\ UNCHANGED <<ledger, current_window, ptb_locked_windows, job>>
    <2>1. pc' \in {"loop", "poll"}
      BY <1>2, <1>4, <1>10
    <2>2. LifecycleTypeOK'
      BY <1>1, <1>2, <1>6, <1>8, <1>10, <2>1
         DEF LifecycleInv, LifecycleTypeOK, LoopTypeOK, LedgerTypeOK, ledger,
             market, subs, polls, history, Handlers
    <2>3. QueueMatchesLedger' /\ CloneIsCurrent' /\ NumbersInOrder' /\ HandlerState'
      BY <1>2, <1>10, <2>1
         DEF LifecycleInv, QueueMatchesLedger, CloneIsCurrent, NumbersInOrder,
             HandlerState, ledger, market, Promoted
    <2> QED BY <1>7, <2>2, <2>3 DEF LifecycleInv
  <1> QED BY <1>5, <1>9, <1>10

LEMMA PollMaintenanceInv ==
  ASSUME LifecycleInv, PollMaintenance
  PROVE  LifecycleInv'
  <1>1. current_window.number \in Windows \cup {-1}
    BY DEF LifecycleInv, LifecycleTypeOK, LoopTypeOK
  <1>2. LifecycleTypeOK'
    BY <1>1 DEF LifecycleInv, LifecycleTypeOK, LoopTypeOK, LedgerTypeOK,
                PollMaintenance, ledger, market, subs, history, Handlers
  <1>3. QueueMatchesLedger' /\ CloneIsCurrent' /\ NumbersInOrder' /\ HandlerState'
    BY DEF LifecycleInv, QueueMatchesLedger, CloneIsCurrent, NumbersInOrder,
           HandlerState, PollMaintenance, ledger, market, Promoted
  <1>4. TicksOfKnownWindows'
    BY DEF LifecycleInv, TicksOfKnownWindows, PollMaintenance, ledger, subs,
           Wellformed, Known, Promoted
  <1> QED BY <1>2, <1>3, <1>4 DEF LifecycleInv

LEMMA MarketTickInv ==
  ASSUME LifecycleInv, MarketTick
  PROVE  LifecycleInv'
  <1> DEFINE event == Head(chan)
             w == event.window
  <1>1. LedgerTypeOK' /\ WindowsKept
    BY LedgerKept DEF LifecycleNext, Handler
  <1>2. /\ Receive("MarketTick") /\ pc = "loop"
        /\ status' = status /\ price_to_beat' = price_to_beat
        /\ UNCHANGED <<clock, market, subs, spot, ptb_locked_windows,
                       pending_settlements, polls, history>>
    BY DEF MarketTick, Receive, StorePrices
  <1>3. event \in Event /\ Wellformed(event) /\ event.kind = "MarketTick"
    BY <1>2, Receiving
  <1>4. /\ current_window' = IF event.role = "CURRENT" THEN CloneOf(w) ELSE current_window
        /\ \/ /\ event.role = "CURRENT" /\ w # 0
              /\ pc' = "trade"
              /\ job' = [window |-> w, price |-> 0, then |-> "loop",
                         signals |-> MaxSignals]
           \/ pc' = pc /\ job' = job
    BY DEF MarketTick, Trades, MayTrade, Executable
  <1> HIDE DEF event
  <1>5. /\ w \in Windows /\ w \in Nat
        /\ event.role = "CURRENT" => w \in Promoted
    BY <1>3, WindowNumbers DEF Wellformed
  <1> HIDE DEF w
  <1>6. /\ status \in [Windows -> Statuses]
        /\ price_to_beat \in [Windows -> PtbValues \cup {0}]
        /\ price_to_beat \in [Windows -> Nat]
        /\ current_window \in [number : Windows \cup {-1}, status : Statuses, ptb : Nat]
        /\ job \in Job
        /\ MaxSignals \in Nat
    BY TimeAssumption DEF LifecycleInv, LifecycleTypeOK, LoopTypeOK, LedgerTypeOK
  <1>7. CloneOf(w) = [number |-> w, status |-> status[w], ptb |-> price_to_beat[w]]
    BY DEF CloneOf, LiveCloneOf
  <1>8. LifecycleTypeOK'
    <2>1. current_window' \in [number : Windows \cup {-1}, status : Statuses, ptb : Nat]
      BY <1>4, <1>5, <1>6, <1>7
    <2>2. job' \in Job
      BY <1>4, <1>5, <1>6 DEF Job, Handlers
    <2>3. chan' \in Seq(Event)
      BY <1>1, <1>2, ChannelAfterReceipt, SMTT(30)
    <2> QED
      BY <1>1, <1>2, <1>4, <2>1, <2>2, <2>3
         DEF LifecycleInv, LifecycleTypeOK, LoopTypeOK, market, subs, polls, history
  <1>9. TicksOfKnownWindows'
    BY <1>1, <1>2, ChannelAfterReceipt, SMTT(30)
       DEF LifecycleInv, TicksOfKnownWindows, WindowsKept, subs, LifecycleTypeOK,
           LoopTypeOK
  <1>10. QueueMatchesLedger' /\ NumbersInOrder'
    BY <1>2, <1>4 DEF LifecycleInv, QueueMatchesLedger, NumbersInOrder, market
  <1>11. CloneIsCurrent'
    BY <1>2, <1>4, <1>7 DEF LifecycleInv, CloneIsCurrent
  <1>12. HandlerState'
    BY <1>2, <1>4, <1>5, <1>7
       DEF LifecycleInv, HandlerState, market, Promoted
  <1> QED BY <1>8, <1>9, <1>10, <1>11, <1>12 DEF LifecycleInv

LEMMA ExecuteSignalInv ==
  ASSUME LifecycleInv, ExecuteSignal
  PROVE  LifecycleInv'
  <1>1. LedgerTypeOK' /\ WindowsKept
    BY LedgerKept DEF LifecycleNext, Handler
  <1>2. status' = status /\ price_to_beat' = price_to_beat
    BY ExecuteSignalRefines
  <1>3. /\ pc = "trade" /\ job.signals > 0
        /\ job' = [job EXCEPT !.signals = @ - 1]
        /\ UNCHANGED <<clock, chan, app, pc>>
    BY DEF ExecuteSignal
  <1>4. job' \in Job /\ job'.window = job.window
    <2>1. job \in Job
      BY DEF LifecycleInv, LifecycleTypeOK, LoopTypeOK
    <2>2. job.signals \in Nat
      BY <2>1 DEF Job
    <2>3. job.signals - 1 \in Nat
      BY <1>3, <2>2
    <2> QED BY <1>3, <2>1, <2>3 DEF Job
  <1>5. LifecycleTypeOK'
    BY <1>1, <1>2, <1>3, <1>4
       DEF LifecycleInv, LifecycleTypeOK, LoopTypeOK, app, market, subs, polls,
           history
  <1>6. TicksOfKnownWindows'
    BY <1>2, <1>3 DEF LifecycleInv, TicksOfKnownWindows, app, subs, Wellformed,
                      Known, Promoted
  <1>7. QueueMatchesLedger' /\ CloneIsCurrent' /\ NumbersInOrder'
    BY <1>2, <1>3 DEF LifecycleInv, QueueMatchesLedger, CloneIsCurrent,
                      NumbersInOrder, app, market
  <1>8. HandlerState'
    BY <1>2, <1>3, <1>4 DEF LifecycleInv, HandlerState, app, market, Promoted
  <1> QED BY <1>5, <1>6, <1>7, <1>8 DEF LifecycleInv

LEMMA SignalsDoneInv ==
  ASSUME LifecycleInv, SignalsDone
  PROVE  LifecycleInv'
  <1>1. NoJob \in Job
    BY DEF NoJob, Job, Handlers
  <1>2. LifecycleTypeOK'
    BY <1>1 DEF LifecycleInv, LifecycleTypeOK, LoopTypeOK, LedgerTypeOK,
                SignalsDone, ledger, app, market, subs, polls, history, Handlers
  <1>3. QueueMatchesLedger' /\ CloneIsCurrent' /\ NumbersInOrder' /\ HandlerState'
    BY DEF LifecycleInv, QueueMatchesLedger, CloneIsCurrent, NumbersInOrder,
           HandlerState, SignalsDone, ledger, app, market, Promoted
  <1>4. TicksOfKnownWindows'
    BY DEF LifecycleInv, TicksOfKnownWindows, SignalsDone, ledger, app, subs,
           Wellformed, Known, Promoted
  <1> QED BY <1>2, <1>3, <1>4 DEF LifecycleInv

-----------------------------------------------------------------------------
(* Theorems                                                                *)

LEMMA InitInv == LifecycleInit => LifecycleInv
  <1> SUFFICES ASSUME LifecycleInit PROVE LifecycleInv
    OBVIOUS
  <1>1. LedgerTypeOK
    BY BankAssumption
       DEF LifecycleInit, LedgerInit, LedgerTypeOK, NoShares, NoQuotes, Statuses
  <1>2. status = [w \in Windows |-> "NONE"] /\ price_to_beat = [w \in Windows |-> 0]
    BY DEF LifecycleInit, LedgerInit
  <1>3. LifecycleTypeOK
    <2>1. NoJob \in Job
      BY DEF NoJob, Job, Handlers
    <2>2. NoWindow \in [number : Windows \cup {-1}, status : Statuses, ptb : Nat]
      BY DEF NoWindow, Statuses
    <2>3. NoSpot \in [price : SpotPrices \cup {0}, at : Int, received : Int]
      BY DEF NoSpot
    <2>4. <<>> \in Seq(Event)
      BY EmptySeq
    <2> QED
      BY <1>1, <1>2, <2>1, <2>2, <2>3, <2>4
         DEF LifecycleInit, LifecycleTypeOK, LoopTypeOK, Slots
  <1>4. QueueMatchesLedger /\ NumbersInOrder
    BY <1>2 DEF LifecycleInit, QueueMatchesLedger, NumbersInOrder
  <1>5. CloneIsCurrent /\ HandlerState
    BY DEF LifecycleInit, CloneIsCurrent, HandlerState, NoWindow
  <1>6. TicksOfKnownWindows
    BY DEF LifecycleInit, TicksOfKnownWindows
  <1> QED BY <1>3, <1>4, <1>5, <1>6 DEF LifecycleInv

LEMMA StepInv ==
  ASSUME LifecycleInv, [LifecycleNext]_vars
  PROVE  LifecycleInv'
  <1>1. CASE UNCHANGED vars
    <2>1. LifecycleTypeOK'
      BY <1>1, ZenonT(40) DEF LifecycleInv, LifecycleTypeOK, LoopTypeOK, LedgerTypeOK,
                  vars, ledger, app, market, subs, polls, history
    <2>2. /\ QueueMatchesLedger' /\ CloneIsCurrent' /\ NumbersInOrder'
          /\ HandlerState'
      BY <1>1 DEF LifecycleInv, QueueMatchesLedger, CloneIsCurrent,
                  NumbersInOrder, HandlerState, Promoted, vars, ledger, app, market
    <2>3. TicksOfKnownWindows'
      BY <1>1 DEF LifecycleInv, TicksOfKnownWindows, Wellformed, Known, Promoted,
                  vars, ledger, app, subs
    <2> QED BY <2>1, <2>2, <2>3 DEF LifecycleInv
  <1>2. CASE LifecycleNext
    BY <1>2, PassTimeInv, SendTickInv, SendSpotInv, DiscoverInitialInv,
       FindNextInv, BeginPromotionInv, PromoteNextInv, CaptureOnPromotionInv,
       SubscribeCurrentInv, SettleOneInv, SettleDoneInv, MonitorInv, SpotTickInv,
       PollMaintenanceInv, MarketTickInv, ExecuteSignalInv, SignalsDoneInv
       DEF LifecycleNext, Handler
  <1> QED BY <1>1, <1>2

\* The inductive invariant of the event loop (main.rs): types, queue, clone,
\* window numbers, events in flight and handlers under way.
THEOREM LifecycleInvariant == LifecycleSpec => []LifecycleInv
  BY InitInv, StepInv, PTL DEF LifecycleSpec

\* A window awaits its close price in the ledger exactly when it stands in
\* pending_settlements, and then once (queue_window_for_settlement,
\* try_settle_pending_windows).
THEOREM QueueAlwaysMatches == LifecycleSpec => []QueueMatchesLedger
  <1>1. LifecycleInv => QueueMatchesLedger
    BY DEF LifecycleInv
  <1> QED BY <1>1, LifecycleInvariant, PTL

\* Between its handlers' steps the loop's clone of the current window says
\* what the ledger says, whatever late ticks re-pointed it (process_event).
THEOREM CloneAlwaysCurrent == LifecycleSpec => []CloneIsCurrent
  <1>1. LifecycleInv => CloneIsCurrent
    BY DEF LifecycleInv
  <1> QED BY <1>1, LifecycleInvariant, PTL

\* The event loop calls the ledger only as its protocol allows: it promotes
\* what waits, queues what runs, closes what is queued, and each once.
THEOREM LifecycleImplementsLedger == LifecycleSpec => LedgerSpec
  <1>1. LifecycleInit => LedgerInit
    BY DEF LifecycleInit
  <1>2. LifecycleInv /\ [LifecycleNext]_vars => [LedgerNext]_ledger
    BY Refinement DEF vars
  <1> QED BY <1>1, <1>2, LifecycleInvariant, PTL DEF LifecycleSpec, LedgerSpec

\* What was proved of the ledger holds of the bot's session: windows are counted
\* once, closed ones tallied once, those never traded stay empty, and no late event
\* turns a status back.
THEOREM LedgerOfTheSession ==
  LifecycleSpec => /\ []CountersMatch /\ []TallyMatchesClosed
                   /\ []UntradedIsEmpty /\ StatusMovesOn
  BY LifecycleImplementsLedger, CountersAlwaysMatch, TallyAlwaysMatches,
     UntradedStaysEmpty, StatusNeverGoesBack

-----------------------------------------------------------------------------
(* Orders fall near the life of their window                               *)

LEMMA Quotient ==
  \A a \in Nat, s \in Nat \ {0} : /\ a \div s \in Nat
                                /\ (a \div s) * s <= a
                                /\ a < (a \div s) * s + s
  OBVIOUS

LEMMA TimesAtLeast == \A q \in Nat \ {0}, s \in Nat : q * s >= s
  OBVIOUS

\* What the code's rounded difference of two instants says of them.
LEMMA SecsToBounds ==
  ASSUME NEW t \in Int, NEW now \in Int
  PROVE  /\ SecsTo(t, now) <= 0 => now > t - Sec
         /\ SecsTo(t, now) > 0 => now <= t - Sec
  <1>1. Sec \in Nat \ {0}
    BY TimeAssumption
  <1>2. CASE t >= now
    <2> DEFINE q == (t - now) \div Sec
    <2>1. t - now \in Nat
      BY <1>2
    <2>2. q \in Nat /\ q * Sec <= t - now /\ t - now < q * Sec + Sec
      BY <1>1, <2>1, Quotient
    <2>3. SecsTo(t, now) = q
      BY <1>2 DEF SecsTo
    <2> HIDE DEF q
    <2>4. q * Sec \in Nat /\ (q = 0 => q * Sec = 0)
      BY <1>1, <2>2
    <2>5. q > 0 => q * Sec >= Sec
      BY <1>1, <2>2, TimesAtLeast
    <2> QED BY <1>1, <1>2, <2>2, <2>3, <2>4, <2>5
  <1>3. CASE t < now
    <2> DEFINE q == (now - t) \div Sec
    <2>1. now - t \in Nat
      BY <1>3
    <2>2. q \in Nat
      BY <1>1, <2>1, Quotient
    <2>3. SecsTo(t, now) = -q
      BY <1>3 DEF SecsTo
    <2> HIDE DEF q
    <2> QED BY <1>1, <1>3, <2>2, <2>3
  <1> QED BY <1>2, <1>3

LEMMA SlotTimes ==
  ASSUME LifecycleInv, NEW w \in Windows
  PROVE  Start(w) \in Int /\ End(w) \in Int
  <1>1. slot[w] \in Int
    BY TimeAssumption DEF LifecycleInv, LifecycleTypeOK, LoopTypeOK, Slots
  <1> QED BY <1>1, TimeAssumption DEF Start, End

\* A step that neither moves time, slots nor statuses, and starts no promotion
\* and no order, disturbs nothing.
LEMMA TimeKept ==
  ASSUME HandlersInTime, Promoted' \subseteq Promoted,
         UNCHANGED <<clock, slot>>, pc' \notin {"promote", "trade"}
  PROVE  HandlersInTime'
  BY DEF HandlersInTime, Start

LEMMA HandlersInTimeStep ==
  ASSUME LifecycleInv, HandlersInTime, LifecycleNext
  PROVE  HandlersInTime'
  <1>1. /\ clock \in Nat
        /\ Sec \in Nat \ {0}
        /\ status \in [Windows -> Statuses]
        /\ slot \in [Windows -> Slots \cup {-1}]
    BY TimeAssumption DEF LifecycleInv, LifecycleTypeOK, LoopTypeOK, LedgerTypeOK
  <1>2. CASE PassTime
    <2>1. \A w \in Promoted : Start(w) \in Int
      BY SlotTimes DEF Promoted
    <2>2. /\ clock' = clock + 1 /\ slot' = slot /\ status' = status
          /\ pc' = pc /\ pc \notin {"promote", "trade"}
      BY <1>2 DEF PassTime, Awaiting, app, market, ledger
    <2>3. Promoted' = Promoted /\ \A w \in Promoted : Start(w)' = Start(w)
      BY <2>2 DEF Promoted, Start
    <2>4. \A w \in Promoted : clock' > Start(w) - Sec
      BY <1>1, <2>1, <2>2 DEF HandlersInTime
    <2> QED BY <2>2, <2>3, <2>4 DEF HandlersInTime
  <1>3. CASE SendTick \/ SendSpot
    BY <1>3, TimeKept DEF SendTick, SendSpot, Send, Awaiting, app, market, ledger, Promoted
  <1>4. CASE DiscoverInitial
    <2>1. pc' = "discover" /\ clock' = clock
      BY <1>4 DEF DiscoverInitial
    <2>2. CASE UNCHANGED <<ledger, slot, current_window, current_sub>>
      BY <2>1, <2>2, TimeKept DEF ledger, Promoted
    <2>3. CASE /\ status' = [status EXCEPT ![0] = "SKIPPED"]
               /\ slot' = [slot EXCEPT ![0] = clock \div SlotLen]
      <3> DEFINE s == clock \div SlotLen
      <3>1. s \in Nat /\ s * SlotLen <= clock
        BY <1>1, Quotient, TimeAssumption
      <3>2. slot'[0] = s
        BY <1>1, <2>3, WarmUpAssumption
      <3>3. Start(0)' = s * SlotLen
        BY <3>2 DEF Start
      <3> HIDE DEF s
      <3>4. s * SlotLen \in Nat
        BY <3>1, TimeAssumption
      <3>5. clock' > Start(0)' - Sec
        BY <1>1, <2>1, <3>1, <3>3, <3>4
      <3>6. ASSUME NEW w \in Promoted', w # 0
            PROVE  clock' > Start(w)' - Sec
        <4>1. w \in Promoted /\ slot'[w] = slot[w]
          BY <1>1, <2>3, <3>6 DEF Promoted
        <4>2. Start(w)' = Start(w)
          BY <4>1 DEF Start
        <4> QED BY <2>1, <4>1, <4>2 DEF HandlersInTime
      <3> QED BY <2>1, <3>5, <3>6 DEF HandlersInTime
    <2> QED BY <1>4, <2>2, <2>3 DEF DiscoverInitial, WarmUp
  <1>5. CASE FindNext
    <2>1. pc' = "loop" /\ clock' = clock
      BY <1>5 DEF FindNext
    <2>2. CASE UNCHANGED <<ledger, slot, next_window, next_sub>>
      BY <2>1, <2>2, TimeKept DEF ledger, Promoted
    <2> DEFINE n == next_window_number
    <2>3. ASSUME NEW s, n \in Windows, slot' = [slot EXCEPT ![n] = s],
                 status' = [status EXCEPT ![n] = "WAITING_ENTRY"]
          PROVE  HandlersInTime'
      <3>1. ASSUME NEW w \in Promoted'
            PROVE  clock' > Start(w)' - Sec
        <4>1. w # n /\ w \in Promoted /\ slot'[w] = slot[w]
          BY <1>1, <2>3, <3>1 DEF Promoted
        <4>2. Start(w)' = Start(w)
          BY <4>1 DEF Start
        <4> QED BY <2>1, <4>1, <4>2 DEF HandlersInTime
      <3> QED BY <2>1, <3>1 DEF HandlersInTime
    <2> QED BY <1>5, <2>2, <2>3 DEF FindNext, CreateWindow
  <1>6. CASE BeginPromotion
    <2>1. /\ pc = "loop" /\ next_window >= 0 /\ pc' = "promote"
          /\ SecsTo(Start(next_window), clock) <= 0
          /\ UNCHANGED <<clock, market>>
      BY <1>6 DEF BeginPromotion
    <2>2. next_window \in Windows
      BY <2>1 DEF LifecycleInv, LifecycleTypeOK, LoopTypeOK
    <2>3. clock > Start(next_window) - Sec
      BY <1>1, <2>1, <2>2, SlotTimes, SecsToBounds
    <2>4. Promoted' \subseteq Promoted
      <3>1. CASE Unfinished
        BY <1>6, <2>1, <3>1, QueueWindowKeeps, QueueWindowRefines, <1>1
           DEF BeginPromotion, Promoted
      <3>2. CASE ~Unfinished
        BY <1>6, <3>2 DEF BeginPromotion, ledger, Promoted
      <3> QED BY <3>1, <3>2
    <2> QED BY <2>1, <2>3, <2>4 DEF HandlersInTime, Start, market
  <1>7. CASE PromoteNext
    <2>1. /\ next_window \in Windows /\ pc = "promote"
          /\ status' = [status EXCEPT ![next_window] = "LIVE"]
          /\ UNCHANGED <<clock, slot>>
          /\ pc' \in {"settle", "capture"}
      BY <1>7, PromoteNextRefines DEF PromoteNext, PromoteWindow, SettleThen
    <2>2. Promoted' \subseteq Promoted \cup {next_window}
      BY <1>1, <2>1 DEF Promoted
    <2> QED BY <2>1, <2>2 DEF HandlersInTime, Start
  <1>8. CASE CaptureOnPromotion
    BY <1>8, TimeKept
       DEF CaptureOnPromotion, CapturePtb, StorePtb, SettleThen, market, ledger, Promoted
  <1>9. CASE SubscribeCurrent \/ PollMaintenance \/ SignalsDone
    BY <1>9, TimeKept
       DEF SubscribeCurrent, PollMaintenance, SignalsDone, market, app, ledger, Promoted
  <1>10. ASSUME NEW w \in Windows, SettleOne(w)
         PROVE  HandlersInTime'
    <2>1. /\ status[w] = "PENDING_SETTLEMENT"
          /\ status' = [status EXCEPT ![w] = "CLOSED_TIME"]
          /\ pc' = "settle" /\ UNCHANGED <<clock, slot>>
      BY <1>10, SettleOneRefines DEF SettleOne, CloseWindow, market
    <2>2. Promoted' \subseteq Promoted
      BY <1>1, <2>1 DEF Promoted
    <2> QED BY <2>1, <2>2, TimeKept
  <1>11. CASE SettleDone
    <2>1. job.then \in Handlers
      BY DEF LifecycleInv, LifecycleTypeOK, LoopTypeOK, Job
    <2> QED
      BY <1>11, <2>1, TimeKept
         DEF SettleDone, Handlers, app, market, ledger, Promoted
  <1>12. CASE Monitor
    <2>1. /\ pc = "loop" /\ pc' \in {"loop", "discover"}
          /\ UNCHANGED <<clock, market>>
      BY <1>12 DEF Monitor
    <2>2. Promoted' \subseteq Promoted
      <3>1. CASE /\ Unfinished
                 /\ SecsTo(End(current_window.number), clock) < -SafetySecs
        BY <1>12, <2>1, <3>1, QueueWindowKeeps, QueueWindowRefines, <1>1
           DEF Monitor, Promoted
      <3>2. CASE ~(/\ Unfinished
                   /\ SecsTo(End(current_window.number), clock) < -SafetySecs)
        BY <1>12, <3>2 DEF Monitor, ledger, Promoted
      <3> QED BY <3>1, <3>2
    <2> QED BY <2>1, <2>2, TimeKept DEF market
  <1>13. CASE SpotTick
    <2>1. status' = status /\ UNCHANGED <<clock, market>>
      BY <1>13 DEF SpotTick, CapturePtb, StorePtb, ledger
    <2>2. pc' \notin {"promote", "trade"}
      BY <1>13 DEF SpotTick, Receive, CapturePtb, SettleThen
    <2> QED BY <2>1, <2>2, TimeKept DEF market, Promoted
  <1>14. CASE MarketTick
    <2> DEFINE event == Head(chan)
    <2>1. /\ pc = "loop" /\ status' = status /\ UNCHANGED <<clock, market>>
          /\ event \in Event /\ Wellformed(event) /\ event.kind = "MarketTick"
      BY <1>14, Receiving DEF MarketTick, Receive, StorePrices
    <2>2. \/ pc' = pc
          \/ /\ pc' = "trade" /\ job'.window = event.window
             /\ MaxClobAge > 0 => clock - event.at <= MaxClobAge
             /\ SecsTo(End(event.window), event.at) > 0
      BY <1>14 DEF MarketTick, Trades, MayTrade, Executable, BeforeEnd
    <2> HIDE DEF event
    <2>3. event.window \in Windows /\ event.at \in Nat
      BY <2>1 DEF Wellformed, Event
    <2>4. CASE pc' = pc
      BY <2>1, <2>4, TimeKept DEF market, Promoted
    <2>5. CASE /\ pc' = "trade" /\ job'.window = event.window
               /\ MaxClobAge > 0 => clock - event.at <= MaxClobAge
               /\ SecsTo(End(event.window), event.at) > 0
      <3>1. End(event.window) \in Int /\ MaxClobAge \in Nat
        BY <2>3, SlotTimes, TimeAssumption
      <3>2. event.at <= End(event.window) - Sec
        BY <2>3, <2>5, <3>1, SecsToBounds
      <3>3. PICK w \in Windows : w = event.window
        BY <2>3
      <3>4. MaxClobAge > 0 => clock <= End(w) - Sec + MaxClobAge
        BY <1>1, <2>3, <2>5, <3>1, <3>2, <3>3
      <3>5. /\ clock' = clock /\ slot' = slot /\ Promoted' = Promoted
            /\ job'.window = w /\ pc' = "trade"
        BY <2>1, <2>5, <3>3 DEF market, Promoted
      <3>6. MaxClobAge > 0 => clock' <= End(job.window)' - Sec + MaxClobAge
        BY <3>4, <3>5 DEF End
      <3> QED BY <3>5, <3>6 DEF HandlersInTime, Start
    <2> QED BY <2>2, <2>4, <2>5
  <1>15. CASE ExecuteSignal
    <2>1. /\ status' = status /\ UNCHANGED <<clock, app, pc>>
          /\ job'.window = job.window
      <3>1. job \in Job
        BY DEF LifecycleInv, LifecycleTypeOK, LoopTypeOK
      <3>2. job' = [job EXCEPT !.signals = @ - 1]
        BY <1>15 DEF ExecuteSignal
      <3>3. job'.window = job.window
        BY <3>1, <3>2 DEF Job
      <3> QED BY <1>15, <3>3, ExecuteSignalRefines DEF ExecuteSignal
    <2>2. UNCHANGED <<slot, next_window>> /\ Promoted' = Promoted
      BY <2>1 DEF app, market, Promoted
    <2> QED BY <2>1, <2>2 DEF HandlersInTime, Start, End
  <1> QED BY <1>2, <1>3, <1>4, <1>5, <1>6, <1>7, <1>8, <1>9, <1>10, <1>11,
             <1>12, <1>13, <1>14, <1>15 DEF LifecycleNext, Handler

LEMMA OrdersInTimeInvariant == LifecycleSpec => []HandlersInTime
  <1>1. LifecycleInit => HandlersInTime
    BY DEF LifecycleInit, LedgerInit, HandlersInTime, Promoted
  <1>2. LifecycleInv /\ HandlersInTime /\ [LifecycleNext]_vars => HandlersInTime'
    <2>1. ASSUME LifecycleInv, HandlersInTime, UNCHANGED vars
          PROVE  HandlersInTime'
      BY <2>1 DEF HandlersInTime, Promoted, Start, End, vars, app, market, ledger
    <2> QED BY <2>1, HandlersInTimeStep
  <1> QED BY <1>1, <1>2, LifecycleInvariant, PTL DEF LifecycleSpec

\* Only an order of a tick spends, and in the window of that tick alone.
LEMMA SpentKept ==
  ASSUME LifecycleNext, ~ExecuteSignal
  PROVE  spent' = spent
  <1>1. CASE \/ PassTime \/ SendTick \/ SendSpot \/ SubscribeCurrent
             \/ SettleDone \/ PollMaintenance \/ SignalsDone
    BY <1>1 DEF PassTime, SendTick, SendSpot, Send, SubscribeCurrent, SettleDone,
                PollMaintenance, SignalsDone, ledger
  <1>2. CASE DiscoverInitial
    BY <1>2 DEF DiscoverInitial, WarmUp, book, ledger
  <1>3. CASE FindNext
    BY <1>3 DEF FindNext, CreateWindow, book, ledger
  <1>4. CASE BeginPromotion
    BY <1>4 DEF BeginPromotion, QueueWindow, MarkPending, book, ledger
  <1>5. CASE PromoteNext
    BY <1>5 DEF PromoteNext, PromoteWindow, book
  <1>6. CASE CaptureOnPromotion
    BY <1>6 DEF CaptureOnPromotion, CapturePtb, StorePtb, book, ledger
  <1>7. ASSUME NEW w \in Windows, SettleOne(w)
        PROVE  spent' = spent
    BY <1>7 DEF SettleOne, CloseWindow
  <1>8. CASE Monitor
    BY <1>8 DEF Monitor, QueueWindow, MarkPending, book, ledger
  <1>9. CASE SpotTick
    BY <1>9 DEF SpotTick, CapturePtb, StorePtb, book, ledger
  <1>10. CASE MarketTick
    BY <1>10 DEF MarketTick, StorePrices, book
  <1> QED BY <1>1, <1>2, <1>3, <1>4, <1>5, <1>6, <1>7, <1>8, <1>9, <1>10
             DEF LifecycleNext, Handler

LEMMA SpentByOrders ==
  ASSUME LifecycleInv, ExecuteSignal, NEW w \in Windows, w # job.window
  PROVE  spent'[w] = spent[w]
  <1>1. spent \in [Windows -> Nat]
    BY DEF LifecycleInv, LifecycleTypeOK, LedgerTypeOK
  <1> DEFINE v == job.window
  <1>2. PICK side \in Sides, amount \in Amounts, price \in Prices \ {0} :
          PaperBuy(v, side, amount, price) \/ PaperSell(v, side, amount, price)
    BY DEF ExecuteSignal
  <1>3. w # v
    OBVIOUS
  <1> HIDE DEF v
  <1>4. CASE PaperBuy(v, side, amount, price)
    BY <1>1, <1>3, <1>4
       DEF PaperBuy, Buy, ExecuteBuy, RecordExternalBuy, BookBuy
  <1>5. CASE PaperSell(v, side, amount, price)
    BY <1>5 DEF PaperSell, ExecuteSell, Sell
  <1> QED BY <1>2, <1>4, <1>5

LEMMA OrderInTime ==
  ASSUME LifecycleInv, HandlersInTime, [LifecycleNext]_vars,
         NEW w \in Windows, spent'[w] > spent[w]
  PROVE  /\ clock > Start(w) - Sec
         /\ MaxClobAge > 0 => clock <= End(w) - Sec + MaxClobAge
  <1>1. spent[w] \in Nat
    BY DEF LifecycleInv, LifecycleTypeOK, LedgerTypeOK
  <1>2. spent'[w] # spent[w]
    BY <1>1
  <1>3. LifecycleNext
    BY <1>2 DEF vars, ledger
  <1>4. ExecuteSignal
    BY <1>2, <1>3, SpentKept
  <1>5. w = job.window
    BY <1>2, <1>4, SpentByOrders
  <1>6. pc = "trade" /\ w \in Promoted
    BY <1>4, <1>5, WindowNumbers
       DEF ExecuteSignal, LifecycleInv, HandlerState, NoWindow
  <1> QED BY <1>5, <1>6 DEF HandlersInTime

\* An order of a CLOB tick (process_event, run_j_endgame_live_tick) is booked
\* less than a second before the start of its window at the earliest, and at
\* max_clob_age_ms past the last second before its end at the latest.
THEOREM OrdersAreNearWindow == LifecycleSpec => OrdersNearWindow
  <1>1. LifecycleInv /\ HandlersInTime /\ [LifecycleNext]_vars =>
          [\A w \in Windows : spent'[w] > spent[w] =>
             /\ clock > Start(w) - Sec
             /\ MaxClobAge > 0 => clock <= End(w) - Sec + MaxClobAge]_vars
    BY OrderInTime
  <1> QED BY <1>1, LifecycleInvariant, OrdersInTimeInvariant, PTL
             DEF LifecycleSpec, OrdersNearWindow

-----------------------------------------------------------------------------
(* The price a window was closed at is not replaced                        *)

\* What the proofs below need of the types.
LEMMA PriceTypes ==
  ASSUME LifecycleInv
  PROVE  /\ settled_by \in [Windows -> Windows \cup {-1}]
         /\ settled_at \in [Windows -> Nat]
         /\ price_to_beat \in [Windows -> Nat]
         /\ \A w \in Windows : settled_by[w] >= 0 => settled_by[w] \in Windows
  <1>1. /\ settled_by \in [Windows -> Windows \cup {-1}]
        /\ settled_at \in [Windows -> Nat]
        /\ price_to_beat \in [Windows -> Nat]
    BY DEF LifecycleInv, LifecycleTypeOK, LoopTypeOK, LedgerTypeOK
  <1>2. ~(-1 >= 0)
    OBVIOUS
  <1> QED BY <1>1, <1>2

\* A step that stores no PTB and settles nothing disturbs nothing, unless it starts
\* to apply a price.
LEMMA PricesUntouched ==
  ASSUME LifecycleInv, PricesStand, WindowsKept,
         UNCHANGED <<price_to_beat, settled_by, settled_at>>,
         ptb_locked_windows \subseteq ptb_locked_windows',
         \/ pc' # "settle"
         \/ UNCHANGED <<pc, job>>
         \/ job'.price = price_to_beat[job'.window]
  PROVE  PricesStand'
  <1>1. SettlementPriceStands'
    BY DEF PricesStand, SettlementPriceStands
  <1>2. SettlersPriced'
    BY DEF PricesStand, SettlersPriced, WindowsKept
  <1>3. AppliedPriceHeld'
    BY DEF PricesStand, AppliedPriceHeld
  <1>4. ImplausibleLocked'
    BY DEF PricesStand, ImplausibleLocked
  <1> QED BY <1>1, <1>2, <1>3, <1>4 DEF PricesStand

\* A PTB stored in a window that settled nothing yet moves no settlement.
LEMMA PricesStored ==
  ASSUME LifecycleInv, PricesStand, WindowsKept,
         NEW w \in Windows, NEW ptb, ptb \in Nat,
         \A v \in Windows : settled_by[v] # w,
         price_to_beat' = [price_to_beat EXCEPT ![w] = ptb],
         UNCHANGED <<settled_by, settled_at>>,
         ptb_locked_windows \subseteq ptb_locked_windows',
         ptb > 0 /\ ptb \in Implausible => w \in ptb_locked_windows',
         pc' = "settle" => job'.window = w /\ job'.price = ptb
  PROVE  PricesStand'
  <1>1. /\ price_to_beat'[w] = ptb
        /\ \A v \in Windows : v # w => price_to_beat'[v] = price_to_beat[v]
    BY PriceTypes
  <1>2. SettlementPriceStands'
    BY <1>1, PriceTypes DEF PricesStand, SettlementPriceStands
  <1>3. SettlersPriced'
    BY <1>1, PriceTypes DEF PricesStand, SettlersPriced, WindowsKept
  <1>4. AppliedPriceHeld'
    BY <1>1 DEF AppliedPriceHeld
  <1>5. ImplausibleLocked'
    BY <1>1 DEF PricesStand, ImplausibleLocked
  <1> QED BY <1>2, <1>3, <1>4, <1>5 DEF PricesStand

\* A window that is not promoted yet has settled nothing.
LEMMA UnpromotedSettledNone ==
  ASSUME LifecycleInv, PricesStand, NEW w \in Windows, w \notin Promoted
  PROVE  \A v \in Windows : settled_by[v] # w
  BY WindowNumbers DEF PricesStand, SettlersPriced

\* The PTB of CURRENT is captured while it has none, for a published one is
\* plausible and a captured one locked; then it has settled nothing.
LEMMA PricesCaptured ==
  ASSUME LifecycleInv, PricesStand, WindowsKept,
         NEW price, NEW at, NEW then, price \in SpotPrices \cup {0}, pc # "promote",
         Captures(price, at), CapturePtb(price, then), UNCHANGED history
  PROVE  PricesStand'
  <1> DEFINE w == current_window.number
  <1>1. price \in PtbValues /\ w \in Windows
    BY CapturePtbRefines
  <1>2. price \in Nat /\ w >= 0
    BY <1>1, WindowNumbers, InputsAssumption
  <1>3. /\ price_to_beat' = [price_to_beat EXCEPT ![w] = price]
        /\ ptb_locked_windows' = ptb_locked_windows \cup {w}
        /\ job' = [window |-> w, price |-> price, then |-> then, signals |-> 0]
    BY DEF CapturePtb, StorePtb, SettleThen
  <1>4. current_window.ptb = price_to_beat[w]
    BY <1>2 DEF LifecycleInv, CloneIsCurrent
  <1>5. w \notin ptb_locked_windows /\ (price_to_beat[w] = 0 \/ price_to_beat[w] \in Implausible)
    BY <1>4 DEF Captures, Capturable
  <1>6. price_to_beat[w] \in Nat
    BY <1>1, PriceTypes
  <1> HIDE DEF w
  <1>7. price_to_beat[w] = 0
    BY <1>1, <1>5, <1>6 DEF PricesStand, ImplausibleLocked
  <1>8. \A v \in Windows : settled_by[v] # w
    BY <1>2, <1>7 DEF PricesStand, SettlersPriced
  <1>9. job'.window = w /\ job'.price = price
    BY <1>3
  <1>10. settled_by' = settled_by /\ settled_at' = settled_at
    BY DEF history
  <1> QED BY <1>1, <1>2, <1>3, <1>8, <1>9, <1>10, PricesStored

\* Closing w at the price being applied names the window whose PTB that is.
LEMMA PricesApplied ==
  ASSUME LifecycleInv, PricesStand, WindowsKept, NEW w \in Windows, SettleOne(w)
  PROVE  PricesStand'
  <1>1. /\ pc = "settle" /\ UNCHANGED <<pc, job, price_to_beat, ptb_locked_windows>>
        /\ settled_by' = [settled_by EXCEPT ![w] = job.window]
        /\ settled_at' = [settled_at EXCEPT ![w] = job.price]
    BY DEF SettleOne, CloseWindow
  <1>2. job.window = current_window.number /\ job.window >= 0 /\ job.price # 0
    BY <1>1 DEF LifecycleInv, HandlerState
  <1>3. job.window \in Promoted /\ job.window \in Windows
    BY <1>2 DEF LifecycleInv, HandlerState, NoWindow, Promoted
  <1>4. job.price = price_to_beat[job.window]
    BY <1>1 DEF PricesStand, AppliedPriceHeld
  <1>5. price_to_beat[job.window] > 0
    BY <1>2, <1>3, <1>4, PriceTypes
  <1>6. /\ settled_by'[w] = job.window /\ settled_at'[w] = job.price
        /\ \A v \in Windows : v # w => /\ settled_by'[v] = settled_by[v]
                                       /\ settled_at'[v] = settled_at[v]
    BY <1>1, PriceTypes
  <1>7. SettlementPriceStands'
    BY <1>1, <1>4, <1>6 DEF PricesStand, SettlementPriceStands
  <1>8. SettlersPriced'
    BY <1>1, <1>3, <1>5, <1>6 DEF PricesStand, SettlersPriced, WindowsKept
  <1>9. AppliedPriceHeld' /\ ImplausibleLocked'
    BY <1>1, <1>4 DEF PricesStand, AppliedPriceHeld, ImplausibleLocked
  <1> QED BY <1>7, <1>8, <1>9 DEF PricesStand

\* A published PTB enters the ledger with its window, before the window settles
\* anything, and is plausible.
LEMMA PricesOpened ==
  ASSUME PublishedPtbs \cap Implausible = {},
         LifecycleInv, PricesStand, WindowsKept,
         NEW w \in Windows, status[w] = "NONE", NEW ptb \in PublishedPtbs,
         price_to_beat' = [price_to_beat EXCEPT ![w] = ptb],
         UNCHANGED <<history, ptb_locked_windows>>, pc' # "settle"
  PROVE  PricesStand'
  <1>1. ptb \in Nat /\ ptb \notin Implausible
    BY FeedAssumption, InputsAssumption
  <1>2. \A v \in Windows : settled_by[v] # w
    BY UnpromotedSettledNone DEF Promoted
  <1> QED BY <1>1, <1>2, PricesStored DEF history

LEMMA PricesStep ==
  ASSUME PublishedPtbs \cap Implausible = {},
         LifecycleInv, PricesStand, LifecycleNext
  PROVE  PricesStand'
  <1>1. WindowsKept
    BY LedgerKept
  <1>2. CASE \/ PassTime \/ SendTick \/ SendSpot \/ SubscribeCurrent
             \/ PollMaintenance \/ SignalsDone
    <2>1. /\ UNCHANGED <<price_to_beat, history, ptb_locked_windows>>
          /\ pc' # "settle" \/ UNCHANGED <<pc, job>>
      BY <1>2 DEF PassTime, SendTick, SendSpot, Send, SubscribeCurrent,
                  PollMaintenance, SignalsDone, app, ledger
    <2> QED BY <1>1, <2>1, PricesUntouched DEF history
  <1>3. CASE DiscoverInitial
    <2>1. /\ UNCHANGED <<history, ptb_locked_windows>> /\ pc' = "discover"
          /\ status[0] = "NONE" /\ 0 \in Windows
      BY <1>3, WarmUpAssumption DEF DiscoverInitial, LifecycleInv, NumbersInOrder
    <2>2. CASE UNCHANGED <<ledger, slot, current_window, current_sub>>
      BY <1>1, <2>1, <2>2, PricesUntouched DEF ledger, history
    <2>3. ASSUME NEW ptb \in PublishedPtbs, WarmUp(0, ptb)
          PROVE  PricesStand'
      BY <1>1, <2>1, <2>3, PricesOpened DEF WarmUp
    <2> QED BY <1>3, <2>2, <2>3 DEF DiscoverInitial
  <1>4. CASE FindNext
    <2>1. UNCHANGED <<history, ptb_locked_windows>> /\ pc' = "loop"
      BY <1>4 DEF FindNext
    <2>2. CASE UNCHANGED <<ledger, slot, next_window, next_sub>>
      BY <1>1, <2>1, <2>2, PricesUntouched DEF ledger, history
    <2> DEFINE n == next_window_number
    <2>3. ASSUME NEW ptb \in PublishedPtbs, n \in Windows, CreateWindow(n, ptb)
          PROVE  PricesStand'
      <3>1. status[n] = "NONE"
        BY <1>4, <2>3, WindowNumbers
           DEF FindNext, LifecycleInv, NumbersInOrder, HandlerState
      <3>2. price_to_beat' = [price_to_beat EXCEPT ![n] = ptb]
        BY <2>3 DEF CreateWindow
      <3> HIDE DEF n
      <3> QED BY <1>1, <2>1, <2>3, <3>1, <3>2, PricesOpened
    <2> QED BY <1>4, <2>2, <2>3 DEF FindNext
  <1>5. CASE BeginPromotion \/ Monitor
    <2>1. /\ UNCHANGED <<history, ptb_locked_windows>>
          /\ pc' # "settle"
      BY <1>5 DEF BeginPromotion, Monitor
    <2>2. price_to_beat' = price_to_beat
      BY <1>5 DEF BeginPromotion, Monitor, QueueWindow, MarkPending, ledger
    <2> QED BY <1>1, <2>1, <2>2, PricesUntouched DEF history
  <1>6. CASE PromoteNext
    <2>1. /\ UNCHANGED <<history, ptb_locked_windows, price_to_beat>>
          /\ \/ pc' = "capture"
             \/ job' = [window |-> next_window, price |-> price_to_beat[next_window],
                        then |-> "capture", signals |-> 0]
      BY <1>6 DEF PromoteNext, PromoteWindow, SettleThen
    <2>2. pc' # "settle" \/ job'.price = price_to_beat[job'.window]
      BY <2>1
    <2> QED BY <1>1, <2>1, <2>2, PricesUntouched DEF history
  <1>7. CASE CaptureOnPromotion
    <2>1. UNCHANGED history /\ pc = "capture"
      BY <1>7 DEF CaptureOnPromotion
    <2>2. CASE /\ Captures(spot.price, spot.at)
               /\ CapturePtb(spot.price, "subscribe")
      <3>1. spot.price \in SpotPrices \cup {0}
        BY DEF LifecycleInv, LifecycleTypeOK, LoopTypeOK
      <3> QED BY <1>1, <2>1, <2>2, <3>1, PricesCaptured
    <2>3. CASE /\ pc' = "subscribe"
               /\ UNCHANGED <<ledger, current_window, ptb_locked_windows, job>>
      BY <1>1, <2>1, <2>3, PricesUntouched DEF ledger, history
    <2> QED BY <1>7, <2>2, <2>3 DEF CaptureOnPromotion
  <1>8. ASSUME NEW w \in Windows, SettleOne(w)
        PROVE  PricesStand'
    BY <1>1, <1>8, PricesApplied
  <1>9. CASE SettleDone
    <2>1. job.then \in Handlers
      BY DEF LifecycleInv, LifecycleTypeOK, LoopTypeOK, Job
    <2>2. /\ UNCHANGED <<price_to_beat, history, ptb_locked_windows>>
          /\ pc' # "settle"
      BY <1>9, <2>1 DEF SettleDone, Handlers, app, ledger
    <2> QED BY <1>1, <2>2, PricesUntouched DEF history
  <1>10. CASE SpotTick
    <2> DEFINE event == Head(chan)
               rest  == IF NeedsPoll THEN "poll" ELSE "loop"
    <2>1. /\ UNCHANGED history /\ pc = "loop"
          /\ event.price \in SpotPrices \cup {0}
          /\ rest # "settle"
      BY <1>10, Receiving DEF SpotTick, Receive, Event
    <2>2. \/ Captures(event.price, event.at) /\ CapturePtb(event.price, rest)
          \/ /\ pc' \in {rest, pc}
             /\ UNCHANGED <<ledger, current_window, ptb_locked_windows, job>>
      BY <1>10 DEF SpotTick
    <2> HIDE DEF event, rest
    <2>3. CASE Captures(event.price, event.at) /\ CapturePtb(event.price, rest)
      BY <1>1, <2>1, <2>3, PricesCaptured
    <2>4. CASE /\ pc' \in {rest, pc}
               /\ UNCHANGED <<ledger, current_window, ptb_locked_windows, job>>
      BY <1>1, <2>1, <2>4, PricesUntouched DEF ledger, history
    <2> QED BY <2>2, <2>3, <2>4
  <1>11. CASE MarketTick
    <2>1. /\ UNCHANGED <<price_to_beat, history, ptb_locked_windows>>
          /\ pc' # "settle"
      BY <1>11 DEF MarketTick, Receive, StorePrices
    <2> QED BY <1>1, <2>1, PricesUntouched DEF history
  <1>12. CASE ExecuteSignal
    <2>1. /\ UNCHANGED <<price_to_beat, history, ptb_locked_windows>>
          /\ pc' # "settle"
      BY <1>12, ExecuteSignalRefines DEF ExecuteSignal, app
    <2> QED BY <1>1, <2>1, PricesUntouched DEF history
  <1> QED BY <1>2, <1>3, <1>4, <1>5, <1>6, <1>7, <1>8, <1>9, <1>10, <1>11, <1>12
             DEF LifecycleNext, Handler

\* While no market publishes a PTB that ptb_implausible rejects, the price a window
\* was closed at (try_settle_pending_windows) stays the PTB its successor is judged
\* against: evaluate_ptb_capture does not replace it afterwards.
THEOREM SettlementPriceAlwaysStands ==
  ASSUME PublishedPtbs \cap Implausible = {}
  PROVE  LifecycleSpec => []SettlementPriceStands
  <1>1. LifecycleInit => PricesStand
    BY DEF LifecycleInit, LedgerInit, PricesStand, SettlementPriceStands,
           SettlersPriced, AppliedPriceHeld, ImplausibleLocked
  <1>2. LifecycleInv /\ PricesStand /\ [LifecycleNext]_vars => PricesStand'
    <2>1. ASSUME LifecycleInv, PricesStand, UNCHANGED vars
          PROVE  PricesStand'
      BY <2>1 DEF PricesStand, SettlementPriceStands, SettlersPriced,
                  AppliedPriceHeld, ImplausibleLocked, Promoted, vars, app, history, ledger
    <2> QED BY <2>1, PricesStep
  <1>3. PricesStand => SettlementPriceStands
    BY DEF PricesStand
  <1> QED BY <1>1, <1>2, <1>3, LifecycleInvariant, PTL DEF LifecycleSpec

-----------------------------------------------------------------------------
(* The profit is that of the closed windows                                *)

\* Windows that were closed.
Closed == {w \in Windows : status[w] = "CLOSED_TIME"}

\* Finitely many windows have a number given out, so sums over the closed ones exist.
LEMMA ClosedAreFinite == ASSUME LifecycleInv PROVE IsFiniteSet(Closed)
  <1>1. next_window_number \in Nat
    BY DEF LifecycleInv, LifecycleTypeOK, LoopTypeOK
  <1>2. \A w \in Closed : w \in 0 .. next_window_number
    BY <1>1, WindowNumbers DEF LifecycleInv, NumbersInOrder, Closed
  <1>3. IsFiniteSet(0 .. next_window_number)
    BY <1>1, FS_Interval
  <1> QED BY <1>2, <1>3, FS_Subset

LEMMA BookTypes ==
  ASSUME LifecycleInv
  PROVE  /\ spent \in [Windows -> Nat] /\ cash_returned \in [Windows -> Nat]
         /\ overall_realized_pnl \in Int /\ status \in [Windows -> Statuses]
  BY DEF LifecycleInv, LifecycleTypeOK, LedgerTypeOK

\* Only settlements and orders move money or close windows.
LEMMA BooksKept ==
  ASSUME LifecycleInv, LifecycleNext, ~ExecuteSignal, \A w \in Windows : ~SettleOne(w)
  PROVE  /\ UNCHANGED <<spent, cash_returned, overall_realized_pnl>>
         /\ Closed' = Closed
  <1>1. status \in [Windows -> Statuses]
    BY BookTypes
  <1> DEFINE Kept == UNCHANGED <<spent, cash_returned, overall_realized_pnl>>
             Moved(w, st) == /\ w \in Windows /\ st # "CLOSED_TIME"
                             /\ status[w] # "CLOSED_TIME"
                             /\ status' = [status EXCEPT ![w] = st]
  <1>2. ASSUME NEW w, NEW st, Moved(w, st)
        PROVE  Closed' = Closed
    BY <1>1, <1>2 DEF Closed
  <1>3. status' = status => Closed' = Closed
    BY DEF Closed
  <1> HIDE DEF Moved
  <1>4. CASE \/ PassTime \/ SendTick \/ SendSpot \/ SubscribeCurrent
             \/ SettleDone \/ PollMaintenance \/ SignalsDone
    <2>1. UNCHANGED ledger
      BY <1>4 DEF PassTime, SendTick, SendSpot, Send, SubscribeCurrent, SettleDone,
                  PollMaintenance, SignalsDone
    <2> QED BY <1>3, <2>1 DEF ledger
  <1>5. CASE DiscoverInitial
    <2>1. CASE UNCHANGED ledger
      BY <1>3, <2>1 DEF ledger
    <2>2. ASSUME NEW ptb, WarmUp(0, ptb)
          PROVE  Kept /\ Closed' = Closed
      <3>1. Moved(0, "SKIPPED")
        BY <1>5, <2>2, WarmUpAssumption
           DEF Moved, WarmUp, DiscoverInitial, LifecycleInv, NumbersInOrder
      <3> QED BY <1>2, <2>2, <3>1 DEF WarmUp, book
    <2> QED BY <1>5, <2>1, <2>2 DEF DiscoverInitial
  <1>6. CASE FindNext
    <2>1. CASE UNCHANGED ledger
      BY <1>3, <2>1 DEF ledger
    <2> DEFINE n == next_window_number
    <2>2. ASSUME NEW ptb, n \in Windows, CreateWindow(n, ptb)
          PROVE  Kept /\ Closed' = Closed
      <3>1. status[n] = "NONE"
        BY <1>6, <2>2, WindowNumbers
           DEF FindNext, LifecycleInv, NumbersInOrder, HandlerState
      <3>2. Moved(n, "WAITING_ENTRY")
        BY <2>2, <3>1 DEF Moved, CreateWindow
      <3> QED BY <1>2, <2>2, <3>2 DEF CreateWindow, tally, book
    <2> QED BY <1>6, <2>1, <2>2 DEF FindNext
  <1>7. ASSUME Unfinished, pc = "loop", QueueWindow(current_window.number)
        PROVE  Kept /\ Closed' = Closed
    <2> DEFINE w == current_window.number
    <2>1. Moved(w, "PENDING_SETTLEMENT")
      BY <1>7, QueueWindowKeeps, QueueWindowRefines DEF Moved
    <2>2. MarkPending(w)
      BY <1>7, QueueWindowRefines DEF QueueWindow
    <2> HIDE DEF w
    <2> QED BY <1>2, <2>1, <2>2 DEF MarkPending, tally, book
  <1>8. CASE BeginPromotion \/ Monitor
    <2>1. CASE UNCHANGED ledger
      BY <1>3, <2>1 DEF ledger
    <2> QED BY <1>7, <1>8, <2>1 DEF BeginPromotion, Monitor
  <1>9. CASE PromoteNext
    <2>1. Moved(next_window, "LIVE") /\ PromoteWindow(next_window, TRUE)
      BY <1>9, PromoteNextRefines DEF Moved, PromoteNext, PromoteWindow
    <2> QED BY <1>2, <2>1 DEF PromoteWindow, book
  <1>10. CASE CaptureOnPromotion \/ SpotTick
    <2>1. \/ UNCHANGED ledger
          \/ \E ptb : StorePtb(current_window.number, ptb)
      BY <1>10 DEF CaptureOnPromotion, SpotTick, CapturePtb
    <2>2. ASSUME NEW ptb, StorePtb(current_window.number, ptb)
          PROVE  Kept /\ Closed' = Closed
      BY <1>3, <2>2 DEF StorePtb, tally, book
    <2>3. CASE UNCHANGED ledger
      BY <1>3, <2>3 DEF ledger
    <2> QED BY <2>1, <2>2, <2>3
  <1>11. CASE MarketTick
    BY <1>3, <1>11 DEF MarketTick, StorePrices, tally, book
  <1> QED BY <1>4, <1>5, <1>6, <1>8, <1>9, <1>10, <1>11 DEF LifecycleNext, Handler

\* While the closed windows and their books stand, so does the sum.
LEMMA PnlKept ==
  ASSUME LifecycleInv, PnlMatchesClosed, Closed' = Closed,
         overall_realized_pnl' = overall_realized_pnl,
         \A w \in Closed : spent'[w] = spent[w] /\ cash_returned'[w] = cash_returned[w]
  PROVE  PnlMatchesClosed'
  <1>1. overall_realized_pnl = SumFunctionOnSet(cash_returned, Closed)
                               - SumFunctionOnSet(spent, Closed)
    BY DEF PnlMatchesClosed, Closed
  <1>2. /\ SumFunctionOnSet(spent', Closed) = SumFunctionOnSet(spent, Closed)
        /\ SumFunctionOnSet(cash_returned', Closed) = SumFunctionOnSet(cash_returned, Closed)
    BY ClosedAreFinite, SumSame
  <1>3. overall_realized_pnl' = SumFunctionOnSet(cash_returned', Closed')
                                - SumFunctionOnSet(spent', Closed')
    BY <1>1, <1>2
  <1> QED BY <1>3 DEF PnlMatchesClosed, Closed

\* A close adds what the window made; one that never bought made nothing.
LEMMA PnlSettled ==
  ASSUME LifecycleInv, UntradedIsEmpty, PnlMatchesClosed,
         NEW w \in Windows, SettleOne(w)
  PROVE  PnlMatchesClosed'
  <1> DEFINE proceeds == CloseProceeds(w, job.price)
             C == Closed
             Cash(S) == SumFunctionOnSet(cash_returned', S)
             Spent(S) == SumFunctionOnSet(spent', S)
  <1>1. /\ status[w] = "PENDING_SETTLEMENT"
        /\ status' = [status EXCEPT ![w] = "CLOSED_TIME"]
        /\ cash_returned' = [cash_returned EXCEPT ![w] = @ + proceeds]
        /\ spent' = spent
        /\ IF spent[w] > 0
           THEN overall_realized_pnl' = overall_realized_pnl
                                        + (cash_returned[w] + proceeds - spent[w])
           ELSE overall_realized_pnl' = overall_realized_pnl
    BY SettleOneRefines DEF SettleOne, CloseWindow, Counts
  <1>2. w \notin C /\ Closed' = C \cup {w} /\ IsFiniteSet(C) /\ C \subseteq Windows
    BY <1>1, BookTypes, ClosedAreFinite DEF Closed
  <1>3. proceeds \in Nat
    <2>1. job.price \in Nat
      <3>1. job \in Job
        BY DEF LifecycleInv, LifecycleTypeOK, LoopTypeOK
      <3>2. \A x \in PtbValues \cup {0} : x \in Nat
        BY InputsAssumption
      <3> QED BY <3>1, <3>2 DEF Job
    <2> QED BY <2>1, CloseProceedsType DEF LifecycleInv, LifecycleTypeOK
  <1>4. spent[w] = 0 => cash_returned[w] = 0 /\ proceeds = 0
    <2>1. spent[w] = 0 => cash_returned[w] = 0 /\ shares[w] = NoShares
      BY DEF UntradedIsEmpty
    <2>2. Winner(w, job.price) \in Sides /\ "UP" \in Sides /\ "DOWN" \in Sides
      BY DEF Winner, Sides
    <2>3. ASSUME shares[w] = NoShares
          PROVE  /\ shares[w][Winner(w, job.price)] = 0
                 /\ shares[w]["UP"] = 0 /\ shares[w]["DOWN"] = 0
      BY <2>2, <2>3 DEF NoShares
    <2>4. Unit \in Nat /\ bid[w]["UP"] \in Nat /\ bid[w]["DOWN"] \in Nat
      BY <2>2, UnitAssumption DEF LifecycleInv, LifecycleTypeOK, LedgerTypeOK
    <2>5. \A n \in Nat : 0 * n = 0
      OBVIOUS
    <2> QED BY <2>1, <2>3, <2>4, <2>5 DEF CloseProceeds
  <1> HIDE DEF proceeds, C
  <1>5. /\ \A v \in C : cash_returned'[v] = cash_returned[v]
        /\ cash_returned'[w] = cash_returned[w] + proceeds
        /\ \A v \in Windows : cash_returned'[v] \in Int /\ spent'[v] \in Int
    BY <1>1, <1>2, <1>3, BookTypes
  <1>6. /\ Cash(C \cup {w}) = cash_returned'[w] + Cash(C)
        /\ Spent(C \cup {w}) = spent'[w] + Spent(C)
    BY <1>2, <1>5, SumWith
  <1>7. Cash(C) \in Int /\ Spent(C) \in Int
    BY <1>2, <1>5, SumType
  <1>8. Cash(C) = SumFunctionOnSet(cash_returned, C) /\ Spent(C) = SumFunctionOnSet(spent, C)
    <2>1. IsFiniteSet(C) /\ \A v \in C : cash_returned'[v] = cash_returned[v]
      BY <1>2, <1>5
    <2>2. spent' = spent
      BY <1>1
    <2> HIDE DEF C
    <2>3. Cash(C) = SumFunctionOnSet(cash_returned, C)
      BY <2>1, SumSame
    <2> QED BY <2>2, <2>3
  <1>9. overall_realized_pnl = Cash(C) - Spent(C)
    BY <1>8 DEF PnlMatchesClosed, Closed, C
  <1>10. overall_realized_pnl' = Cash(C \cup {w}) - Spent(C \cup {w})
    <2>1. spent[w] \in Nat /\ cash_returned[w] \in Nat /\ spent'[w] = spent[w]
      BY <1>1, BookTypes
    <2> HIDE DEF Cash, Spent
    <2>2. CASE spent[w] > 0
      BY <1>1, <1>3, <1>5, <1>6, <1>7, <1>9, <2>1, <2>2
    <2>3. CASE spent[w] = 0
      BY <1>1, <1>3, <1>4, <1>5, <1>6, <1>7, <1>9, <2>1, <2>3
    <2> QED BY <2>1, <2>2, <2>3
  <1> QED BY <1>2, <1>10 DEF PnlMatchesClosed, Closed

\* An order in a window that is not closed is no closed window's business.
LEMMA PnlTraded ==
  ASSUME LifecycleInv, PnlMatchesClosed, ExecuteSignal, job.window \notin Closed
  PROVE  PnlMatchesClosed'
  <1> DEFINE v == job.window
  <1>1. PICK side \in Sides, amount \in Amounts, price \in Prices \ {0} :
          PaperBuy(v, side, amount, price) \/ PaperSell(v, side, amount, price)
    BY DEF ExecuteSignal
  <1>2. v \notin Closed
    OBVIOUS
  <1>3. Closed' = Closed
    BY ExecuteSignalRefines DEF Closed
  <1> HIDE DEF v
  <1>4. /\ overall_realized_pnl' = overall_realized_pnl
        /\ \A w \in Windows : w # v => spent'[w] = spent[w] /\ cash_returned'[w] = cash_returned[w]
    <2>1. CASE PaperBuy(v, side, amount, price)
      BY <2>1, BookTypes DEF PaperBuy, Buy, ExecuteBuy, RecordExternalBuy, BookBuy
    <2>2. CASE PaperSell(v, side, amount, price)
      BY <2>2, BookTypes DEF PaperSell, ExecuteSell, Sell, tally
    <2> QED BY <1>1, <2>1, <2>2
  <1>5. \A w \in Closed : spent'[w] = spent[w] /\ cash_returned'[w] = cash_returned[w]
    BY <1>2, <1>4 DEF Closed
  <1> QED BY <1>3, <1>4, <1>5, PnlKept

LEMMA EventTimes ==
  ASSUME LifecycleInv
  PROVE  /\ chan \in Seq(Event) /\ clock \in Nat /\ spot.at \in Int
         /\ \A e \in Event : e.at \in Int
  <1>1. /\ chan \in Seq(Event) /\ clock \in Nat
        /\ spot \in [price : SpotPrices \cup {0}, at : Int, received : Int]
    BY DEF LifecycleInv, LifecycleTypeOK, LoopTypeOK
  <1>2. \A e \in Event : e.at \in Nat
    BY DEF Event
  <1>3. \A n \in Nat : n \in Int
    OBVIOUS
  <1> QED BY <1>1, <1>2, <1>3

\* Sending keeps the channel in order, for an event is stamped when it is sent.
LEMMA EventsSent ==
  ASSUME LifecycleInv, EventsInOrder, NEW event \in Event, event.at = clock, Send(event)
  PROVE  EventsInOrder'
  <1>1. /\ chan \in Seq(Event) /\ clock \in Nat /\ spot.at \in Int
        /\ \A e \in Event : e.at \in Int
    BY EventTimes
  <1>2. chan' = Append(chan, event) /\ UNCHANGED <<clock, spot>>
    BY DEF Send, app
  <1>3. /\ Len(chan) \in Nat /\ Len(chan') = Len(chan) + 1
        /\ \A i \in 1 .. Len(chan) : chan'[i] = chan[i] /\ chan[i] \in Event
        /\ chan'[Len(chan) + 1] = event
    BY <1>1, <1>2, AppendProperties
  <1>4. /\ spot.at <= clock
        /\ \A i \in 1 .. Len(chan) : spot.at <= chan[i].at /\ chan[i].at <= clock
        /\ \A i, j \in 1 .. Len(chan) : i <= j => chan[i].at <= chan[j].at
    BY DEF EventsInOrder
  <1>5. \A i \in 1 .. Len(chan') : i \in 1 .. Len(chan) \/ i = Len(chan) + 1
    BY <1>3
  <1>6. \A i \in 1 .. Len(chan') : spot.at <= chan'[i].at /\ chan'[i].at <= clock
    BY <1>3, <1>4, <1>5, <1>1
  <1>7. ASSUME NEW i \in 1 .. Len(chan'), NEW j \in 1 .. Len(chan'), i <= j
        PROVE  chan'[i].at <= chan'[j].at
    <2>1. CASE j \in 1 .. Len(chan)
      <3>1. i \in 1 .. Len(chan)
        BY <1>3, <1>7, <2>1
      <3> QED BY <1>3, <1>4, <1>7, <2>1, <3>1
    <2>2. CASE j = Len(chan) + 1
      BY <1>3, <1>6, <2>2
    <2> QED BY <1>5, <2>1, <2>2
  <1> QED BY <1>2, <1>4, <1>6, <1>7 DEF EventsInOrder

\* Receiving takes the oldest event; those left are not older.
LEMMA EventsReceived ==
  ASSUME LifecycleInv, EventsInOrder, NEW kind, Receive(kind)
  PROVE  /\ spot.at <= Head(chan).at /\ Head(chan).at <= clock
         /\ \A i \in 1 .. Len(chan') : /\ spot.at <= chan'[i].at /\ chan'[i].at <= clock
                                       /\ Head(chan).at <= chan'[i].at
         /\ \A i, j \in 1 .. Len(chan') : i <= j => chan'[i].at <= chan'[j].at
  <1>1. chan \in Seq(Event) /\ chan # <<>> /\ chan' = Tail(chan)
    BY DEF LifecycleInv, LifecycleTypeOK, LoopTypeOK, Receive
  <1>2. /\ Len(Tail(chan)) = Len(chan) - 1
        /\ \A i \in 1 .. Len(Tail(chan)) : Tail(chan)[i] = chan[i+1]
    BY <1>1, HeadTailProperties
  <1>3. Len(chan) \in Nat /\ Len(chan) > 0 /\ Head(chan) = chan[1] /\ 1 \in 1 .. Len(chan)
    BY <1>1
  <1>4. \A i \in 1 .. Len(chan') : i + 1 \in 1 .. Len(chan) /\ 1 <= i + 1 /\ chan'[i] = chan[i+1]
    BY <1>1, <1>2, <1>3
  <1>5. /\ \A i \in 1 .. Len(chan) : spot.at <= chan[i].at /\ chan[i].at <= clock
        /\ \A i, j \in 1 .. Len(chan) : i <= j => chan[i].at <= chan[j].at
    BY DEF EventsInOrder
  <1>6. \A i, j \in 1 .. Len(chan') : i <= j => i + 1 <= j + 1
    OBVIOUS
  <1> QED BY <1>3, <1>4, <1>5, <1>6

LEMMA EventsStep ==
  ASSUME LifecycleInv, EventsInOrder, LifecycleNext
  PROVE  EventsInOrder' /\ spot.at <= spot'.at
  <1>1. clock \in Nat /\ spot.at \in Int /\ chan \in Seq(Event) /\ \A e \in Event : e.at \in Int
    BY EventTimes
  <1>2. CASE PassTime
    <2>1. clock' = clock + 1 /\ UNCHANGED <<chan, spot>>
      BY <1>2 DEF PassTime, app
    <2>2. \A i \in 1 .. Len(chan) : chan[i].at \in Int
      BY <1>1
    <2> QED BY <1>1, <2>1, <2>2 DEF EventsInOrder
  <1>3. CASE SendTick \/ SendSpot
    <2>1. PICK event \in Event : event.at = clock /\ Send(event)
      <3>1. ASSUME NEW w \in {current_sub, next_sub}, w >= 0, NEW role \in {"CURRENT", "NEXT"},
                   NEW quotes \in QuoteSet
            PROVE  TickOf(w, role, quotes) \in Event /\ TickOf(w, role, quotes).at = clock
        <4>1. w \in Windows /\ quotes \in Quotes
          BY <3>1, FeedAssumption DEF LifecycleInv, LifecycleTypeOK, LoopTypeOK
        <4> QED BY <1>1, <4>1 DEF TickOf, Event
      <3>2. ASSUME NEW price \in SpotPrices
            PROVE  SpotAt(price) \in Event /\ SpotAt(price).at = clock
        <4>1. NoQuotes \in Quotes
          BY DEF NoQuotes, Quotes
        <4> QED BY <1>1, <4>1 DEF SpotAt, Event
      <3>3. CASE SendTick
        BY <3>1, <3>3 DEF SendTick
      <3>4. CASE SendSpot
        BY <3>2, <3>4 DEF SendSpot
      <3> QED BY <1>3, <3>3, <3>4
    <2>2. spot' = spot
      BY <2>1 DEF Send, app
    <2> QED BY <1>1, <2>1, <2>2, EventsSent
  <1>4. CASE SpotTick
    <2> DEFINE event == Head(chan)
    <2>1. UNCHANGED clock /\ Receive("SpotTick")
      BY <1>4 DEF SpotTick
    <2>2. \/ spot' = spot
          \/ spot' = [price |-> event.price, at |-> event.at, received |-> clock]
      BY <1>4 DEF SpotTick
    <2>3. spot'.at = spot.at \/ spot'.at = event.at
      BY <2>2
    <2>4. event.at \in Int
      BY <1>1, <2>1, Receiving
    <2>5. /\ spot.at <= event.at /\ event.at <= clock
          /\ \A i \in 1 .. Len(chan') : /\ spot.at <= chan'[i].at /\ chan'[i].at <= clock
                                        /\ event.at <= chan'[i].at
          /\ \A i, j \in 1 .. Len(chan') : i <= j => chan'[i].at <= chan'[j].at
      BY <2>1, EventsReceived
    <2> HIDE DEF event
    <2>6. spot.at <= clock
      BY DEF EventsInOrder
    <2> QED BY <1>1, <2>1, <2>3, <2>4, <2>5, <2>6 DEF EventsInOrder
  <1>5. CASE MarketTick
    <2>1. UNCHANGED <<clock, spot>> /\ Receive("MarketTick")
      BY <1>5 DEF MarketTick
    <2> QED BY <1>1, <2>1, EventsReceived DEF EventsInOrder
  <1>6. CASE ~(PassTime \/ SendTick \/ SendSpot \/ SpotTick \/ MarketTick)
    <2>1. UNCHANGED <<clock, spot, chan>>
      BY <1>6 DEF LifecycleNext, Handler, DiscoverInitial, FindNext, BeginPromotion,
                  PromoteNext, CaptureOnPromotion, SubscribeCurrent, SettleOne, SettleDone,
                  Monitor, PollMaintenance, ExecuteSignal, SignalsDone, app
    <2> QED BY <1>1, <2>1 DEF EventsInOrder
  <1> QED BY <1>2, <1>3, <1>4, <1>5, <1>6

\* A window the ledger knows keeps its slot.
LEMMA SlotsKept ==
  ASSUME LifecycleInv, LifecycleNext
  PROVE  \A w \in Windows : Known(w) => slot'[w] = slot[w]
  <1>1. slot \in [Windows -> Slots \cup {-1}]
    BY DEF LifecycleInv, LifecycleTypeOK, LoopTypeOK
  <1>2. CASE DiscoverInitial
    <2>1. status[0] = "NONE"
      BY <1>2, WarmUpAssumption DEF DiscoverInitial, LifecycleInv, NumbersInOrder
    <2>2. slot' = slot \/ \E s : slot' = [slot EXCEPT ![0] = s]
      BY <1>2 DEF DiscoverInitial
    <2> QED BY <1>1, <2>1, <2>2 DEF Known
  <1>3. CASE FindNext
    <2> DEFINE n == next_window_number
    <2>1. slot' = slot \/ (n \in Windows /\ \E s : slot' = [slot EXCEPT ![n] = s])
      BY <1>3 DEF FindNext
    <2>2. n \in Windows => status[n] = "NONE"
      BY <1>3, WindowNumbers DEF FindNext, LifecycleInv, NumbersInOrder, HandlerState
    <2> QED BY <1>1, <2>1, <2>2 DEF Known
  <1>4. CASE ~(DiscoverInitial \/ FindNext)
    BY <1>4 DEF LifecycleNext, Handler, PassTime, SendTick, SendSpot, Send, BeginPromotion,
                PromoteNext, CaptureOnPromotion, SubscribeCurrent, SettleOne, SettleDone,
                Monitor, SpotTick, PollMaintenance, MarketTick, ExecuteSignal, SignalsDone,
                app, market
  <1> QED BY <1>2, <1>3, <1>4

LEMMA LaterSlot ==
  \A s, t \in Int, l \in Nat : s < t => (s + 1) * l <= t * l
  <1>1. ASSUME NEW s \in Int, NEW t \in Int, NEW l \in Nat, s < t
        PROVE  (s + 1) * l <= t * l
    <2>1. t - (s + 1) \in Nat /\ t * l = (s + 1) * l + (t - (s + 1)) * l
      BY <1>1
    <2>2. (t - (s + 1)) * l \in Nat
      BY <1>1, <2>1, TimesNat
    <2>3. (s + 1) * l \in Int
      BY <1>1
    <2> QED BY <2>1, <2>2, <2>3
  <1> QED BY <1>1

\* The two rest on the order of the slots: the window whose PTB a capture fixes starts
\* when the windows it settles have ended, and spot of that time has been handled.
LEMMA SettledWindowsEnded ==
  ASSUME LifecycleInv, SlotsInOrder, SettledBySpot, NEW w \in Windows, SettleOne(w)
  PROVE  End(w) <= spot.at
  <1>1. pc = "settle" /\ Matches(w, job.window) /\ status[w] = "PENDING_SETTLEMENT"
    BY SettleOneRefines DEF SettleOne
  <1> DEFINE next == job.window
  <1>2. next \in Windows /\ next \in Promoted /\ Start(next) <= spot.at
    BY <1>1 DEF LifecycleInv, HandlerState, SettledBySpot, NoWindow, Promoted
  <1>3. Known(w) /\ Known(next)
    BY <1>1, <1>2 DEF Known, Promoted
  <1> HIDE DEF next
  <1>4. End(w) <= Start(next)
    <2>1. CASE Contiguous(w, next)
      BY <1>2, <2>1, SlotTimes DEF Contiguous
    <2>2. CASE w + 1 = next
      <3>1. w < next
        BY <1>2, <2>2, WindowNumbers
      <3>2. slot[w] < slot[next]
        BY <1>2, <1>3, <3>1 DEF SlotsInOrder
      <3>3. slot[w] \in Int /\ slot[next] \in Int /\ SlotLen \in Nat
        <4>1. slot \in [Windows -> Slots \cup {-1}]
          BY DEF LifecycleInv, LifecycleTypeOK, LoopTypeOK
        <4> QED BY <1>2, <4>1, TimeAssumption DEF Slots
      <3> QED BY <3>2, <3>3, LaterSlot DEF End, Start
    <2> QED BY <1>1, <2>1, <2>2 DEF Matches, next
  <1> QED BY <1>2, <1>4, EventTimes, SlotTimes

\* A step that prices, settles and trades nothing leaves what is settled as it is.
LEMMA SettledKept ==
  ASSUME LifecycleInv, LifecycleNext, SettledBySpot, spot.at <= spot'.at, spot'.at \in Int,
         Closed' = Closed, price_to_beat' = price_to_beat,
         \/ pc' \notin {"settle", "trade"}
         \/ UNCHANGED pc /\ job'.window = job.window
  PROVE  SettledBySpot'
  <1>1. WindowsKept
    BY LedgerKept
  <1>2. \A w \in Windows : Known(w) => Start(w)' = Start(w) /\ End(w)' = End(w)
    BY SlotsKept DEF Start, End
  <1>3. \A w \in Windows : (w \notin Promoted)' => price_to_beat'[w] = 0
    BY <1>1 DEF SettledBySpot, WindowsKept
  <1>4. pc' = "settle" => Start(job.window)' <= spot'.at
    <2>1. ASSUME pc' = "settle"
          PROVE  /\ pc = "settle" /\ job'.window = job.window /\ job.window \in Windows
                 /\ Known(job.window)
      BY <2>1 DEF LifecycleInv, HandlerState, NoWindow, Promoted, Known
    <2>2. ASSUME pc' = "settle" PROVE Start(job.window) <= spot.at
      BY <2>1, <2>2 DEF SettledBySpot
    <2>3. ASSUME pc' = "settle" PROVE Start(job.window)' = Start(job.window)
      BY <2>1, <2>3, SlotsKept DEF Start
    <2> QED BY <2>1, <2>2, <2>3, EventTimes, SlotTimes
  <1>5. \A w \in Windows : status'[w] = "CLOSED_TIME" => End(w)' <= spot'.at
    <2>1. ASSUME NEW w \in Windows, status'[w] = "CLOSED_TIME"
          PROVE  End(w)' <= spot'.at
      <3>1. w \in Closed
        BY <2>1 DEF Closed
      <3>2. Known(w) /\ End(w) <= spot.at
        BY <3>1 DEF Closed, Known, SettledBySpot
      <3> QED BY <1>2, <3>2, EventTimes, SlotTimes
    <2> QED BY <2>1
  <1>6. pc' = "trade" => status[job.window]' # "CLOSED_TIME"
    BY DEF SettledBySpot, Closed, LifecycleInv, HandlerState, NoWindow, Promoted
  <1> QED BY <1>3, <1>4, <1>5, <1>6 DEF SettledBySpot

\* A capture by spot of the window's own time.
LEMMA SettledCaptured ==
  ASSUME LifecycleInv, LifecycleNext, SettledBySpot, spot.at <= spot'.at, spot'.at \in Int,
         Closed' = Closed,
         NEW price, NEW at, NEW then, price \in SpotPrices \cup {0}, spot'.at = at,
         Captures(price, at), CapturePtb(price, then)
  PROVE  SettledBySpot'
  <1>0. PICK v \in Windows : v = current_window.number
    BY CapturePtbRefines
  <1>1. /\ v \in Windows /\ v \in Promoted /\ Known(v) /\ at >= Start(v)
        /\ price_to_beat' = [price_to_beat EXCEPT ![v] = price]
        /\ pc' = "settle" /\ job'.window = v
    BY <1>0, CapturePtbRefines DEF CapturePtb, StorePtb, SettleThen, Captures, Capturable,
                             Known, Promoted
  <1>2. WindowsKept
    BY LedgerKept
  <1>3. \A w \in Windows : Known(w) => Start(w)' = Start(w) /\ End(w)' = End(w)
    BY SlotsKept DEF Start, End
  <1>4. \A w \in Windows : (w \notin Promoted)' => price_to_beat'[w] = 0
    BY <1>1, <1>2, PriceTypes DEF SettledBySpot, WindowsKept
  <1>5. Start(job.window)' <= spot'.at
    <2>1. Start(v)' = Start(v)
      BY <1>1, <1>3
    <2>2. Start(job.window)' = Start(v)'
      BY <1>1 DEF Start
    <2> QED BY <1>1, <2>1, <2>2, SlotTimes
  <1>6. \A w \in Windows : status'[w] = "CLOSED_TIME" => End(w)' <= spot'.at
    <2>1. ASSUME NEW w \in Windows, status'[w] = "CLOSED_TIME"
          PROVE  End(w)' <= spot'.at
      <3>1. w \in Closed
        BY <2>1 DEF Closed
      <3>2. Known(w) /\ End(w) <= spot.at
        BY <3>1 DEF Closed, Known, SettledBySpot
      <3> QED BY <1>3, <3>2, EventTimes, SlotTimes
    <2> QED BY <2>1
  <1> QED BY <1>1, <1>4, <1>5, <1>6 DEF SettledBySpot

LEMMA SettledStep ==
  ASSUME PublishedPtbs = {0}, LifecycleInv, SlotsInOrder, EventsInOrder, SettledBySpot,
         LifecycleNext
  PROVE  SettledBySpot'
  <1>1. spot.at <= spot'.at /\ spot'.at \in Int
    <2>1. LifecycleInv'
      BY StepInv
    <2> QED BY <2>1, EventsStep DEF LifecycleInv, LifecycleTypeOK, LoopTypeOK
  <1>2. ASSUME ~ExecuteSignal, \A w \in Windows : ~SettleOne(w)
        PROVE  Closed' = Closed
    BY <1>2, BooksKept
  <1>3. CASE \/ PassTime \/ SendTick \/ SendSpot \/ SubscribeCurrent
             \/ PollMaintenance \/ SignalsDone \/ BeginPromotion \/ Monitor
    <2>1. price_to_beat' = price_to_beat
      BY <1>3 DEF PassTime, SendTick, SendSpot, Send, SubscribeCurrent, PollMaintenance,
                  SignalsDone, BeginPromotion, Monitor, QueueWindow, MarkPending, ledger
    <2>2. pc' \notin {"settle", "trade"} \/ UNCHANGED <<pc, job>>
      BY <1>3 DEF PassTime, SendTick, SendSpot, Send, SubscribeCurrent, PollMaintenance,
                  SignalsDone, BeginPromotion, Monitor
    <2>3. ~ExecuteSignal /\ \A w \in Windows : ~SettleOne(w)
      BY <1>3 DEF PassTime, SendTick, SendSpot, Send, Awaiting, SubscribeCurrent,
                  PollMaintenance, SignalsDone, BeginPromotion, Monitor, ExecuteSignal, SettleOne, NoJob
    <2> QED BY <1>1, <1>2, <2>1, <2>2, <2>3, SettledKept
  <1>4. ASSUME NEW w \in Windows, status[w] = "NONE", NEW ptb \in PublishedPtbs,
               price_to_beat' = [price_to_beat EXCEPT ![w] = ptb]
        PROVE  price_to_beat' = price_to_beat
    <2>1. price_to_beat[w] = 0 /\ ptb = 0
      BY <1>4 DEF SettledBySpot, Promoted
    <2> QED BY <1>4, <2>1, PriceTypes
  <1>5. CASE DiscoverInitial
    <2>1. pc' = "discover" /\ pc = "start" /\ 0 \in Windows /\ status[0] = "NONE"
      BY <1>5, WarmUpAssumption DEF DiscoverInitial, LifecycleInv, NumbersInOrder
    <2>2. price_to_beat' = price_to_beat
      <3>1. \/ UNCHANGED ledger
            \/ \E ptb \in PublishedPtbs : WarmUp(0, ptb)
        BY <1>5 DEF DiscoverInitial
      <3> QED BY <1>4, <2>1, <3>1 DEF WarmUp, ledger
    <2>3. ~ExecuteSignal /\ \A w \in Windows : ~SettleOne(w)
      BY <2>1 DEF ExecuteSignal, SettleOne
    <2> QED BY <1>1, <1>2, <2>1, <2>2, <2>3, SettledKept
  <1>6. CASE FindNext
    <2> DEFINE n == next_window_number
    <2>1. pc' = "loop" /\ pc = "discover" /\ (n \in Windows => status[n] = "NONE")
      BY <1>6, WindowNumbers DEF FindNext, LifecycleInv, NumbersInOrder, HandlerState
    <2>2. \/ UNCHANGED ledger
          \/ n \in Windows /\ \E ptb \in PublishedPtbs : CreateWindow(n, ptb)
      BY <1>6 DEF FindNext
    <2> HIDE DEF n
    <2>3. price_to_beat' = price_to_beat
      BY <1>4, <2>1, <2>2 DEF CreateWindow, ledger
    <2>4. ~ExecuteSignal /\ \A w \in Windows : ~SettleOne(w)
      BY <2>1 DEF ExecuteSignal, SettleOne
    <2> QED BY <1>1, <1>2, <2>1, <2>3, <2>4, SettledKept
  <1>7. CASE PromoteNext
    <2>1. price_to_beat[next_window] = 0
      BY <1>7, PromoteNextRefines DEF SettledBySpot, Promoted
    <2>2. pc' = "capture" /\ pc = "promote" /\ price_to_beat' = price_to_beat
      BY <1>7, <2>1 DEF PromoteNext, PromoteWindow
    <2>3. ~ExecuteSignal /\ \A w \in Windows : ~SettleOne(w)
      BY <2>2 DEF ExecuteSignal, SettleOne
    <2> QED BY <1>1, <1>2, <2>2, <2>3, SettledKept
  <1>8. CASE CaptureOnPromotion
    <2>1. UNCHANGED spot /\ ~ExecuteSignal /\ \A w \in Windows : ~SettleOne(w)
      BY <1>8 DEF CaptureOnPromotion, ExecuteSignal, SettleOne
    <2>2. CASE Captures(spot.price, spot.at) /\ CapturePtb(spot.price, "subscribe")
      <3>1. spot.price \in SpotPrices \cup {0}
        BY DEF LifecycleInv, LifecycleTypeOK, LoopTypeOK
      <3> QED BY <1>1, <1>2, <2>1, <2>2, <3>1, SettledCaptured
    <2>3. CASE pc' = "subscribe" /\ UNCHANGED ledger
      BY <1>1, <1>2, <2>1, <2>3, SettledKept DEF ledger
    <2> QED BY <1>8, <2>2, <2>3 DEF CaptureOnPromotion
  <1>9. ASSUME NEW v \in Windows, SettleOne(v)
        PROVE  SettledBySpot'
    <2>1. /\ pc = "settle" /\ UNCHANGED <<pc, job, price_to_beat, spot, slot>>
          /\ status' = [status EXCEPT ![v] = "CLOSED_TIME"]
      BY <1>9 DEF SettleOne, CloseWindow, market
    <2>2. End(v) <= spot.at
      BY <1>9, SettledWindowsEnded
    <2>3. WindowsKept
      BY LedgerKept
    <2>4. \A w \in Windows : (w \notin Promoted)' => price_to_beat'[w] = 0
      BY <2>1, <2>3 DEF SettledBySpot, WindowsKept
    <2>5. \A w \in Windows : status'[w] = "CLOSED_TIME" => End(w)' <= spot'.at
      BY <2>1, <2>2, BookTypes DEF SettledBySpot, End
    <2> QED BY <2>1, <2>4, <2>5 DEF SettledBySpot, Start
  <1>10. CASE SettleDone
    <2>1. job.then \in Handlers
      BY DEF LifecycleInv, LifecycleTypeOK, LoopTypeOK, Job
    <2>2. pc' \notin {"settle", "trade"} /\ UNCHANGED ledger
      BY <1>10, <2>1 DEF SettleDone, Handlers
    <2> QED BY <1>1, <2>2, SettledKept DEF ledger, Closed
  <1>11. CASE SpotTick
    <2> DEFINE event == Head(chan)
               rest  == IF NeedsPoll THEN "poll" ELSE "loop"
    <2>1. pc = "loop" /\ event.price \in SpotPrices \cup {0} /\ rest \in {"poll", "loop"}
      BY <1>11, Receiving DEF SpotTick, Receive, Event
    <2>2. ~ExecuteSignal /\ \A w \in Windows : ~SettleOne(w)
      BY <2>1 DEF ExecuteSignal, SettleOne
    <2>3. \/ /\ spot' = [price |-> event.price, at |-> event.at, received |-> clock]
             /\ Captures(event.price, event.at) /\ CapturePtb(event.price, rest)
          \/ pc' \in {rest, pc} /\ UNCHANGED ledger
      BY <1>11 DEF SpotTick
    <2> HIDE DEF event, rest
    <2>4. CASE /\ spot' = [price |-> event.price, at |-> event.at, received |-> clock]
               /\ Captures(event.price, event.at) /\ CapturePtb(event.price, rest)
      <3>1. spot'.at = event.at
        BY <2>4
      <3> QED BY <1>1, <1>2, <2>1, <2>2, <2>4, <3>1, SettledCaptured
    <2>5. CASE pc' \in {rest, pc} /\ UNCHANGED ledger
      BY <1>1, <1>2, <2>1, <2>2, <2>5, SettledKept DEF ledger
    <2> QED BY <2>3, <2>4, <2>5
  <1>12. CASE MarketTick
    <2> DEFINE event == Head(chan)
    <2>1. /\ pc = "loop" /\ price_to_beat' = price_to_beat /\ status' = status /\ slot' = slot
          /\ spot' = spot /\ Receive("MarketTick")
          /\ event \in Event /\ Wellformed(event) /\ event.kind = "MarketTick"
      BY <1>12, Receiving DEF MarketTick, Receive, StorePrices, market
    <2>2. \/ pc' = pc
          \/ pc' = "trade" /\ job'.window = event.window /\ BeforeEnd(event)
      BY <1>12 DEF MarketTick, Trades, MayTrade
    <2>3. spot.at <= event.at
      BY <2>1, EventsReceived
    <2> HIDE DEF event
    <2>4. event.window \in Windows /\ event.at \in Int
      BY <2>1, EventTimes DEF Wellformed
    <2>5. CASE pc' = pc
      <3>1. Closed' = Closed
        BY <2>1 DEF Closed
      <3> QED BY <1>1, <2>1, <2>5, <3>1, SettledKept
    <2>6. CASE pc' = "trade" /\ job'.window = event.window /\ BeforeEnd(event)
      <3> DEFINE e == End(event.window)
      <3>1. SecsTo(e, event.at) > 0
        BY <2>6 DEF BeforeEnd
      <3>2. e \in Int
        BY <2>4, SlotTimes
      <3> HIDE DEF e
      <3>3. event.at <= e - Sec
        BY <2>4, <3>1, <3>2, SecsToBounds
      <3>4. ~(e <= spot.at)
        BY <2>3, <2>4, <3>2, <3>3, EventTimes, TimeAssumption
      <3>5. status[event.window] # "CLOSED_TIME"
        BY <2>4, <3>4 DEF SettledBySpot, e
      <3> QED BY <2>1, <2>6, <3>5 DEF SettledBySpot, Promoted, Start, End
    <2> QED BY <2>2, <2>5, <2>6
  <1>13. CASE ExecuteSignal
    <2>1. /\ status' = status /\ price_to_beat' = price_to_beat /\ UNCHANGED pc
      BY <1>13, ExecuteSignalRefines DEF ExecuteSignal
    <2>2. job'.window = job.window
      <3>1. job \in Job
        BY DEF LifecycleInv, LifecycleTypeOK, LoopTypeOK
      <3> QED BY <1>13, <3>1 DEF ExecuteSignal, Job
    <2> QED BY <1>1, <2>1, <2>2, SettledKept DEF Closed
  <1> QED BY <1>3, <1>5, <1>6, <1>7, <1>8, <1>9, <1>10, <1>11, <1>12, <1>13
             DEF LifecycleNext, Handler

LEMMA ProfitStep ==
  ASSUME PublishedPtbs = {0}, LifecycleInv, UntradedIsEmpty, SlotsInOrder, ProfitInv,
         LifecycleNext
  PROVE  ProfitInv'
  <1>1. EventsInOrder /\ SettledBySpot /\ PnlMatchesClosed
    BY DEF ProfitInv
  <1>2. EventsInOrder' /\ SettledBySpot'
    BY <1>1, EventsStep, SettledStep
  <1>3. PnlMatchesClosed'
    <2>1. CASE ExecuteSignal
      <3>1. job.window \notin Closed
        BY <1>1, <2>1 DEF SettledBySpot, ExecuteSignal, Closed
      <3> QED BY <1>1, <2>1, <3>1, PnlTraded
    <2>2. ASSUME NEW w \in Windows, SettleOne(w)
          PROVE  PnlMatchesClosed'
      BY <1>1, <2>2, PnlSettled
    <2>3. CASE ~ExecuteSignal /\ \A w \in Windows : ~SettleOne(w)
      <3>1. UNCHANGED <<spent, cash_returned, overall_realized_pnl>> /\ Closed' = Closed
        BY <2>3, BooksKept
      <3> QED BY <1>1, <3>1, PnlKept
    <2> QED BY <2>1, <2>2, <2>3
  <1> QED BY <1>2, <1>3 DEF ProfitInv

\* While no market publishes a PTB and discovery numbers the slots in order, the
\* session's profit (overall_realized_pnl of close_window) is the sum over its closed
\* windows, whatever the age limit of a tick: events are handled in the order they were
\* sent (event_rx), so a tick from before the end of a window comes before the spot
\* that settles it.
THEOREM ProfitIsOfClosed ==
  ASSUME PublishedPtbs = {0}
  PROVE  LifecycleSpec /\ []SlotsInOrder => []PnlMatchesClosed
  <1>1. LifecycleInit => ProfitInv
    <2>1. ASSUME LifecycleInit
          PROVE  Closed = {} /\ SumFunctionOnSet(spent, {}) = 0 /\ SumFunctionOnSet(cash_returned, {}) = 0
      BY <2>1, SumOfNone DEF LifecycleInit, LedgerInit, Closed
    <2>2. LifecycleInit => PnlMatchesClosed
      <3>1. LifecycleInit => overall_realized_pnl = 0
        BY DEF LifecycleInit, LedgerInit
      <3>2. ASSUME LifecycleInit
            PROVE  overall_realized_pnl = SumFunctionOnSet(cash_returned, Closed)
                                          - SumFunctionOnSet(spent, Closed)
        BY <2>1, <3>1, <3>2
      <3> QED BY <3>2 DEF PnlMatchesClosed, Closed
    <2> QED BY <2>2 DEF LifecycleInit, LedgerInit, ProfitInv, EventsInOrder, SettledBySpot, NoSpot
  <1>2. LifecycleInv /\ UntradedIsEmpty /\ SlotsInOrder /\ ProfitInv /\ [LifecycleNext]_vars
        => ProfitInv'
    <2>1. ASSUME ProfitInv, UNCHANGED vars
          PROVE  ProfitInv'
      BY <2>1 DEF ProfitInv, EventsInOrder, SettledBySpot, PnlMatchesClosed, Promoted, Start, End,
                  vars, app, market, ledger
    <2> QED BY <2>1, ProfitStep
  <1>3. ProfitInv => PnlMatchesClosed
    BY DEF ProfitInv
  <1> QED BY <1>1, <1>2, <1>3, LifecycleInvariant, LedgerOfTheSession, PTL DEF LifecycleSpec

-----------------------------------------------------------------------------
(* With a silent CLOB feed no queued window misses its close price         *)

LEMMA PromotedAreOlder ==
  ASSUME LifecycleInv
  PROVE  \A v \in Promoted : v < next_window_number
  <1> SUFFICES ASSUME NEW v \in Promoted, v >= next_window_number PROVE FALSE
    BY WindowNumbers DEF Promoted, LifecycleInv, LifecycleTypeOK, LoopTypeOK
  <1>1. v \in Windows /\ status[v] \notin {"NONE", "WAITING_ENTRY"}
    BY DEF Promoted
  <1>2. v \in Int /\ next_window_number \in Int
    BY <1>1, WindowNumbers DEF LifecycleInv, LifecycleTypeOK, LoopTypeOK
  <1> QED BY <1>1, <1>2 DEF LifecycleInv, NumbersInOrder

\* The channel of a silent feed holds spot events only.
LEMMA OnlySpotStep ==
  ASSUME QuoteSet = {}, LifecycleInv, OnlySpotEvents, LifecycleNext
  PROVE  OnlySpotEvents'
  <1>1. chan \in Seq(Event)
    BY DEF LifecycleInv, LifecycleTypeOK, LoopTypeOK
  <1>2. CASE SendSpot
    <2>1. PICK price \in SpotPrices : chan' = Append(chan, SpotAt(price))
      BY <1>2 DEF SendSpot, Send
    <2>2. SpotAt(price).kind = "SpotTick"
      BY DEF SpotAt
    <2>3. /\ Len(chan') = Len(chan) + 1
          /\ \A i \in 1 .. Len(chan) : chan'[i] = chan[i]
          /\ chan'[Len(chan) + 1] = SpotAt(price)
      <3> HIDE DEF SpotAt
      <3>1. chan \in Seq(Event \cup {SpotAt(price)})
        BY <1>1
      <3> QED BY <2>1, <3>1, AppendProperties
    <2>4. Len(chan) \in Nat
      BY <1>1
    <2> QED BY <2>2, <2>3, <2>4 DEF OnlySpotEvents
  <1>3. CASE SpotTick \/ MarketTick
    <2>1. chan # <<>> /\ chan' = Tail(chan)
      BY <1>3 DEF SpotTick, MarketTick, Receive
    <2>2. /\ Len(chan') = Len(chan) - 1
          /\ \A i \in 1 .. Len(chan') : chan'[i] = chan[i+1]
      BY <1>1, <2>1, HeadTailProperties
    <2>3. Len(chan) \in Nat
      BY <1>1
    <2>4. ASSUME NEW i \in 1 .. Len(chan')
          PROVE  chan'[i].kind = "SpotTick"
      <3>1. i + 1 \in 1 .. Len(chan)
        BY <2>2, <2>3
      <3> QED BY <2>2, <3>1 DEF OnlySpotEvents
    <2> QED BY <2>4 DEF OnlySpotEvents
  <1>4. ~SendTick
    BY DEF SendTick
  <1>5. CASE ~(SendSpot \/ SpotTick \/ MarketTick)
    <2>1. chan' = chan
      BY <1>4, <1>5
         DEF LifecycleNext, Handler, PassTime, DiscoverInitial, FindNext,
             BeginPromotion, PromoteNext, CaptureOnPromotion, SubscribeCurrent,
             SettleOne, SettleDone, Monitor, PollMaintenance, ExecuteSignal, SignalsDone
    <2> QED BY <2>1 DEF OnlySpotEvents
  <1> QED BY <1>2, <1>3, <1>5

LEMMA NoMarketTick ==
  ASSUME LifecycleInv, OnlySpotEvents
  PROVE  ~MarketTick
  <1> SUFFICES ASSUME MarketTick PROVE FALSE
    OBVIOUS
  <1>1. chan \in Seq(Event) /\ chan # <<>> /\ Head(chan).kind = "MarketTick"
    BY DEF LifecycleInv, LifecycleTypeOK, LoopTypeOK, MarketTick, Receive
  <1>2. Head(chan) = chan[1] /\ 1 \in 1 .. Len(chan)
    BY <1>1
  <1> QED BY <1>1, <1>2 DEF OnlySpotEvents

\* A step that neither changes windows nor applies a price disturbs nothing.
LEMMA SilentKept ==
  ASSUME SilentInv, OnlySpotEvents',
         UNCHANGED <<status, price_to_beat, next_window_number>>,
         current_window'.number = current_window.number,
         pc' \notin {"start", "promote"},
         pc = "settle" => UNCHANGED <<pc, job>>
  PROVE  SilentInv'
  <1>1. CurrentIsNewest' /\ OnlyCurrentLive'
    BY DEF SilentInv, CurrentIsNewest, OnlyCurrentLive
  <1>2. SettlementNotMissed'
    BY DEF SilentInv, SettlementNotMissed, Promoted
  <1> QED BY <1>1, <1>2 DEF SilentInv

\* Queueing CURRENT, whose successor is not promoted yet, misses nothing.
LEMMA SilentQueued ==
  ASSUME LifecycleInv, SilentInv, OnlySpotEvents',
         Unfinished, pc = "loop", QueueWindow(current_window.number),
         next_window_number' = next_window_number,
         current_window' \in {current_window, NoWindow},
         pc' # "start"
  PROVE  SilentInv'
  <1> DEFINE c == current_window.number
  <1>1. /\ c \in Windows /\ c >= 0 /\ c \in Nat
        /\ status' = [status EXCEPT ![c] = "PENDING_SETTLEMENT"]
        /\ status[c] \in {"LIVE", "SKIPPED"}
        /\ price_to_beat' = price_to_beat
    BY QueueWindowKeeps, QueueWindowRefines, WindowNumbers
  <1>2. /\ status'[c] = "PENDING_SETTLEMENT"
        /\ \A v \in Windows : v # c => status'[v] = status[v]
    BY <1>1 DEF LifecycleInv, LifecycleTypeOK, LedgerTypeOK
  <1>3. CurrentIsNewest'
    BY DEF SilentInv, CurrentIsNewest, NoWindow
  <1>4. OnlyCurrentLive'
    BY <1>2 DEF SilentInv, OnlyCurrentLive
  <1>5. Promoted' = Promoted
    BY <1>1, <1>2 DEF Promoted
  <1>6. c + 1 \notin Promoted
    <2>1. c + 1 = next_window_number
      BY <1>1 DEF SilentInv, CurrentIsNewest
    <2>2. \A v \in Promoted : v < next_window_number /\ v \in Nat
      BY PromotedAreOlder, WindowNumbers DEF Promoted
    <2> QED BY <2>1, <2>2
  <1>7. SettlementNotMissed'
    <2> SUFFICES ASSUME NEW w \in Windows, NEW next \in Promoted,
                        status'[w] = "PENDING_SETTLEMENT", next = w + 1,
                        price_to_beat[next] > 0
                 PROVE  FALSE
      BY <1>1, <1>5 DEF SettlementNotMissed
    <2>1. w # c
      BY <1>6
    <2>2. status[w] = "PENDING_SETTLEMENT"
      BY <1>2, <2>1
    <2> QED BY <2>2 DEF SilentInv, SettlementNotMissed
  <1> QED BY <1>3, <1>4, <1>7 DEF SilentInv

\* The first price of CURRENT is applied in the step that stores it.
LEMMA SilentCaptured ==
  ASSUME LifecycleInv, SilentInv, OnlySpotEvents',
         NEW price, NEW at, NEW then, price \in SpotPrices \cup {0},
         pc \in {"loop", "capture"},
         Captures(price, at), CapturePtb(price, then),
         next_window_number' = next_window_number
  PROVE  SilentInv'
  <1> DEFINE c == current_window.number
  <1>1. c \in Windows
    BY CapturePtbRefines
  <1>2. /\ status' = status
        /\ price_to_beat' = [price_to_beat EXCEPT ![c] = price]
        /\ current_window' = [current_window EXCEPT !.ptb = price]
        /\ pc' = "settle"
        /\ job' = [window |-> c, price |-> price, then |-> then, signals |-> 0]
    BY DEF CapturePtb, StorePtb, ClonePriced, SettleThen
  <1>3. current_window'.number = c
    BY <1>2 DEF LifecycleInv, LifecycleTypeOK, LoopTypeOK
  <1>4. \A v \in Windows : v # c => price_to_beat'[v] = price_to_beat[v]
    BY <1>2 DEF LifecycleInv, LifecycleTypeOK
  <1>5. job'.window = c
    BY <1>2
  <1>6. CurrentIsNewest' /\ OnlyCurrentLive'
    BY <1>2, <1>3 DEF SilentInv, CurrentIsNewest, OnlyCurrentLive
  <1> HIDE DEF c
  <1>7. SettlementNotMissed'
    <2> SUFFICES ASSUME NEW w \in Windows, NEW next \in Promoted,
                        status[w] = "PENDING_SETTLEMENT", next = w + 1,
                        price_to_beat'[next] > 0, next # c
                 PROVE  FALSE
      BY <1>2, <1>5 DEF SettlementNotMissed, Promoted
    <2>1. price_to_beat[next] > 0
      BY <1>4 DEF Promoted
    <2> QED BY <2>1 DEF SilentInv, SettlementNotMissed
  <1> QED BY <1>6, <1>7 DEF SilentInv

LEMMA SilentStep ==
  ASSUME QuoteSet = {}, LifecycleInv, SilentInv, LifecycleNext
  PROVE  SilentInv'
  <1>1. OnlySpotEvents'
    BY OnlySpotStep DEF SilentInv
  <1>2. ~SendTick /\ ~MarketTick
    BY NoMarketTick DEF SendTick, SilentInv
  <1>3. CASE \/ PassTime \/ SendSpot \/ SubscribeCurrent
             \/ PollMaintenance \/ SignalsDone
    <2>1. /\ UNCHANGED <<status, price_to_beat, next_window_number, current_window>>
          /\ pc' \notin {"start", "promote"} /\ pc # "settle"
      BY <1>3 DEF PassTime, SendSpot, Send, Awaiting, SubscribeCurrent,
                  PollMaintenance, SignalsDone, app, market, ledger
    <2> QED BY <1>1, <2>1, SilentKept
  <1>4. CASE DiscoverInitial
    <2>1. /\ pc = "start" /\ pc' = "discover" /\ next_window_number' = next_window_number
          /\ next_window_number = 1 /\ 0 \in Windows
          /\ \A w \in Windows : status[w] = "NONE"
      BY <1>4, WarmUpAssumption
         DEF DiscoverInitial, LifecycleInv, NumbersInOrder, SilentInv, CurrentIsNewest
    <2>2. CASE UNCHANGED <<ledger, slot, current_window, current_sub>>
      BY <1>1, <2>1, <2>2, SilentKept DEF ledger
    <2>3. CASE /\ status' = [status EXCEPT ![0] = "SKIPPED"]
               /\ current_window'.number = 0
      <3>1. \A w \in Windows : status'[w] \in {"NONE", "SKIPPED"}
        BY <2>1, <2>3 DEF LifecycleInv, LifecycleTypeOK, LedgerTypeOK
      <3>2. OnlyCurrentLive' /\ SettlementNotMissed' /\ CurrentIsNewest'
        BY <2>1, <2>3, <3>1 DEF OnlyCurrentLive, SettlementNotMissed, CurrentIsNewest
      <3> QED BY <1>1, <3>2 DEF SilentInv
    <2>4. \/ UNCHANGED <<ledger, slot, current_window, current_sub>>
          \/ /\ status' = [status EXCEPT ![0] = "SKIPPED"]
             /\ current_window'.number = 0
      BY <1>4 DEF DiscoverInitial, WarmUp
    <2> QED BY <2>2, <2>3, <2>4
  <1>5. CASE FindNext
    <2>1. /\ pc = "discover" /\ pc' = "loop"
          /\ UNCHANGED <<current_window, next_window_number>>
      BY <1>5 DEF FindNext
    <2>2. CASE UNCHANGED <<ledger, slot, next_window, next_sub>>
      BY <1>1, <2>1, <2>2, SilentKept DEF ledger
    <2> DEFINE n == next_window_number
    <2>3. ASSUME NEW ptb, n \in Windows, CreateWindow(n, ptb)
          PROVE  SilentInv'
      <3>1. /\ status' = [status EXCEPT ![n] = "WAITING_ENTRY"]
            /\ price_to_beat' = [price_to_beat EXCEPT ![n] = ptb]
        BY <2>3 DEF CreateWindow
      <3> HIDE DEF n
      <3>2. /\ status'[n] = "WAITING_ENTRY"
            /\ \A v \in Windows : v # n => /\ status'[v] = status[v]
                                           /\ price_to_beat'[v] = price_to_beat[v]
        BY <2>3, <3>1 DEF LifecycleInv, LifecycleTypeOK, LedgerTypeOK
      <3>3. OnlyCurrentLive' /\ CurrentIsNewest'
        BY <2>1, <3>2 DEF SilentInv, OnlyCurrentLive, CurrentIsNewest
      <3>4. \A v \in Promoted' : v # n /\ v \in Promoted
        BY <3>2 DEF Promoted
      <3>5. SettlementNotMissed'
        <4> SUFFICES ASSUME NEW w \in Windows, NEW next \in Promoted',
                            status'[w] = "PENDING_SETTLEMENT", next = w + 1,
                            price_to_beat'[next] > 0
                     PROVE  FALSE
          BY DEF SettlementNotMissed
        <4>1. /\ next \in Promoted /\ price_to_beat[next] > 0
              /\ status[w] = "PENDING_SETTLEMENT"
          BY <3>2, <3>4 DEF Promoted
        <4> QED BY <2>1, <4>1 DEF SilentInv, SettlementNotMissed
      <3> QED BY <1>1, <3>3, <3>5 DEF SilentInv
    <2> QED BY <1>5, <2>2, <2>3 DEF FindNext
  <1>6. CASE BeginPromotion
    <2>1. /\ pc = "loop" /\ pc' = "promote"
          /\ UNCHANGED <<current_window, next_window_number>>
      BY <1>6 DEF BeginPromotion, market
    <2>2. CASE Unfinished
      <3>1. QueueWindow(current_window.number)
        BY <1>6, <2>2 DEF BeginPromotion
      <3> QED BY <1>1, <2>1, <2>2, <3>1, SilentQueued
    <2>3. CASE ~Unfinished
      <3>1. UNCHANGED <<status, price_to_beat>>
        BY <1>6, <2>3 DEF BeginPromotion, ledger
      <3>2. \A w \in Windows : status[w] # "LIVE"
        <4> SUFFICES ASSUME NEW w \in Windows, status[w] = "LIVE" PROVE FALSE
          OBVIOUS
        <4>1. w = current_window.number
          BY DEF SilentInv, OnlyCurrentLive
        <4>2. current_window.status = "LIVE"
          BY <2>1, <4>1, WindowNumbers DEF LifecycleInv, CloneIsCurrent
        <4> QED BY <2>3, <4>2 DEF Unfinished
      <3>3. OnlyCurrentLive' /\ CurrentIsNewest'
        BY <2>1, <3>1, <3>2 DEF SilentInv, OnlyCurrentLive, CurrentIsNewest
      <3>4. SettlementNotMissed'
        BY <2>1, <3>1 DEF SilentInv, SettlementNotMissed, Promoted
      <3> QED BY <1>1, <3>3, <3>4 DEF SilentInv
    <2> QED BY <2>2, <2>3
  <1>7. CASE PromoteNext
    <2>1. /\ next_window \in Windows /\ next_window = next_window_number
          /\ status[next_window] = "WAITING_ENTRY"
      BY <1>7, PromoteNextRefines
    <2>2. /\ pc = "promote"
          /\ status' = [status EXCEPT ![next_window] = "LIVE"]
          /\ price_to_beat' = price_to_beat
          /\ current_window'.number = next_window
          /\ next_window_number' = next_window_number + 1
          /\ IF price_to_beat[next_window] > 0
             THEN pc' = "settle" /\ job'.window = next_window
             ELSE pc' = "capture"
      BY <1>7 DEF PromoteNext, PromoteWindow, LiveCloneOf, SettleThen
    <2>3. /\ status'[next_window] = "LIVE"
          /\ \A v \in Windows : v # next_window => status'[v] = status[v]
      BY <2>1, <2>2 DEF LifecycleInv, LifecycleTypeOK, LedgerTypeOK
    <2>4. OnlyCurrentLive' /\ CurrentIsNewest'
      BY <2>1, <2>2, <2>3 DEF SilentInv, OnlyCurrentLive, CurrentIsNewest
    <2>5. SettlementNotMissed'
      <3> SUFFICES ASSUME NEW w \in Windows, NEW next \in Promoted',
                          status'[w] = "PENDING_SETTLEMENT", next = w + 1,
                          price_to_beat[next] > 0, next # next_window
                   PROVE  FALSE
        BY <2>2 DEF SettlementNotMissed
      <3>1. next \in Promoted /\ status[w] = "PENDING_SETTLEMENT"
        BY <2>3 DEF Promoted
      <3> QED BY <2>2, <3>1 DEF SilentInv, SettlementNotMissed
    <2> QED BY <1>1, <2>4, <2>5 DEF SilentInv
  <1>8. CASE CaptureOnPromotion
    <2>1. pc = "capture" /\ next_window_number' = next_window_number
      BY <1>8 DEF CaptureOnPromotion, market
    <2>2. CASE Captures(spot.price, spot.at) /\ CapturePtb(spot.price, "subscribe")
      <3>1. spot.price \in SpotPrices \cup {0}
        BY DEF LifecycleInv, LifecycleTypeOK, LoopTypeOK
      <3> QED BY <1>1, <2>1, <2>2, <3>1, SilentCaptured
    <2>3. CASE /\ pc' = "subscribe"
               /\ UNCHANGED <<ledger, current_window, ptb_locked_windows, job>>
      BY <1>1, <2>1, <2>3, SilentKept DEF ledger
    <2> QED BY <1>8, <2>2, <2>3 DEF CaptureOnPromotion
  <1>9. ASSUME NEW v \in Windows, SettleOne(v)
        PROVE  SilentInv'
    <2>1. /\ pc = "settle"
          /\ UNCHANGED <<pc, job, price_to_beat, current_window, next_window_number>>
          /\ status' = [status EXCEPT ![v] = "CLOSED_TIME"]
          /\ status[v] = "PENDING_SETTLEMENT"
      BY <1>9, SettleOneRefines DEF SettleOne, CloseWindow, market
    <2>2. /\ status'[v] = "CLOSED_TIME"
          /\ \A w \in Windows : w # v => status'[w] = status[w]
      BY <2>1 DEF LifecycleInv, LifecycleTypeOK, LedgerTypeOK
    <2>3. Promoted' = Promoted
      BY <2>1, <2>2 DEF Promoted
    <2>4. OnlyCurrentLive' /\ CurrentIsNewest'
      BY <2>1, <2>2 DEF SilentInv, OnlyCurrentLive, CurrentIsNewest
    <2>5. SettlementNotMissed'
      BY <2>1, <2>2, <2>3 DEF SilentInv, SettlementNotMissed
    <2> QED BY <1>1, <2>4, <2>5 DEF SilentInv
  <1>10. CASE SettleDone
    <2>1. /\ pc = "settle" /\ pc' = job.then
          /\ UNCHANGED <<status, price_to_beat, current_window, next_window_number>>
          /\ \A w \in Windows : Queued(w) => ~Matches(w, job.window)
      BY <1>10 DEF SettleDone, app, market, ledger
    <2>2. pc' \in Handlers
      BY <2>1 DEF LifecycleInv, LifecycleTypeOK, LoopTypeOK, Job
    <2>3. OnlyCurrentLive' /\ CurrentIsNewest'
      BY <2>1, <2>2 DEF SilentInv, OnlyCurrentLive, CurrentIsNewest, Handlers
    <2>4. SettlementNotMissed'
      <3> SUFFICES ASSUME NEW w \in Windows, NEW next \in Promoted,
                          status[w] = "PENDING_SETTLEMENT", next = w + 1,
                          price_to_beat[next] > 0
                   PROVE  FALSE
        BY <2>1 DEF SettlementNotMissed, Promoted
      <3>1. job.window = next
        BY DEF SilentInv, SettlementNotMissed
      <3>2. Queued(w)
        BY DEF LifecycleInv, QueueMatchesLedger, Queued
      <3> QED BY <2>1, <3>1, <3>2 DEF Matches
    <2> QED BY <1>1, <2>3, <2>4 DEF SilentInv
  <1>11. CASE Monitor
    <2>1. /\ pc = "loop" /\ pc' \in {"loop", "discover"}
          /\ next_window_number' = next_window_number
      BY <1>11 DEF Monitor, market
    <2>2. CASE /\ Unfinished
               /\ QueueWindow(current_window.number)
               /\ current_window' = NoWindow
      BY <1>1, <2>1, <2>2, SilentQueued
    <2>3. CASE UNCHANGED <<ledger, pending_settlements, current_window>>
      BY <1>1, <2>1, <2>3, SilentKept DEF ledger
    <2> QED BY <1>11, <2>2, <2>3 DEF Monitor
  <1>12. CASE SpotTick
    <2> DEFINE event == Head(chan)
               rest  == IF NeedsPoll THEN "poll" ELSE "loop"
    <2>1. /\ pc = "loop" /\ next_window_number' = next_window_number
          /\ event.price \in SpotPrices \cup {0}
          /\ rest \in {"poll", "loop"}
      BY <1>12, Receiving DEF SpotTick, Receive, Event, market
    <2>2. \/ Captures(event.price, event.at) /\ CapturePtb(event.price, rest)
          \/ /\ pc' \in {rest, pc}
             /\ UNCHANGED <<ledger, current_window, ptb_locked_windows, job>>
      BY <1>12 DEF SpotTick
    <2> HIDE DEF event, rest
    <2>3. CASE Captures(event.price, event.at) /\ CapturePtb(event.price, rest)
      BY <1>1, <2>1, <2>3, SilentCaptured
    <2>4. CASE /\ pc' \in {rest, pc}
               /\ UNCHANGED <<ledger, current_window, ptb_locked_windows, job>>
      BY <1>1, <2>1, <2>4, SilentKept DEF ledger
    <2> QED BY <2>2, <2>3, <2>4
  <1>13. CASE ExecuteSignal
    <2>1. /\ UNCHANGED <<status, price_to_beat, next_window_number, current_window, pc>>
          /\ pc = "trade"
      BY <1>13, ExecuteSignalRefines DEF ExecuteSignal, app, market
    <2> QED BY <1>1, <2>1, SilentKept
  <1> QED BY <1>2, <1>3, <1>4, <1>5, <1>6, <1>7, <1>8, <1>9, <1>10, <1>11, <1>12,
             <1>13 DEF LifecycleNext, Handler

LEMMA SilentStart == LifecycleInit => SilentInv
  BY DEF LifecycleInit, LedgerInit, SilentInv, OnlySpotEvents, CurrentIsNewest,
         OnlyCurrentLive, SettlementNotMissed, Promoted, NoWindow

LEMMA SilentStutter ==
  ASSUME SilentInv, UNCHANGED vars
  PROVE  SilentInv'
  BY DEF SilentInv, OnlySpotEvents, CurrentIsNewest, OnlyCurrentLive,
         SettlementNotMissed, Promoted, vars, app, market, ledger

LEMMA SilentSettles ==
  ASSUME SilentInv
  PROVE  OneLiveWindow /\ SettlementNotMissed
  BY DEF SilentInv, OnlyCurrentLive, OneLiveWindow

\* While no CLOB tick comes, promote_next_to_current leaves at most one window LIVE,
\* and every queued window whose successor has a PTB is being closed at it
\* (queue_window_for_settlement, try_settle_pending_windows): what the loop's
\* comments say of it, late ticks set aside.
THEOREM SilentFeedSettles ==
  ASSUME QuoteSet = {}
  PROVE  LifecycleSpec => [](OneLiveWindow /\ SettlementNotMissed)
  <1>1. LifecycleInv /\ SilentInv /\ [LifecycleNext]_vars => SilentInv'
    BY SilentStep, SilentStutter
  <1>2. SilentInv => OneLiveWindow /\ SettlementNotMissed
    BY SilentSettles
  <1> QED BY <1>1, <1>2, SilentStart, LifecycleInvariant, PTL DEF LifecycleSpec

\* The sessions of MCSessions: whatever the constants, its quiet scenario is one of
\* those, when the CLOB feed is silent.
THEOREM QuietAlwaysSettles ==
  ASSUME QuoteSet = {}
  PROVE  Spec => []QuietSettles
  <1> DEFINE QuietInv == scenario = "quiet" => LifecycleInv /\ SilentInv
  <1>1. Init => QuietInv
    BY InitInv, SilentStart DEF Init
  <1>2. QuietInv /\ [Next]_<<vars, scenario>> => QuietInv'
    <2> SUFFICES ASSUME QuietInv, [Next]_<<vars, scenario>>, scenario' = "quiet"
                 PROVE  (LifecycleInv /\ SilentInv)'
      OBVIOUS
    <2>1. scenario = "quiet" /\ [LifecycleNext]_vars
      BY DEF Next
    <2> QED BY <2>1, StepInv, SilentStep, SilentStutter
  <1>3. QuietInv => QuietSettles
    BY SilentSettles DEF QuietSettles
  <1> QED BY <1>1, <1>2, <1>3, PTL DEF Spec
=============================================================================
