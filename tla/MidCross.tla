------------------------------ MODULE MidCross ------------------------------
(***************************************************************************)
(* The mid-cross tracker of src/src/mid_cross_tracker.rs: which side of a  *)
(* window's book leads, how often the lead changed, and how many of those  *)
(* changes ended a clear lead.  The chop gates of strategy J read it.      *)
(*                                                                         *)
(* The books of a market's two tokens reach the client in messages of      *)
(* their own, so a tick may pair the new mid of one with an old mid of the *)
(* other; the messages of a new subscription queue up while its snapshot is *)
(* fetched, so a book may even be older than the one it replaces.  Between *)
(* books, any price of a token, of a trade or of an order far from the     *)
(* market, becomes its bid; and a book whose snapshot fails is all zeros.  *)
(* `path` is the course of the market, the quotes of UP; those of DOWN      *)
(* mirror them.                                                            *)
(*                                                                         *)
(* A lead is kept in whole cents, rounded towards zero: the tracker only    *)
(* asks whether it is less than a cent (a tie), whether it reaches the      *)
(* significant gap, and which of two is larger.  The fields of the last     *)
(* cross (its sides, time and ATR) are logged and displayed only, and left  *)
(* out.                                                                    *)
(***************************************************************************)
EXTENDS Integers, Sequences, FiniteSets

CONSTANTS
  Quotes,          \* quotes the UP token may have: records of bid and ask, in cents
  Prints,          \* prices that messages without a book may carry, in cents
  SignificantGap,  \* MID_CROSS_SIGNIFICANT_GAP, in cents
  MaxMoves,        \* bound: moves of the market
  MaxTicks         \* bound: ticks observed since the state was created

MidAssumption ==
  /\ Quotes \subseteq {q \in [bid : 1 .. 98, ask : 2 .. 99] : q.bid < q.ask}
  /\ Prints \subseteq 1 .. 98
  /\ SignificantGap \in Nat \ {0}
  /\ MaxMoves \in Nat /\ MaxTicks \in Nat

VARIABLES
  path,     \* the quotes of UP the market has gone through
  book,     \* book[token]: how far along the path the client's last book is
  quote,    \* quote[token]: bid and ask in the client's PricesState
  due,      \* whether MID_CROSS_ARM_TIME_PCT of the window has passed
  state,    \* MidCrossWindowState of the window, NoState when it has none
  seen,     \* history: leads observed since the state was created
  calm,     \* history: what state would be without the disturbed ticks
  base,     \* history: book at the last tick that was not disturbed
  disturbed \* history: how many of the ticks observed were disturbed

vars == <<path, book, quote, due, state, seen, calm, base, disturbed>>

Tokens  == {"UP", "DOWN"}
Leaders == {"UP", "DOWN", "NONE"}

NoState == [armed |-> FALSE, current_side |-> "NONE", peak_lead_gap |-> 0,
            cross_count |-> 0, significant_cross_count |-> 0]

Size(lead) == IF lead < 0 THEN -lead ELSE lead

LeadSideNoTie(lead) == IF lead > 0 THEN "UP" ELSE "DOWN" \* faulty variant of LeadSide

\* LeadSide::from_mids: a gap of less than MID_CROSS_MIN_FLIP_GAP, one cent,
\* is a tie.
LeadSide(lead) == IF lead = 0 THEN "NONE" ELSE IF lead > 0 THEN "UP" ELSE "DOWN"

\* The quotes of a token in the market's own book at a point of its course.
Own(token, at) ==
  IF token = "UP" THEN path[at]
  ELSE [bid |-> 100 - path[at].ask, ask |-> 100 - path[at].bid]

\* get_book_snapshot when the request fails: ContractPrices::default.
Empty == [bid |-> 0, ask |-> 0]

\* What a price_change, trade or last_trade_price makes of a token's quotes.
Printed(q, price) == [bid |-> price, ask |-> IF q.ask <= price THEN price + 1 ELSE q.ask]

\* up_mid - down_mid.
LeadOf(q) ==
  LET twice == (q["UP"].bid + q["UP"].ask) - (q["DOWN"].bid + q["DOWN"].ask) IN
  IF twice < 0 THEN -((-twice) \div 2) ELSE twice \div 2

Arm(lead) ==
  [NoState EXCEPT !.armed = TRUE,
                  !.current_side = LeadSide(lead),
                  !.peak_lead_gap = IF LeadSide(lead) = "NONE" THEN 0 ELSE Size(lead)]

\* faulty variant of NewPeak
KeptPeak(s, lead) == IF s.peak_lead_gap >= Size(lead) THEN s.peak_lead_gap ELSE Size(lead)

\* The gap a new leader starts its peak from.
NewPeak(s, lead) == Size(lead)

Cross(s, lead) ==
  [s EXCEPT !.current_side = LeadSide(lead),
            !.peak_lead_gap = NewPeak(s, lead),
            !.cross_count = @ + 1,
            !.significant_cross_count =
               IF s.peak_lead_gap >= SignificantGap THEN @ + 1 ELSE @]

\* observe_tick, of a tick late enough to be tracked.
Observe(s, lead) ==
  CASE ~s.armed -> Arm(lead)
    [] s.armed /\ LeadSide(lead) = "NONE" -> s
    [] s.armed /\ LeadSide(lead) # "NONE" ->
         IF s.current_side = LeadSide(lead)
         THEN [s EXCEPT !.peak_lead_gap = IF @ >= Size(lead) THEN @ ELSE Size(lead)]
         ELSE IF s.current_side = "NONE"
         THEN [s EXCEPT !.current_side = LeadSide(lead), !.peak_lead_gap = Size(lead)]
         ELSE Cross(s, lead)

-----------------------------------------------------------------------------

Init ==
  /\ path \in {<<q>> : q \in Quotes}
  /\ book = [token \in Tokens |-> 1]
  /\ quote = [token \in Tokens |-> Own(token, 1)]
  /\ due = FALSE
  /\ state = NoState /\ seen = <<>>
  /\ calm = NoState /\ base = book /\ disturbed = 0

Move ==
  /\ Len(path) <= MaxMoves
  /\ \E q \in Quotes \ {path[Len(path)]} : path' = Append(path, q)
  /\ UNCHANGED <<book, quote, due, state, seen, calm, base, disturbed>>

BecomeDue ==
  /\ ~due
  /\ due' = TRUE
  /\ UNCHANGED <<path, book, quote, state, seen, calm, base, disturbed>>

Together(b) == \A t, u \in Tokens : b[t] <= b[u] + 1

\* A tick of the market's own books, at most a move apart and none gone back.
Undisturbed(b, q) ==
  /\ \A t \in Tokens : q[t] = Own(t, b[t]) /\ b[t] >= base[t]
  /\ Together(b)

\* The books and quotes of one MarketTick become b and q.
TickWith(b, q) ==
  /\ book' = b /\ quote' = q
  /\ IF due
     THEN /\ Len(seen) < MaxTicks
          /\ state' = Observe(state, LeadOf(q))
          /\ seen' = Append(seen, LeadOf(q))
          /\ IF Undisturbed(b, q)
             THEN calm' = Observe(calm, LeadOf(q)) /\ base' = b /\ UNCHANGED disturbed
             ELSE disturbed' = disturbed + 1 /\ UNCHANGED <<calm, base>>
     ELSE UNCHANGED <<state, seen, calm, base, disturbed>>
  /\ UNCHANGED <<path, due>>

\* A message with a book of one token; the tick pairs it with what the client
\* holds of the other.
BookMessage ==
  \E token \in Tokens, at \in 1 .. Len(path) :
    TickWith([book EXCEPT ![token] = at], [quote EXCEPT ![token] = Own(token, at)])

\* A message with a price of one token.
PriceMessage ==
  \E token \in Tokens, price \in Prints :
    TickWith(book, [quote EXCEPT ![token] = Printed(@, price)])

\* The subscription starts over: get_market_snapshot asks for one book after the
\* other, and the tick it sends may hold empty ones.
Reconnect ==
  \E b \in [Tokens -> 1 .. Len(path)], failed \in SUBSET Tokens :
    /\ \A t \in Tokens : b[t] >= book[t] /\ (t \in failed => b[t] = book[t])
    /\ TickWith(b, [t \in Tokens |-> IF t \in failed THEN Empty ELSE Own(t, b[t])])

\* close_window_tracked: finalize_window and remove_window.  A tick still in
\* the channel makes a new state, armed by that tick.
RemoveWindow ==
  /\ state # NoState
  /\ state' = NoState /\ seen' = <<>>
  /\ calm' = NoState /\ base' = [token \in Tokens |-> 1] /\ disturbed' = 0
  /\ UNCHANGED <<path, book, quote, due>>

Next == Move \/ BecomeDue \/ BookMessage \/ PriceMessage \/ Reconnect \/ RemoveWindow

Spec == Init /\ [][Next]_vars

-----------------------------------------------------------------------------
(* Properties                                                              *)

States == [armed : BOOLEAN, current_side : Leaders, peak_lead_gap : 0 .. 100,
           cross_count : Nat, significant_cross_count : Nat]

TypeOK ==
  /\ path \in Seq(Quotes)
  /\ book \in [Tokens -> 1 .. MaxMoves + 1] /\ base \in [Tokens -> 1 .. MaxMoves + 1]
  /\ quote \in [Tokens -> [bid : 0 .. 98, ask : 0 .. 99]]
  /\ due \in BOOLEAN
  /\ state \in States /\ calm \in States /\ disturbed \in Nat
  /\ seen \in Seq(-100 .. 100)

\* Whether a lead is one of that side.
Favours(side, lead) == (side = "UP" /\ lead > 0) \/ (side = "DOWN" /\ lead < 0)

\* Whether side leads at i of the leads s, ties left out, and has led by gap or more
\* since the other side last did.
LeadsAt(s, i, side, gap) ==
  \E j \in 1 .. i :
    /\ Favours(side, s[j]) /\ Size(s[j]) >= gap
    /\ \A k \in j .. i : s[k] = 0 \/ Favours(side, s[k])

\* The positions at which such a lead ends.
Turns(s, gap) ==
  {i \in 1 .. Len(s) : \E side \in Tokens :
     LeadsAt(s, i - 1, side, gap) /\ s[i] # 0 /\ ~Favours(side, s[i])}

\* What observe_tick keeps incrementally is what the ticks of the window say
\* when they are read back as a whole: ties left out, the lead changed
\* cross_count times, and significant_cross_count of the leads that ended had
\* reached the gap, however the ticks and ties fell (the arming tick included).
CountsMatchHistory ==
  /\ state.cross_count = Cardinality(Turns(seen, 1))
  /\ state.significant_cross_count = Cardinality(Turns(seen, SignificantGap))
  /\ \A side \in Tokens : state.current_side = side <=> LeadsAt(seen, Len(seen), side, 1)

\* What makes it so: the side and peak kept say which lead the ticks show.
LeadKept(gap) ==
  \A side \in Tokens :
    LeadsAt(seen, Len(seen), side, gap)
      <=> state.current_side = side /\ state.peak_lead_gap >= gap
TrackerInv ==
  /\ TypeOK /\ CountsMatchHistory
  /\ Len(path) \in 1 .. MaxMoves + 1
  /\ book \in [Tokens -> 1 .. Len(path)] /\ base \in [Tokens -> 1 .. Len(path)]
  /\ state.armed \/ (state = NoState /\ seen = <<>>)
  /\ state.current_side # "NONE" => state.peak_lead_gap > 0
  /\ LeadKept(1) /\ LeadKept(SignificantGap)

\* The two books of a market are updated one after the other, so ticks pair mids of
\* different moments; as long as neither is more than a move behind, that never
\* invents a cross.  A tick that is disturbed, by a price that is not the market's, an
\* empty snapshot or a book that is late, may invent two of them, itself and the way
\* back, but no more: what it leaves behind in the side and the peak does not make
\* later ticks count what the market did not do.
Course == [i \in 1 .. Len(path) |-> path[i].bid + path[i].ask - 100]
CrossesExplained ==
  /\ state.cross_count <= Cardinality(Turns(Course, 1)) + 2 * disturbed
  /\ state.significant_cross_count
       <= Cardinality(Turns(Course, SignificantGap)) + 2 * disturbed

\* What makes it so.  Without the disturbed ticks the tracker has counted no turn the
\* newer book has not reached, and the lead it knows is that of the market there, or
\* one turn behind;
Reached      == IF base["UP"] >= base["DOWN"] THEN base["UP"] ELSE base["DOWN"]
TurnsBy(gap) == Cardinality(Turns(Course, gap) \cap (1 .. Reached))
NotAhead(count, gap) ==
  /\ count <= TurnsBy(gap)
  /\ calm.current_side # "NONE" /\ calm.peak_lead_gap >= gap =>
       \/ LeadsAt(Course, Reached, calm.current_side, gap)
       \/ count + 1 <= TurnsBy(gap)
\* with them it has counted at most two more for each, the second of which is still to
\* come when the lead it knows is not one it would know without them.
Explained(count, without, gap) ==
  /\ count <= without + 2 * disturbed
  /\ state.current_side # "NONE" /\ state.peak_lead_gap >= gap =>
       \/ calm.current_side = state.current_side /\ calm.peak_lead_gap >= gap
       \/ count + 1 <= without + 2 * disturbed
\* The last undisturbed tick is the one calm knows.
LastKnown ==
  LET lead == LeadOf([t \in Tokens |-> Own(t, base[t])]) IN
  IF calm.armed
  THEN LeadSide(lead) # "NONE" =>
         calm.current_side = LeadSide(lead) /\ calm.peak_lead_gap >= Size(lead)
  ELSE calm = NoState /\ base = [token \in Tokens |-> 1]
CourseInv ==
  /\ Together(base) /\ LastKnown
  /\ calm.armed => state.armed
  /\ calm.current_side # "NONE" => calm.peak_lead_gap > 0
  /\ NotAhead(calm.cross_count, 1)
  /\ NotAhead(calm.significant_cross_count, SignificantGap)
  /\ Explained(state.cross_count, calm.cross_count, 1)
  /\ Explained(state.significant_cross_count, calm.significant_cross_count, SignificantGap)
=============================================================================
