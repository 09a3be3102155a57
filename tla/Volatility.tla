----------------------------- MODULE Volatility -----------------------------
(***************************************************************************)
(* The ATR manager of src/src/volatility.rs: a task that follows the       *)
(* exchange's candles, a watchdog that reloads them over REST, and the     *)
(* three fields both write, each under a lock of its own.                  *)
(*                                                                         *)
(* A bar is told by its age, the minutes since the one it is of, 0 for the *)
(* minute under way; ages stop at Old.  What an ATR is worth is the bars   *)
(* it was computed from, so current_atr is that sequence, empty for 0.     *)
(***************************************************************************)
EXTENDS Integers, SequencesExt

CONSTANTS
  Period,      \* ATR_PERIOD
  StaleAfter,  \* ATR_STALE_SECS, in minutes
  Old          \* bound: ages are not told apart beyond it

AtrAssumption ==
  /\ Period \in Nat /\ Period >= 2
  /\ StaleAfter \in Nat \ {0}
  /\ Old \in Nat /\ Old > Period + StaleAfter

VARIABLES
  current_atr,    \* bars the current ATR was computed from
  bar_history,    \* ages of the bars, oldest first
  last_atr_tick,  \* age of the last mark, Old for none or long ago
  socket,         \* confirmed candles the stream has sent, not yet read
  down,           \* whether the stream, or REST, is failing: a set of sources
  pc,             \* where each task is
  got             \* what each task holds: bars fetched or computed from

vars == <<current_atr, bar_history, last_atr_tick, socket, down, pc, got>>

Tasks   == {"tracker", "watchdog"}
Sources == {"rest", "stream"}

Init ==
  /\ current_atr = <<>>
  /\ bar_history = <<>>
  /\ last_atr_tick = Old
  /\ socket = <<>>
  /\ down \in SUBSET Sources
  /\ pc = [task \in Tasks |-> IF task = "tracker" THEN "refresh" ELSE "wait"]
  /\ got = [task \in Tasks |-> <<>>]

Goto(task, point) == pc' = [pc EXCEPT ![task] = point]
Keep(task, bars)  == got' = [got EXCEPT ![task] = bars]

-----------------------------------------------------------------------------
(* The ATR of bars                                                         *)

\* faulty variant of Kept: one bar too many
OneTooMany(bars) == SubSeq(bars, IF Len(bars) > Period + 2 THEN Len(bars) - Period - 1 ELSE 1, Len(bars))

\* calculate_next_atr keeps one bar more than the period, for the first true
\* range.
Kept(bars) == SubSeq(bars, IF Len(bars) > Period + 1 THEN Len(bars) - Period ELSE 1, Len(bars))

\* No ATR until that many bars are there.
AtrOf(bars) == IF Len(bars) <= Period THEN <<>> ELSE bars

-----------------------------------------------------------------------------
(* Time and the sources                                                    *)

Aged(bars) == [i \in 1 .. Len(bars) |-> IF bars[i] = Old THEN Old ELSE bars[i] + 1]

\* A minute ends.  Its candle is confirmed on the stream, if that is working and
\* subscribed to.
Subscribed == pc["tracker"] \in {"read", "store", "mark"}
Minute ==
  /\ Len(socket) <= 1
  /\ current_atr' = Aged(current_atr)
  /\ bar_history' = Aged(bar_history)
  /\ last_atr_tick' = IF last_atr_tick = Old THEN Old ELSE last_atr_tick + 1
  /\ socket' = IF Subscribed /\ "stream" \notin down
               THEN Append(Aged(socket), 1) ELSE Aged(socket)
  /\ got' = [task \in Tasks |-> Aged(got[task])]
  /\ UNCHANGED <<down, pc>>

Breaks ==
  /\ \E source \in Sources \ down : down' = down \cup {source}
  /\ UNCHANGED <<current_atr, bar_history, last_atr_tick, socket, pc, got>>

Recovers(source) ==
  /\ source \in down
  /\ down' = down \ {source}
  /\ UNCHANGED <<current_atr, bar_history, last_atr_tick, socket, pc, got>>

-----------------------------------------------------------------------------
(* refresh_from_rest, in either task                                       *)

\* The last bars of the exchange, the minute under way included.
RestBars == [i \in 1 .. Period + 1 |-> Period + 1 - i]

Fetch(task, from, otherwise) ==
  /\ pc[task] = from
  /\ IF "rest" \notin down
     THEN Goto(task, "commit") /\ Keep(task, RestBars)
     ELSE Goto(task, otherwise) /\ UNCHANGED got
  /\ UNCHANGED <<current_atr, bar_history, last_atr_tick, socket, down>>

\* commit_atr: the three fields one after the other.
CommitAtr(task) ==
  /\ pc[task] = "commit"
  /\ current_atr' = AtrOf(got[task])
  /\ Goto(task, "history")
  /\ UNCHANGED <<bar_history, last_atr_tick, socket, down, got>>

CommitHistory(task) ==
  /\ pc[task] = "history"
  /\ bar_history' = Kept(got[task])
  /\ Goto(task, "fresh")
  /\ UNCHANGED <<current_atr, last_atr_tick, socket, down, got>>

CommitFresh(task, next) ==
  /\ pc[task] = "fresh"
  /\ last_atr_tick' = 0
  /\ Goto(task, next)
  /\ Keep(task, <<>>)
  /\ UNCHANGED <<current_atr, bar_history, socket, down>>

-----------------------------------------------------------------------------
(* The tracking task: REST, then the stream until it fails                 *)

Connect ==
  /\ pc["tracker"] = "connect"
  /\ Goto("tracker", IF "stream" \in down THEN "refresh" ELSE "read")
  /\ socket' = <<>>
  /\ UNCHANGED <<current_atr, bar_history, last_atr_tick, down, got>>

\* A confirmed candle goes into the history under its lock.
ReadCandle ==
  /\ pc["tracker"] = "read"
  /\ socket # <<>>
  /\ socket' = Tail(socket)
  /\ bar_history' = Kept(Append(bar_history, Head(socket)))
  /\ IF AtrOf(bar_history') # <<>>
     THEN Goto("tracker", "store") /\ Keep("tracker", AtrOf(bar_history'))
     ELSE UNCHANGED <<pc, got>>
  /\ UNCHANGED <<current_atr, last_atr_tick, down>>

StoreAtr ==
  /\ pc["tracker"] = "store"
  /\ current_atr' = got["tracker"]
  /\ Goto("tracker", "mark")
  /\ Keep("tracker", <<>>)
  /\ UNCHANGED <<bar_history, last_atr_tick, socket, down>>

MarkFresh ==
  /\ pc["tracker"] = "mark"
  /\ last_atr_tick' = 0
  /\ Goto("tracker", "read")
  /\ UNCHANGED <<current_atr, bar_history, socket, down, got>>

\* The read fails.  A connection may also hang without failing: then the task
\* waits, with no timeout, for a candle that does not come.
StreamFails ==
  /\ pc["tracker"] = "read"
  /\ "stream" \in down
  /\ Goto("tracker", "refresh")
  /\ UNCHANGED <<current_atr, bar_history, last_atr_tick, socket, down, got>>

-----------------------------------------------------------------------------
(* The watchdog                                                            *)

NeverTicked == last_atr_tick = Old /\ current_atr = <<>> \* faulty variant of Stale
Stale == last_atr_tick = Old \/ last_atr_tick > StaleAfter

Check ==
  /\ pc["watchdog"] = "wait"
  /\ Stale
  /\ Goto("watchdog", "fetch")
  /\ UNCHANGED <<current_atr, bar_history, last_atr_tick, socket, down, got>>

Commit(task) ==
  \/ CommitAtr(task) \/ CommitHistory(task)
  \/ CommitFresh(task, IF task = "tracker" THEN "connect" ELSE "wait")

Tracker  == Fetch("tracker", "refresh", "refresh") \/ Commit("tracker")
            \/ Connect \/ ReadCandle \/ StoreAtr \/ MarkFresh
Watchdog == Check \/ Fetch("watchdog", "fetch", "wait") \/ Commit("watchdog")

Next == Minute \/ Breaks \/ (\E source \in Sources : Recovers(source))
        \/ Tracker \/ StreamFails \/ Watchdog

\* Time passes and both tasks run.  Neither source is assumed to recover.
Spec ==
  /\ Init /\ [][Next]_vars
  /\ WF_vars(Minute) /\ WF_vars(Tracker) /\ WF_vars(Watchdog)

-----------------------------------------------------------------------------
(* Properties                                                              *)

Ages == Seq(0 .. Old)
TypeOK ==
  /\ current_atr \in Ages /\ bar_history \in Ages /\ socket \in Ages
  /\ Len(bar_history) <= Period + 1
  /\ last_atr_tick \in 0 .. Old
  /\ down \subseteq Sources
  /\ DOMAIN pc = Tasks
  /\ pc["tracker"] \in {"refresh", "commit", "history", "fresh", "connect",
                        "read", "store", "mark"}
  /\ pc["watchdog"] \in {"wait", "fetch", "commit", "history", "fresh"}
  /\ got \in [Tasks -> Ages]

\* An ATR, once there is one, is over a whole period: two tasks writing ATR and
\* history in turn never leave one computed from a short or an overlong history,
\* and never call one fresh that is not there.
AtrIsOverThePeriod ==
  /\ current_atr # <<>> => Len(current_atr) = Period + 1
  /\ last_atr_tick = 0 => current_atr # <<>>

\* Inductive: a task on its way to the ATR holds a whole period of bars, and has
\* stored an ATR before it calls it fresh.
Committing == {"commit", "history", "fresh"}
AtrInv ==
  /\ TypeOK
  /\ AtrIsOverThePeriod
  /\ \A task \in Tasks : pc[task] \in Committing => Len(got[task]) = Period + 1
  /\ pc["tracker"] = "store" => Len(got["tracker"]) = Period + 1
  /\ (\E task \in Tasks : pc[task] \in {"history", "fresh", "mark"}) => current_atr # <<>>

\* Once REST stays up, the ATR keeps being refreshed, though the stream may hang
\* without an error and the tracking task wait on it for ever: the watchdog sees
\* to it.
AtrKeepsFresh == <>[]("rest" \notin down) => []<>(last_atr_tick = 0)
=============================================================================
