------------------------------ MODULE Shutdown ------------------------------
(***************************************************************************)
(* The end of a session: a termination signal becomes an event in the      *)
(* channel of the worker's loop, the loop head waits for open windows or   *)
(* for its own timeout, and --stop waits outside with a timeout of its     *)
(* own.  src/src/main.rs (loop, process_event, spawn_shutdown_signals) and *)
(* stop_server of src/src/daemon.rs.  Ticks trade on meanwhile, which the  *)
(* end of the session does not depend on.                                  *)
(***************************************************************************)
EXTENDS Naturals

CONSTANTS
  ForceAfter,   \* seconds the loop head waits for open windows
  Grace,        \* seconds stop_server waits before it kills
  HandlerMax,   \* longest handler, in seconds: HTTP requests are awaited in it
  AlwaysLive,   \* a promoted window is LIVE (j_endgame), not SKIPPED
  MaxQueue      \* bound of the model on windows that await settlement

ShutdownAssumption ==
  /\ ForceAfter \in Nat \ {0} /\ Grace \in Nat \ {0} /\ HandlerMax \in Nat
  /\ MaxQueue \in Nat /\ AlwaysLive \in BOOLEAN

VARIABLES
  proc,      \* "running", "exited" (by itself) or "killed"
  window,    \* status of the current window, "NONE" in a gap of the discovery
  queue,     \* pending_settlements: how many
  listening, \* signals whose task still waits for one
  mail,      \* ShutdownRequested events in the channel
  pending,   \* shutdown_pending
  since,     \* seconds since shutdown_requested_at_ms, up to ForceAfter
  handler,   \* seconds the handler under way still takes
  stop,      \* stop_server: [phase, waited]
  held       \* history: seconds of the wait of --stop that a handler took of the loop
             \* while the event lay in the channel or the timeout was over

session == <<window, queue>>
request == <<listening, mail, pending, since>>
vars == <<proc, session, request, handler, stop, held>>

ShutdownInit ==
  /\ proc = "running"
  /\ window = "LIVE" /\ queue = 0
  /\ listening = {"INT", "TERM"} /\ mail = 0 /\ pending = FALSE
  /\ since = 0 /\ handler = 0
  /\ stop = [phase |-> "none", waited |-> 0]
  /\ held = 0

Idle == proc = "running" /\ handler = 0

-----------------------------------------------------------------------------
(* The loop head                                                           *)

HasActive == window \in {"LIVE", "ENTERED_PRE_START"} \/ queue > 0

NeverForced == FALSE   \* faulty variant of ForceExit
ForceExit   == since >= ForceAfter

CanExit == pending /\ (~HasActive \/ ForceExit)

\* It flushes the statistics, removes the server's files and returns.
LoopExits ==
  /\ Idle /\ CanExit
  /\ proc' = "exited"
  /\ UNCHANGED <<session, request, handler, stop, held>>

-----------------------------------------------------------------------------
(* Handlers of the loop; none runs once the loop head can exit             *)

MayHandle == Idle /\ ~CanExit

\* ShutdownRequested: the first one counts, a second one changes nothing.
Restarted == 0   \* faulty variant of SinceRequest
SinceRequest == IF pending THEN since ELSE 0
TakeSignal ==
  /\ MayHandle
  /\ mail > 0
  /\ mail' = mail - 1
  /\ pending' = TRUE
  /\ since' = SinceRequest
  /\ UNCHANGED <<proc, session, listening, handler, stop, held>>

\* A handler that awaits the network: market discovery, the status poll or a
\* balance; the channel is not read meanwhile.
HandlerAwaits ==
  /\ MayHandle
  /\ handler' \in 1..HandlerMax
  /\ UNCHANGED <<proc, session, request, stop, held>>

\* The current window ends, traded or skipped: it is queued for its settlement, and
\* the next one is promoted if discovery found it.
WindowEnds ==
  /\ MayHandle
  /\ window \in {"LIVE", "SKIPPED"}
  /\ queue < MaxQueue
  /\ queue' = queue + 1
  /\ window' \in {IF AlwaysLive THEN "LIVE" ELSE "SKIPPED", "NONE"}
  /\ UNCHANGED <<proc, request, handler, stop, held>>

\* Discovery finds the current window after a gap.
WindowFound ==
  /\ MayHandle
  /\ window = "NONE"
  /\ window' = IF AlwaysLive THEN "LIVE" ELSE "SKIPPED"
  /\ UNCHANGED <<proc, queue, request, handler, stop, held>>

\* The PTB of the next window settles one that waits.
Settle ==
  /\ MayHandle
  /\ queue > 0
  /\ queue' = queue - 1
  /\ UNCHANGED <<proc, window, request, handler, stop, held>>

-----------------------------------------------------------------------------
(* The outside                                                             *)

\* Each signal has one task, which sends one event and ends.
Deaf(s)       == listening \ {s}
Delivered(s) ==
  /\ listening' = Deaf(s)
  /\ mail' = IF s \in listening THEN mail + 1 ELSE mail
  /\ UNCHANGED <<pending, since>>

\* SIGTERM or SIGINT of somebody else: systemd, a terminal.
Terminated ==
  /\ proc = "running"
  /\ \E s \in listening : Delivered(s)
  /\ UNCHANGED <<proc, session, handler, stop, held>>

\* --stop sends SIGTERM, with --force SIGKILL.
StopCommand ==
  /\ stop.phase = "none" /\ proc = "running"
  /\ \/ /\ stop' = [phase |-> "waiting", waited |-> 0]
        /\ Delivered("TERM")
        /\ UNCHANGED proc
     \/ /\ stop' = [phase |-> "forced", waited |-> 0]
        /\ proc' = "killed"
        /\ UNCHANGED request
  /\ UNCHANGED <<session, handler, held>>

Gone       == proc # "running"
StopSeesExit ==
  /\ stop.phase = "waiting" /\ Gone
  /\ stop' = [stop EXCEPT !.phase = "stopped"]
  /\ UNCHANGED <<proc, session, request, handler, held>>

GraceOver == stop.phase = "waiting" /\ stop.waited >= Grace
StopKills ==
  /\ GraceOver /\ proc = "running"
  /\ proc' = "killed"
  /\ stop' = [stop EXCEPT !.phase = "killed"]
  /\ UNCHANGED <<session, request, handler, held>>

\* A second passes.  The loop turns every 250 ms and stop_server polls every
\* 500 ms: neither lets a second pass while it has something to do.
Lesser(a, b) == IF a <= b THEN a ELSE b
HeldUp ==
  /\ stop.phase = "waiting" /\ stop.waited < Grace
  /\ proc = "running" /\ handler > 0
  /\ ~pending \/ ForceExit
SecondPasses ==
  /\ ~(Idle /\ (CanExit \/ mail > 0))
  /\ ~(GraceOver /\ proc = "running")
  /\ handler' = IF handler > 0 THEN handler - 1 ELSE 0
  /\ since' = IF pending THEN Lesser(since + 1, ForceAfter) ELSE 0
  /\ stop' = IF stop.phase = "waiting"
             THEN [stop EXCEPT !.waited = Lesser(@ + 1, Grace)] ELSE stop
  /\ held' = IF HeldUp THEN held + 1 ELSE held
  /\ UNCHANGED <<proc, session, listening, mail, pending>>

-----------------------------------------------------------------------------

LoopStep == LoopExits \/ TakeSignal
ShutdownNext ==
  \/ LoopStep \/ HandlerAwaits \/ WindowEnds \/ WindowFound \/ Settle
  \/ Terminated \/ StopCommand \/ StopSeesExit \/ StopKills \/ SecondPasses

\* Time passes, the loop turns (tokio's select! is fair among its branches) and
\* the stop command runs.
Fairness ==
  /\ WF_vars(LoopExits) /\ SF_vars(TakeSignal) /\ WF_vars(SecondPasses)
  /\ WF_vars(StopSeesExit) /\ WF_vars(StopKills)
ShutdownSpec == ShutdownInit /\ [][ShutdownNext]_vars /\ Fairness

-----------------------------------------------------------------------------
(* Properties                                                              *)

\* The range of every variable; each signal is delivered as one event at most.
ShutdownTypeOK ==
  /\ proc \in {"running", "exited", "killed"}
  /\ window \in {"NONE", "LIVE", "SKIPPED"}
  /\ queue \in 0..MaxQueue
  /\ listening \subseteq {"INT", "TERM"} /\ mail \in 0..2 /\ pending \in BOOLEAN
  /\ since \in 0..ForceAfter /\ handler \in 0..HandlerMax /\ held \in 0..Grace
  /\ stop \in [phase : {"none", "waiting", "forced", "stopped", "killed"}, waited : 0..Grace]

\* --stop without --force kills no worker that could have left: however long the
\* handlers are and however many windows stay open, a worker that is killed was held
\* up by them for the Grace - ForceAfter seconds that --stop waits longer than it.
KilledOnlyWhenHeld ==
  proc = "killed" => \/ stop.phase = "forced"
                     \/ stop.phase = "killed" /\ held >= Grace - ForceAfter

\* A signal that has been taken from its task is in the channel, or was heard.
Sent(s) == IF s \in listening THEN 0 ELSE 1
SignalsKept ==
  /\ mail <= Sent("INT") + Sent("TERM")
  /\ stop.phase = "waiting" => "TERM" \notin listening
  /\ "TERM" \notin listening /\ ~pending => mail > 0

\* The seconds --stop has waited are those of the timeout and those lost to handlers.
WaitAccounted ==
  /\ held <= stop.waited /\ (stop.phase = "none" => stop.waited = 0)
  /\ ~pending => since = 0
  /\ stop.phase = "waiting" /\ proc = "running" => stop.waited <= since + held

\* The inductive invariant behind KilledOnlyWhenHeld.
ShutdownInv ==
  /\ ShutdownTypeOK /\ SignalsKept /\ WaitAccounted
  /\ KilledOnlyWhenHeld

\* A session that was asked to end does end, whatever its windows do.
ShutdownEnds == pending ~> (proc # "running")

\* --stop always comes back.
StopReturns == (stop.phase = "waiting") ~> (stop.phase \in {"stopped", "killed"})
=============================================================================
