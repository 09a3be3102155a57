------------------------------ MODULE SpotFeed ------------------------------
(***************************************************************************)
(* The spot price on its way from the Chainlink socket to the decisions:   *)
(* subscribe_chainlink of src/src/client.rs with its staleness watchdog,   *)
(* the channel, and the SpotTick handler of src/src/main.rs.               *)
(*                                                                         *)
(* Both ends refuse a payload that is not newer than the last one they     *)
(* took, so one payload stamped ahead of time shuts the door behind it.    *)
(* Times are relative to now: a lead is a stamp minus now, an age is now   *)
(* minus a receipt, and both stop counting where no comparison tells them  *)
(* apart any more, so that behaviours need not end.  A stamp of Far is so  *)
(* far ahead that time does not catch up with it.                          *)
(***************************************************************************)
EXTENDS Integers, Sequences

CONSTANTS
  MaxAge,      \* CHAINLINK_MAX_EVENT_AGE_MS and MAX_SPOT_AGE_MS, both five seconds
  Timeout,     \* CHAINLINK_FRESH_TICK_TIMEOUT_MS
  Behind, Ahead,  \* how late and how far ahead a feed gone wrong may stamp
  Far,         \* a lead, far beyond MaxAge
  MaxBusy,     \* bound: seconds the loop is busy before its next event
  ChanCap      \* bound: SpotTicks waiting in the channel

SpotAssumption ==
  /\ MaxAge \in Nat \ {0} /\ Timeout \in Nat \ {0} /\ ChanCap \in Nat \ {0}
  /\ Far \in Nat /\ Far > MaxAge
  /\ Behind \subseteq 0 .. 2 * MaxAge /\ Ahead \subseteq 0 .. Far
  /\ MaxBusy \in Nat

VARIABLES
  sound,         \* whether the feed has come back to sound stamps for good
  conn,          \* state of the subscription: "down" or "up"
  last_payload,  \* lead of last_payload_timestamp_ms
  quiet,         \* age of last_fresh_tick_ms
  chan,          \* leads of the SpotTicks in the channel
  busy,          \* seconds the oldest of them has waited at the head
  event_at,      \* lead of spot_event_at_ms
  received       \* age of spot_received_at_ms

vars == <<sound, conn, last_payload, quiet, chan, busy, event_at, received>>

\* A lead behind all acceptable payloads: the same as no payload at all.
Past == -2 * MaxAge - 2
Leads == {-b : b \in Behind} \cup Ahead

Init ==
  /\ sound = FALSE
  /\ conn = "down"
  /\ last_payload = Past
  /\ quiet = 0
  /\ chan = <<>>
  /\ busy = 0
  /\ event_at = Past
  /\ received = MaxAge + 1

Sooner(lead) == IF lead = Far \/ lead = Past THEN lead ELSE lead - 1
Older(age, most) == IF age = most THEN age ELSE age + 1

Tick ==
  /\ chan # <<>> => busy < MaxBusy
  /\ busy' = IF chan = <<>> THEN 0 ELSE busy + 1
  /\ chan' = [i \in 1 .. Len(chan) |-> Sooner(chan[i])]
  /\ last_payload' = Sooner(last_payload)
  /\ quiet' = Older(quiet, Timeout + 1)
  /\ event_at' = Sooner(event_at)
  /\ received' = Older(received, MaxAge + 1)
  /\ UNCHANGED <<sound, conn>>

\* A new connection starts with no last payload and a fresh timer.
Connect ==
  /\ conn = "down"
  /\ conn' = "up"
  /\ last_payload' = Past
  /\ quiet' = 0
  /\ UNCHANGED <<sound, chan, busy, event_at, received>>

\* Errors of the socket.
Disconnect ==
  /\ conn = "up"
  /\ ~sound
  /\ conn' = "down"
  /\ UNCHANGED <<sound, last_payload, quiet, chan, busy, event_at, received>>

\* stale_interval: nothing fresh for too long.
NeverStale == FALSE \* faulty variant of Stale
Stale == quiet > Timeout
StaleReconnect ==
  /\ conn = "up"
  /\ Stale
  /\ conn' = "down"
  /\ UNCHANGED <<sound, last_payload, quiet, chan, busy, event_at, received>>

\* The subscription takes payloads newer than the last and not too old.
Takes(lead) == lead > last_payload /\ lead >= -MaxAge
Payload(lead) ==
  /\ conn = "up"
  /\ Takes(lead)
  /\ Len(chan) < ChanCap
  /\ last_payload' = lead
  /\ quiet' = 0
  /\ chan' = Append(chan, lead)
  /\ UNCHANGED <<sound, conn, busy, event_at, received>>

BadPayload == ~sound /\ \E lead \in Leads : Payload(lead)
SoundPayload == Payload(0)

\* From here on the feed stamps its payloads with the present.
BecomeSound ==
  /\ ~sound
  /\ sound' = TRUE
  /\ UNCHANGED <<conn, last_payload, quiet, chan, busy, event_at, received>>

\* process_event, SpotTick: not newer, too old or too far ahead is ignored.
Refused(lead) == lead <= event_at \/ lead < -MaxAge \/ lead > MaxAge
Handle ==
  LET lead == Head(chan) IN
  /\ chan # <<>>
  /\ chan' = Tail(chan)
  /\ busy' = 0
  /\ IF Refused(lead)
     THEN UNCHANGED <<event_at, received>>
     ELSE event_at' = lead /\ received' = 0
  /\ UNCHANGED <<sound, conn, last_payload, quiet>>

Next == \/ Tick \/ Connect \/ Disconnect \/ StaleReconnect
        \/ BadPayload \/ SoundPayload \/ BecomeSound \/ Handle

\* Time passes, both tasks run, connecting succeeds in the end, and the feed,
\* which publishes about every second, gets a payload through between two of the
\* watchdog's reconnections.  The feed becoming sound is not assumed.
Spec ==
  /\ Init /\ [][Next]_vars
  /\ WF_vars(Tick) /\ WF_vars(Handle)
  /\ WF_vars(Connect) /\ WF_vars(StaleReconnect)
  /\ SF_vars(SoundPayload)

-----------------------------------------------------------------------------
(* Properties                                                              *)

TypeOK ==
  /\ sound \in BOOLEAN
  /\ conn \in {"down", "up"}
  /\ last_payload \in Past .. Far
  /\ quiet \in 0 .. Timeout + 1
  /\ chan \in Seq(Past .. Far)
  /\ busy \in 0 .. MaxBusy
  /\ event_at \in Past .. MaxAge
  /\ received \in 0 .. MaxAge + 1

\* fresh_spot_sample: a spot received lately is one decisions are made on.
Fresh == received <= MaxAge

\* A spot decisions are made on was received at most five seconds ago and stamped
\* at most five seconds before that, wherever it was held up: in the socket, or
\* in the channel while the loop was busy.
FreshIsRecent == Fresh => event_at >= -2 * MaxAge

\* Inductive: what was accepted was stamped MaxAge ago at most, and grows older with
\* its receipt.
SpotInv == TypeOK /\ (Fresh => event_at >= -MaxAge - received)

\* A payload from the future, however far, does not shut the bot off the spot
\* feed for good: once the feed is sound again, fresh spot comes back and keeps
\* coming back.  Without the staleness watchdog the subscription would wait for
\* a stamp newer than the future one for ever.
SpotComesBack == sound ~> []<>(received = 0)
=============================================================================
