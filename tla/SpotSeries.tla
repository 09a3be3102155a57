----------------------------- MODULE SpotSeries -----------------------------
(***************************************************************************)
(* SpotSeries of src/src/main.rs, the samples behind the velocity signals, *)
(* with the SpotTick handler that feeds it and the snapshot strategies     *)
(* see.                                                                    *)
(*                                                                         *)
(* Stamps may come in seconds or in milliseconds: below Boundary they are  *)
(* taken for seconds, of Ms milliseconds each.  The smoothed velocity is   *)
(* an exponential average, abstracted to how many samples it has seen: it  *)
(* exists from the second sample on, its acceleration from the third.      *)
(***************************************************************************)
EXTENDS Integers, SequencesExt

CONSTANTS
  Ms,            \* milliseconds in a second (1000)
  Boundary,      \* stamps below it are in seconds (10_000_000_000)
  Begin,         \* the instant the run starts, in milliseconds
  MaxSamples,    \* max_samples
  Recent,        \* window of the raw velocity, 20_000
  MaxAge,        \* MAX_SPOT_AGE_MS
  Leads,         \* how far behind and ahead of now stamps are, as naturals
  Steps,         \* how far time moves on between events
  SpotPrices,
  MaxClock       \* bound: last instant

SeriesAssumption ==
  /\ Ms \in Nat \ {0} /\ Boundary \in Nat /\ Begin \in Nat
  /\ Begin > Boundary /\ MaxClock \div Ms < Boundary
  /\ Boundary >= MaxAge /\ MaxClock >= Begin
  /\ MaxSamples \in Nat \ {0} /\ Recent \in Nat \ {0} /\ MaxAge \in Nat
  /\ Leads \subseteq Nat /\ Steps \subseteq Nat \ {0}
  /\ SpotPrices \subseteq Nat \ {0} /\ MaxClock \in Nat

VARIABLES
  clock,
  spot,       \* spot_price, spot_event_at_ms and spot_received_at_ms
  samples,    \* SpotSeries.samples
  observed    \* samples the smoothed velocity has seen, counted up to three

vars == <<clock, spot, samples, observed>>

NoSpot == [price |-> 0, at |-> -1, received |-> -1]

\* normalize_event_timestamp_ms
Normalized(stamp) == IF stamp > 0 /\ stamp < Boundary THEN stamp * Ms ELSE stamp

\* SpotSeries::observe: a sample not newer than the last is ignored, and the
\* oldest ones go.
Bounded(s) == SubSeq(s, IF Len(s) > MaxSamples THEN Len(s) - MaxSamples + 1 ELSE 1, Len(s))
Observe(at, price) ==
  IF samples # <<>> /\ at <= Last(samples).at
  THEN UNCHANGED <<samples, observed>>
  ELSE /\ samples' = Bounded(Append(samples, [at |-> at, price |-> price]))
       /\ observed' = IF observed = 3 THEN 3 ELSE observed + 1

Init ==
  /\ clock = Begin
  /\ spot = NoSpot
  /\ samples = <<>>
  /\ observed = 0

PassTime ==
  /\ \E step \in Steps : clock' = clock + step /\ clock' <= MaxClock
  /\ UNCHANGED <<spot, samples, observed>>

\* process_event, SpotTick: not newer, too old, or too far ahead.
Refused(at) ==
  \/ spot.at # -1 /\ at <= spot.at
  \/ clock - at > MaxAge
  \/ at - clock > MaxAge

SpotTick(stamp, price) ==
  LET at == Normalized(stamp) IN
  /\ ~Refused(at)
  /\ spot' = [price |-> price, at |-> at, received |-> clock]
  /\ Observe(at, price)
  /\ UNCHANGED clock

\* The feed stamps in milliseconds, or in whole seconds.
Next ==
  \/ PassTime
  \/ \E lead \in Leads, price \in SpotPrices :
       \/ SpotTick(clock - lead, price)
       \/ SpotTick(clock + lead, price)
       \/ SpotTick((clock - lead) \div Ms, price)

Spec == Init /\ [][Next]_vars

-----------------------------------------------------------------------------
(* What strategies see                                                     *)

\* raw_velocity_over_recent_window walks back from the last sample to the first
\* one at least the window older, or to the oldest.
Base ==
  LET latest == Last(samples)
      reach  == {i \in 1 .. Len(samples) : latest.at - samples[i].at >= Recent}
  IN  samples[IF reach = {} THEN 1 ELSE CHOOSE i \in reach : \A j \in reach : j <= i]

\* Price move and time of the raw velocity, or <<>> when there is none.
RawVelocity ==
  IF samples = <<>> \/ Last(samples).at - Base.at <= 0 THEN <<>>
  ELSE <<Last(samples).price - Base.price, Last(samples).at - Base.at>>

Fresh == spot.price > 0 /\ clock - spot.received <= MaxAge

\* spot_signal_snapshot: no signals without a fresh spot.
Signals ==
  IF ~Fresh THEN [raw |-> <<>>, smoothed |-> FALSE, acceleration |-> FALSE]
  ELSE [raw |-> RawVelocity, smoothed |-> observed >= 2, acceleration |-> observed = 3]

-----------------------------------------------------------------------------
(* Properties                                                              *)

Sample == [at : Nat, price : SpotPrices]
TypeOK ==
  /\ clock \in Begin .. MaxClock
  /\ spot \in [price : SpotPrices, at : Nat, received : Nat] \cup {NoSpot}
  /\ samples \in Seq(Sample) /\ Len(samples) <= MaxSamples
  /\ observed \in 0 .. 3

\* The handler and the series refuse payloads by rules of their own, the one by
\* the last spot, the other by the last sample.  They never come apart: the spot
\* a strategy compares with the PTB is the sample its velocity ends in.
SpotIsLastSample ==
  IF samples = <<>> THEN spot = NoSpot
  ELSE spot.at = Last(samples).at /\ spot.price = Last(samples).price

\* A payload is not old when it is taken.
SpotWasRecent == spot # NoSpot => spot.received - spot.at <= MaxAge /\ spot.received <= clock

\* The velocity strategies trade on ends in a sample of the last few seconds: when
\* the feed falls silent the old samples stay, but no signal is given from them.
VelocityIsRecent ==
  Signals.raw # <<>> => clock - Last(samples).at <= 2 * MaxAge
\* What makes the two so.
SeriesInv == TypeOK /\ SpotIsLastSample /\ SpotWasRecent /\ VelocityIsRecent
=============================================================================
