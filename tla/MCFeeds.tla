------------------------------- MODULE MCFeeds -------------------------------
(***************************************************************************)
(* What the feeds bring into the event loop, on small instances: the       *)
(* crosses of the two books (MidCross), one token's book and tape          *)
(* (BookFeed), the spot and its samples (SpotSeries).  They share no state:*)
(* the first state picks one of them, and the variables of the others stay *)
(* Off.                                                                    *)
(***************************************************************************)
EXTENDS Integers

CONSTANTS
  Quotes, Prints, SignificantGap, MaxMoves, MaxTicks,              \* MidCross
  BookAsks, BookBids, TradePrices, TradeSizes, TapeWindow, MinUsd, \* BookFeed
  Limits, ClipSizes, Budgets, MaxClips, MaxPrints, MaxClock,
  Ms, Boundary, Begin, MaxSamples, Recent, MaxSampleAge, Leads,    \* SpotSeries
  Steps, SpotPrices, LastInstant

VARIABLES
  stream,
  path, book, quote, due, state, seen, calm, base, disturbed, \* MidCross
  clock, prices, printed, pruned, sweep,   \* BookFeed
  instant, spot, samples, observed  \* SpotSeries

Absent == "absent"
crossVars  == <<path, book, quote, due, state, seen, calm, base, disturbed>>
bookVars   == <<clock, prices, printed, pruned, sweep>>
seriesVars == <<instant, spot, samples, observed>>
feedsVars  == <<stream, crossVars, bookVars, seriesVars>>

\* A market that leads either way, clearly, and one that leads neither way.
Q(bid, ask) == [bid |-> bid, ask |-> ask]
MCQuotes == {Q(59, 61), Q(34, 36), Q(49, 51)}

\* Books with no, one and several levels, unsorted ones and ones with an empty level.
L(price, worth) == [price |-> price, worth |-> worth]
MCBookAsks == {{}, {L(50, 100)}, {L(52, 150), L(50, 60)},
               {L(50, 0), L(54, 300), L(56, 40)}}
MCBookBids == {{}, {L(45, 80), L(48, 20)}}

Cross  == INSTANCE MidCross
Book   == INSTANCE BookFeed
Series == INSTANCE SpotSeries WITH
  MaxAge <- MaxSampleAge, MaxClock <- LastInstant, clock <- instant

ASSUME FeedsAssumption ==
  /\ Cross!MidAssumption
  /\ Book!FeedAssumption /\ Book!BooksAssumption
  /\ Series!SeriesAssumption

CrossAbsent  == /\ path = Absent /\ book = Absent /\ quote = Absent /\ due = Absent
                /\ state = Absent /\ seen = Absent
                /\ calm = Absent /\ base = Absent /\ disturbed = Absent
BookAbsent   == /\ clock = Absent /\ prices = Absent /\ printed = Absent
                /\ pruned = Absent /\ sweep = Absent
SeriesAbsent == instant = Absent /\ spot = Absent /\ samples = Absent /\ observed = Absent

FeedsInit ==
  \/ stream = "cross"  /\ Cross!Init  /\ BookAbsent  /\ SeriesAbsent
  \/ stream = "book"   /\ Book!Init   /\ CrossAbsent /\ SeriesAbsent
  \/ stream = "series" /\ Series!Init /\ CrossAbsent /\ BookAbsent

FeedsNext ==
  \/ stream = "cross"  /\ Cross!Next  /\ UNCHANGED <<stream, bookVars, seriesVars>>
  \/ stream = "book"   /\ Book!Next   /\ UNCHANGED <<stream, crossVars, seriesVars>>
  \/ stream = "series" /\ Series!Next /\ UNCHANGED <<stream, crossVars, bookVars>>

FeedsSpec == FeedsInit /\ [][FeedsNext]_feedsVars

-----------------------------------------------------------------------------
(* Properties: those of the modules, where they are stated                 *)

\* The ranges of all variables; the tracker's counts are those of the whole history
\* (MidCross); the tape stays short and no book is crossed (BookFeed); the spot is
\* the last sample, and no velocity is given of old ones (SpotSeries).
FeedsInv ==
  /\ stream = "cross"  => Cross!TypeOK /\ Cross!CountsMatchHistory
  /\ stream = "book"   => Book!TypeOK /\ Book!TapeStaysShort /\ Book!SpreadStaysOpen
  /\ stream = "series" => Series!TypeOK /\ Series!SpotIsLastSample /\ Series!VelocityIsRecent

\* Books that are updated one after the other invent no cross of the market, and a
\* price, a late book or an empty snapshot at most two (MidCrossTracker::observe_tick).
CrossesExplained == stream = "cross" => Cross!CrossesExplained

\* Pruned from the front and only by prints, the tape tells at every moment what
\* was bought in its window (SideTape::snapshot).
SnapshotIsExact == stream = "book" => Book!SnapshotIsExact

\* The clips of a sweep take each level's depth once (apply_fill_to_asks), from the
\* best level on (sort_asks), and buy more only off a quote without levels.
LevelsFillOnce ==
  stream = "book" => Book!LevelsInOrder /\ Book!SweepWithinBudget /\ Book!LevelsFillOnce
=============================================================================
