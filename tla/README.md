# GEM_RUST: a TLA+ verification project

GEM_RUST is a trading bot for Polymarket's short "Up or Down" crypto markets.
A market (the code's *window*) occupies one slot of 5 or 15 minutes; its *price
to beat* (PTB) is the Chainlink price at its start, and it is decided by the
PTB of the window that starts where it ends. The bot follows one asset, buys
and sells UP and DOWN shares of the running window, and settles finished windows
itself, on paper or against the exchange.

The modules here are translated from the Rust sources under `src/src/`. The
shipped configuration selects the strategy `j_endgame` and paper execution; the
event loop is modelled in that configuration. Live execution, the other
strategies, the feeds and the end of the process are modules of their own.

## 1. Inventory

One tokio task runs the event loop (`main.rs`, `main`): it selects among a
250 ms render tick, a 1 s monitor tick and an unbounded channel of market
events, and runs one handler to its end before the next. All other tasks only
send into that channel or write a shared cell.

| Component (source) | State it keeps | Operations | Interacts with |
|---|---|---|---|
| Portfolio ledger (`trader.rs`) | cash, session counters, a map of windows with status, PTB, spent, returned, shares, last prices | create window, buy, sell, close, record an exchange fill, skip | called by every handler of the loop, under one mutex |
| Event loop (`main.rs`) | `AppState`: clone of CURRENT, NEXT, subscriptions, settlement queue, spot, PTB locks, platform status, shutdown flag | discover, promote, capture PTB, queue, settle, safety close, spot tick, CLOB tick, execute signals | all of the others |
| Market client and feeds (`client.rs`, `asset_price.rs`) | one task per subscription, reconnect counters, order books | list markets, subscribe prices and spot, abort | sends `MarketEvent`s into the channel |
| Paper execution (`j_paper_executor.rs`) | none | fill a J order at the best quote or reject it | ledger |
| Strategy J (`strategy/strategy_j.rs`, `j_controller.rs`, `j_fees.rs`) | per window: exposure buckets, clip counts, chop snapshot, cut and rescue locks | plan orders of a tick, note executed orders | reads ledger window, books, trackers |
| Live execution (`live_executor.rs`) | session with the exchange | intent, age check, FOK retries, classify the answer, book the fill | ledger, audit |
| Live account, audit (`live_audit.rs`, `main.rs`) | last balance and allowance, SQLite rows | refresh, sync bank | strategy's cash |
| Shutdown and daemon (`daemon.rs`, `server.rs`, `main.rs`) | pid and meta files, shutdown flag and time, HTTP snapshot | launch, status, stop, signals, loop exit | processes, ledger statuses |
| Mid-cross tracker (`mid_cross_tracker.rs`) | per window: armed, lead side, crosses, peaks | observe a tick, snapshot, finalize | strategy J gates |
| Trade tape (`trade_tape.rs`) | per window and side: recent buys | record, prune, snapshot | strategy J gates |
| Volatility (`volatility.rs`) | bars, one ATR, time of last refresh | REST refresh, stream bar, stale watchdog | strategy gates |
| CEX micro feed (`cex_micro.rs`) | recent trades of another exchange | ingest, snapshot | strategy gates |
| Strategies A, B, C (`strategy_a.rs`, `_b.rs`, `_c.rs`) | steps, sides sold, baseline and cross of the PTB | entry of a pair before the start, exits on live ticks | ledger, through signals |
| Strategies E, Dx, D_cross, H, x_last (`strategy_e.rs`, `_dx.rs`, `_d_cross.rs`, `_h.rs`, `_x_last.rs`, `redeem_hold.rs`) | thesis, entry price, steps, locks of a window | entries, hedges, grid, salvage, hold for redemption on live ticks | ledger, through signals |
| Strategy D (`strategy_d.rs`) | grid steps, sides sold, scalps, insurance reserve of a window | entry of a pair, grid, scalps, exits on live ticks | ledger, through signals |
| Strategy D1 (`strategy_d1.rs`) | a hedge plan of its own | entry of one side, hedges on live ticks | ledger, through signals |
| Order books (`orderbook.rs`) | levels of two sides | fill a limit buy, take the fill out of the asks | quotes, depth and sweeps of strategy J, paper fills |
| Statistics, charts (`window_stats.rs`, `h_stats.rs`, `window_chart.rs`, `analytics.rs`) | aggregates | record, flush | display only |
| Dashboard (`dashboard.rs`), LLM forecaster (`llm.rs`), configuration (`config.rs`) | snapshots, forecasts, parameters | render, ask, load | no decision of the loop under `j_endgame`, parameters apart |

What is hard to test, component by component, is listed as `hazards` in
`PROJECT.json`, each at its line. In short:

* **Two books, one market**: the tokens of a window are updated one after the
  other, top quotes and levels by different messages, and prints prune a tape
  that nobody prunes when it is quiet.
* **Watchdogs** race the streams they watch, over fields with locks of their own.
* **Orders** may be killed, refused, filled in part, or their answer lost; the
  strategy counts signals, the ledger counts fills.
* **Several rules on one tick**: each strategy tries its rules in an order, on
  state written when a signal was given and not when it was filled.
* **Late events.** Aborting a subscription does not take its events back out of
  the channel. A tick of a finished window is processed after promotions,
  captures and closes, and writes `current_window`.
* **Two copies of the current window**, one in `AppState`, one in the ledger:
  promotion, capture and ticks each must keep them equal.
* **Settlement is triggered by a successor**: a window is closed when the PTB of
  the next one becomes known, by one of three paths (published, captured at
  promotion, captured on a spot tick), and may have been queued by one of two
  (promotion, safety close).
* **Awaits inside handlers**: discovery, the status poll and live calls let time
  pass and events pile up between two steps of a handler.
* **Partial failure**: market search drops slots whose request failed; a sale
  finds no bid; an order's answer is lost.
* **Shutdown** waits for windows that only a successor can settle.

What makes each component correct:

* *ledger*: money is neither lost nor invented; each promoted window is counted
  once, each traded and closed window once in the statistics; statuses only move on;
* *event loop*: queue and ledger agree on what awaits settlement; the clone is
  never stale when a decision is taken; settlement prices are final; orders fall
  into the life of their window; every queued window is eventually settled;
* *client*: events of a subscription keep their order and name its window;
* *strategy J*: executed orders, and only they, are counted against budgets;
  buckets never drift below zero or above the cap;
* *live execution*: what the exchange filled is what the ledger books;
* *shutdown, daemon*: the process ends, and the pid file names the process that runs;
* *trackers*: what they report is what an ordered replay of the ticks would give.

## 2. Modules

| Module | Models | Checked by |
|---|---|---|
| `Portfolio` | the ledger, and `LedgerSpec`, the abstract protocol its callers promise to follow | `MCPortfolio`, `MCLive` |
| `WindowLifecycle` | the event loop under `j_endgame` on paper, over the ledger; implements `LedgerSpec` | `MCWindowLifecycle`, `MCSessions` |
| `JPlanner`, `JStrategy` | the planner of strategy J, and a window it trades on paper; implements `WindowBudget` | `MCJStrategy` |
| `WindowBudget` | what strategy J promises of a window's money (abstract) | as a property of `JStrategy` |
| `LiveExecution` | orders on the exchange, FOK retries, lost answers, the account read | `MCLiveExecution`, `MCLive` |
| `MidCross`, `BookFeed`, `SpotSeries` | mid-cross tracker; a token's book and tape; spot samples and velocity | through `MCFeeds` |
| `SpotFeed`, `Volatility` | the spot subscription and its watchdog; the ATR's two writers and its watchdog | through `MCRefresh` |
| `Shutdown`, `Daemon` | the end of a session; launches, workers and `--stop` around the pid file | `MCServer` |
| `PreStart`, `PairExits`, `PairGrid` | the entry before the start; exits of strategies A, B and C; a window of strategy D | through `PairWindows` |
| `PairWindows` | the three of them as one specification, with limits, ladders, books and spots as constants | `MCPairs` |
| `ConvictionRouter`, `FairValue`, `CrossGrid`, `CheapHold`, `LastSeconds` | a window of strategy E, Dx, D_cross, H, x_last | through `ConvictionWindows` |
| `ConvictionWindows` | the five of them as one specification, with the books, moments and spots as constants | `MCGrids` |
| `Portfolio_proofs`, `WindowLifecycle_proofs`, `JStrategy_proofs`, `LiveExecution_proofs`, `ConvictionWindows_proofs`, `PairWindows_proofs` | theorems about the components | TLAPS |
| `MCLive_proofs` | theorems about the suite of the live runs, for all values of its constants | TLAPS |
| `MCTasks_proofs` | theorems about `MCServer`, `MCRefresh` and `MCFeeds`, for all values of their constants | TLAPS |

`MCSessions`, `MCLive`, `MCFeeds`, `MCRefresh`, `MCServer`, `PairWindows` (with values
in `MCPairs`) and `ConvictionWindows` (with values in `MCGrids`) are suites: each checks
several instances in one run. The first state picks one of them (`part`, `stream`, `feed`
or `scenario`), and only its actions are enabled from then on. The parts share no state;
the variables of the other parts stay `Off` (`Absent` and `Unused` in the suites of the feeds).
(In `ConvictionWindows` and `PairWindows` parts that have a variable of the same name use the
same one, and in `MCSessions` all parts are the same module, each begun in the initial
states of its own instance.) A property of a suite says of
each part what its module states under the same or a like name. A temporal
property is guarded by the part on both sides, and fairness is that of the
module, restricted to the part.

### Portfolio

Each variable is the field of `struct Portfolio` or `WindowState` of the same
name; per-window fields are functions from window numbers, and the status
`"NONE"` stands for a window the map does not hold. Each operation is the action
named after its method: `ExecuteBuy`, `RecordExternalBuy`, `ExecuteSell`,
`CloseWindow`, `CreateWindow`; and the assignments `main.rs` makes to ledger
fields through the mutex are `WarmUp`, `LiveSinceStartup`, `PromoteWindow`, `MarkPending`,
`StorePtb` and `StorePrices`. `WarmsUp` says what the strategy does with the window
found under way at the start: `dynamic_grid_e`, `cheap_hold_h`, `j_endgame` and `x_last`
watch it (it counts as skipped), the others trade it at once and count it nowhere
(`main.rs:932`); `CountersMatch` excepts that window (`Uncounted`). Money is counted in
units (`Unit` to the dollar)
and prices in units per share; callers offer only amounts the price divides, so
no rounding is hidden. Trade records, equity, CSV rows, roles and the counters
of `cheap_hold_h` are left out.

`LedgerSpec` composes the operations under the guards of their callers only as
far as all callers share them: a window is promoted out of a waiting status,
queued out of LIVE or SKIPPED, closed out of PENDING_SETTLEMENT, while trades,
prices and captures may come at any time, as the methods allow. It is the abstract
specification the event loop implements. With `Live = TRUE` a buy books what
the exchange reports (`record_external_buy`), whose debit stops at zero.

### WindowLifecycle

`pc` is the point the running handler has reached: `"loop"` is the `select!`,
`"discover"` and `"poll"` are awaits, `"promote"`, `"capture"`, `"subscribe"`,
`"settle"` and `"trade"` are the parts of a handler that runs on without
awaiting; there, neither time nor the feeds move, since awaiting points are
where other tasks' events may interleave. (On several threads the feeds may also send
during those parts; as the loop receives only at `"loop"` and a receipt
never depends on the length of the channel, such a send is equivalent to one
just before or after.) The actions:

| Action | Code |
|---|---|
| `DiscoverInitial` | `discover_initial_markets`: the market under way becomes window 0, watched only |
| `FindNext` | `find_and_subscribe_next` with `find_upcoming_markets`: one request per slot, and those that fail are left out |
| `BeginPromotion`, `PromoteNext`, `CaptureOnPromotion`, `SubscribeCurrent` | `monitor_time` calling `promote_next_to_current`, in its order |
| `Monitor` | the rest of `monitor_time`: safety close, renewed search for NEXT |
| `SettleOne`, `SettleDone` | `try_settle_pending_windows`, from whichever caller (`job.then` is where it returns to) |
| `SpotTick`, `PollMaintenance` | `process_event` on a spot tick, with capture, settlement and status poll |
| `MarketTick`, `ExecuteSignal`, `SignalsDone` | `process_event` on a CLOB tick: store prices, re-point the clone, pass the gates of `run_j_endgame_live_tick`, execute orders through `execute_strategy_signals` and `j_paper_executor` |
| `PassTime`, `SendTick`, `SendSpot` | the clock and the feeds |

The strategy itself is any choice of orders, bounded by `MaxSignals` per tick;
whatever holds here holds for every planner. Fills are at the quotes of the tick, where
the executor prefers the best level of the book; no property of the loop depends on the
price (what the difference does to strategy J is in `JStrategy`). Time is integer ticks,
`Sec` to a
second, so that the code's truncating division `(t - now) / 1000` is kept: a
window is promoted up to (but not including) one second before its start. Live
accounts are not modelled here: in paper mode `refresh_live_account` and
`sync_live_bank_from_clob` return before they await. The status poll of startup
is the choice of `maintenance` in `LifecycleInit`. `settled_by` and `settled_at`
are history variables: which window's PTB, and what price, closed a window.

A PTB may be published with the market (`PublishedPtbs`; up/down questions
carry no strike, so None is the ordinary case) and may be implausible
(`Implausible`, the code's `ptb_implausible`).

### JPlanner, JStrategy and WindowBudget

`JPlanner` holds the decisions of `j_controller.rs` and the gates of
`strategy_j.rs` as operators over the strategy's `JWindowState` (`jw`), the
window in the ledger (`pos`) and what one tick shows: phase, chop gates, the sale
that cuts a loss, the reversal, the discount reload, the composite clip, caps by
the ask of the winner, the interval between buys, the sweep into clips. `Signals`
is `process_live_tick` as a whole, early returns in the order of the code.
`JStrategy` lets seconds, crosses and the settlement of other windows pass,
`Tick` plan a sequence of signals on one snapshot, and `Execute` fill or reject
them one after the other as `j_paper_executor.rs` does; only a filled signal is
noted by the strategy (`Booked`, `Released`). A tick is a member of `Ticks`: gap
and velocity in steps, asks and bids, the exposure the signals argue for
(`want`, in place of the confidence blend), calm, tape and depth; and the best prices of
the book, which need not be its quotes, since trades and price changes move the quotes
and leave the levels. Signals are planned at the quotes and filled at the best of the book.
A sale therefore releases the buckets by one value and returns another; the history
variable `unmet` sums up by how much the releases exceeded the returns. Tiers
that `plan_j_window` never returns are left out, and so are fees.

`WindowBudget` is the promise: a capped deployment on one thesis, a capped hedge
once there is a thesis, one sale that cuts the loss, no deployment after a halt.
The mapping is `deployed <- jw.rescue`, `hedged <- jw.hedge`, `committed` when a
primary side is set, `cut <- jw.sell_done`, `halted <- jw.blocked`.

### LiveExecution

`exch` are the books of the exchange, `ledger` those of the program, `belief` what
the strategy counts. `TickPlans` gives a tick's signals; `StartOrder` and
`RefuseOrder` check intent, cash and age; `ExchangeFills` and `ExchangeRejects` are
the exchange's side, an answer lost or not; `WaitToRetry` and `PostAgain` the FOK
retries; `FinishOrder` books the answer in the ledger and notes it in the
strategy. A matched answer without plausible amounts (`"bare"`) is booked at the
amounts of the signal, as `matched_response_fill` does when it has none; such answers
count with the lost ones against `MaxLost`, and `lost.shares` holds the shares the
ledger has not been told of by either. `Promote` reads the balance, `Redeem` pays out late.

### MidCross, BookFeed, SpotSeries, SpotFeed, Volatility

* `MidCross`: the market moves along `path`. `BookMessage` gives one token a book from
  any point of it, also an older one than it has (messages queue up while a snapshot is
  fetched); `PriceMessage` makes any price the bid of a token, as `price_change`, `trade` and
  `last_trade_price` do; `Reconnect` fetches both books, either of which may come
  back empty. Each ends in `observe_tick` on the two mids. `seen` records the leads
  observed. A tick of the market's own books, at most a move apart and none gone
  back, is undisturbed; `disturbed` counts the others, and `calm` is the tracker as it
  would be without them.
* `BookFeed`: `BookMessage` and `TradeMessage` are the branches of the client on a
  token's messages, with the print a trade leaves in the tape; the fills of
  `orderbook.rs` are functions over the levels, and `BeginSweep` and `NextClip` are the
  loop of `sweep_endgame_clips` on its copy of the prices, with the fill at the top ask
  when there are no levels, or none any more. `printed` keeps every print, and
  `pruned` counts those the tape has dropped from its front.
* `SpotSeries`: the accepted spot tick with its sample, the bounded buffer, the
  velocities a strategy sees. Stamps in seconds are normalised as in the code.
* `SpotFeed`: subscription, watchdog, channel and handler, with times relative to now
  (stamps older than twice the age limit are not told apart), so that behaviours need not end.
* `Volatility`: `Tracker` (REST load, stream, candle by candle) and `Watchdog`, each
  lock and each await a step of its own, over ATR, history and freshness. The
  ATR is the sequence of bars it was computed from.

### Shutdown and Daemon

`Shutdown` counts seconds: a signal becomes an event in the channel, behind
busy handlers; the loop head leaves when no window is open or 20 s are over; `--stop`
waits 25 s outside. Handlers take up to `HandlerMax` seconds each and may follow one
another without an end (several requests in one handler are the same to the loop head).
The history variable `held` counts the seconds of the wait of `--stop` in which a handler
kept the loop from the event or from the exit that was due. `Daemon` splits launch,
worker, `--stop` and `--status` at every access to the pid file and at every signal; a
worker may crash at any step, a stale file is found in one step and removed in
another, and the kill of `--stop` may fail because the process has just gone. The zombie
a launcher leaves behind is kept apart from a dead process, as `kill -0` sees it. A launch
may give up on its worker at any moment after it spawned it (180 polls in the code);
`late` are the workers that still ran unlisted then.

### PreStart, PairExits and PairGrid

`PreStart` is one window's way to its start: quotes, a regime, banks that other
windows leave, `Monitor` once a second with the corridor, the strategy's answer,
the awaited forecast (during which the clock and the book move), the split of
the budget and its two buys, and the promotion. `PairExits` holds the live-tick
rules of strategies A (`SimpleTick`), B (`LadderTick`) and C (`BreakEvenTick`).
`PairedFloor` says that a pair gets its core on both sides when the budget is large
enough for either side to be bought (`EitherSideTrades`): under a small budget the
leg below `MIN_TRADE_USD` is refused and the other one bought alone (section 3).

`PairGrid` is a window of strategy D. Its `process_live_tick` gives several signals
on one tick, each rule planning on the shares and the cash the rules before it
will leave (`projected_up_shares` and the like in the code). The model passes a
record `p` of them through the rules, in the code's order: `Emergency` twice,
`StrongGrid`, `Scalp`, `WeakExit`. `Tick` hands the result to the ledger, which makes
the sales and either makes or refuses the buy. `released` is a history variable:
some rule was free to sell the insurance, or a scalp was signalled.
`InsuranceKept` says that until then no order of leads, grid steps and exits
goes below the reserve; `SoldIsScalpOnly` that a side written off as sold holds nothing
that no rule would sell any more.

### ConvictionRouter, FairValue, CrossGrid, CheapHold, LastSeconds

One window of strategy E, Dx, D_cross, H or x_last each. An action is a rule of
`process_live_tick` that gave a signal, with the guard that the rules before it did
not; `Watch` is a tick without a signal, `Pass` the time. A buy may be refused by the
ledger, and what the strategy wrote at the signal then stays, as in the
code. Money and prices are cents; the fair probability is the code's normal
distribution in whole percents, without the drift of the velocity; the ATR and
the direction of another exchange are members of a tick. What `redeem_hold.rs` protects
on a tick is the history variable `protected`. `NoReentryAfterTrim` says of E that
a held thesis is not bought again within two minutes of its trim: the code
blocks the conviction of the tick, which is the trimmed one only while that is held.

## 3. Runs

Passing runs:

| Run | Instance | Shows |
|---|---|---|
| `ledger_paper` | 2 windows, 1 price, amounts 1 and 2 | double entry, counters, statistics and statuses of every order of operations on paper |
| `sessions` | 3 windows; `trading`: slots of 1.5 s with orders on ticks up to 1.5 s old and a platform that may be blocked; `settlement`: failing requests, published PTBs, ticks that outlive their window, no orders; `quiet`: no CLOB feed, published PTBs, no failures | the inductive invariant of the proofs, queue, clone and ledger agree, settlement prices stand, orders near their window, profit equals the closed windows', one LIVE window and no settlement missed when quiet, refinement of `LedgerSpec` |
| `j_window` | a window of 3 s and 132 different ticks, some on a book that rose, fell or emptied beside its quotes, a bank that pays most clips, an earlier window that may settle meanwhile | caps and risk of the window, signals that still fit when their turn comes, tail cap and interval, refinement of `WindowBudget` |
| `live` | `fok`: two windows, three attempts, one answer lost or without its amounts; `fak`: partial fills and sales; `ledger`: the ledger that books fills, two windows | the inductive invariant of the proofs, no signal filled twice, books agree between orders, the budget bounds what is held, every order concludes |
| `feeds` | `cross`: three quotes, two moves, four ticks, a print far from the market, late books and failing snapshots; `book`: books of 0 to 3 levels, three prints, sweeps of up to four clips; `series`: three samples, stamps behind, ahead and in seconds | counts equal those of the whole history, every cross is one of the market or of a disturbed tick, exact tape, sorted levels, each taken once by a sweep, no crossed book, spot and samples in step |
| `refresh` | `spot`: a channel of two, stamps behind and ahead up to ones that time does not catch up with; `atr`: a period of two bars | the spot comes back, the ATR stays fresh (liveness), what is served is not older than it claims |
| `server` | `end`: 20 s and 25 s as in the code, handlers of up to 8 s that may follow one another; `serial`: three workers, `race`: two, with two `--stop`s each, launches that give up, crashes at any step | a session and every command end (liveness); commands one at a time leave one listed server, and one more at most for each launch that gave up; only a worker held up by its handlers is killed; with the inductive invariants of the proofs |
| `pairs` | `entry`: the limits of `config.json` over a corridor of two seconds, six banks, five asks, shares of the budget of 31% and 100%, on one side or both; `exits`: its ladders on a window of 20 s; `grid`: eight moments, three books, four spots, three entries, one of them on one side only | LIVE means paid, budget, paired floor, one request; sold leaves nothing, half of a side is kept between the first two steps of its ladder; break-even and last ticks; no share sold twice, insurance kept, only a scalp on a sold side |
| `grids` | windows at four to six moments, three to five books, two to six gaps | budgets and the cap of the hedge, one entry, theses kept, protected shares and pairs kept, what was sold paid |

Why the bounds are enough:

* *sessions*: `MaxClock` and `MaxSlot` let three windows live and the first two be
  settled, by publication, capture and safety close; one event in the channel
  (`ChanCap`) already outlives an abort, because handlers that promote run while
  it waits; `SlotLen`, ages and `Sec` are small but keep their order (in `trading` a tick's
  age limit is longer than a second, as the default of 2.5 s is, and no longer than a
  window, and the promotion's early second is shorter than one). Three
  windows are what a successor of a successor needs, the case in which numbers
  and slots disagree.
* *j_window*: sizes keep the order of the defaults (probe < first < maximum clip <
  maximal exposure; the tail caps fall with the ask); three seconds hold every
  phase but the longest, in which a clip, a reversal and the interval meet.
  `MCFewTicks` has one thing out of order at a time.
* *live*: two windows let a redemption be late; a second lost or bare answer repeats
  the first.
* *feeds*: two moves are a cross and a cross back, or a tie between; four ticks hold two
  disturbed ones with the way back from each, the case in which the bound of two is met;
  three prints are one to prune, one to keep and one to come; the books have no, one
  and several levels, unsorted ones and ones with an empty level. Clips of 50 cents and
  of a dollar, a budget of three and at most four clips empty the smaller books and go on
  off the quote.
* *refresh*: the model's five seconds are three; the channel times the longest handler
  (`ChanCap * MaxBusy`) is shorter than the maximal age, without which every payload
  grows old in the channel and no watchdog helps.
* *server*: the code's own timeouts, and 8 s for a handler, the timeout of a request;
  longer ones are several in a row. Nothing is assumed of how long they hold the loop, so
  that the kill may come before the worker's own exit: `KilledOnlyWhenHeld` says what
  that takes, `Grace - ForceAfter` (5) seconds lost to handlers after the signal was sent and
  before it was read, or after the timeout. Three launches one after the other are a
  worker that was
  given up, a second one beside it, and a third that finds a file or none; two that overlap are
  enough for every pair of steps around the file. The serial user waits for each
  command; of commands that overlap only the liveness properties are checked (see below).
* *pairs*, *grids*: moments lie on both sides of every time threshold that orders
  two rules, books on both sides of the price thresholds. A step of time is 15 s of
  a 15-minute window in `grids` and in the `grid` part of `pairs`, a second of a short
  window in `exits`. In the `grid` part one tick comes at each of up to eight moments
  (more would repeat exits that sell a share of what is left); three grid steps, an
  exit, a scalp and its sale, and the emergency fit into them.

Bounds (`MaxSlot`, `MaxClock`, `ChanCap`, `MaxSignals`, `MaxSpent`, `MaxCross`,
`MaxOutside`, `MaxWindows`, `MaxLost`, `MaxMoves`, `MaxPrints`, `MaxQueue`,
`MaxStops`) are in guards. Deadlock is checked in `ledger_paper` and `sessions`, where some
operation, feed or monitor is always enabled; the other runs come to a real end (a
window is over, a process is gone, every command was given).

Fairness, and why the code justifies it:

* `LiveExecution`: weak, of `ExecuteStep`. The client returns an answer or an error, and
  the loop over the signals goes on with it.
* `SpotFeed`: weak, of time, of the handler, of connecting and of the watchdog's
  reconnection (a task of its own with an interval); strong, of a sound payload, as the feed
  publishes about once a second and reconnections are rarer. That the
  feed becomes sound is not assumed; it is the premise of `SpotComesBack`.
* `Volatility`: weak, of time and both tasks. Neither source is assumed to
  recover; REST staying up is the premise of `AtrKeepsFresh`.
* `Shutdown`: weak, of the loop's exit, the clock and the stop command; strong, of
  the signal's event, as `select!` picks among ready branches at random.
* `Daemon`: weak, of commands and workers under way. No crash and no command is
  bound to happen.

`PnlMatchesClosed` and `SettlementNotMissed` (in `QuietSettles`) hold under conditions
of the code, not of the model. With published PTBs the promotion, early by less
than a second, may settle the old window while a tick of its last second is still
waiting, and an order in a CLOSED_TIME window is then booked and counted nowhere; with
failing requests a late tick may re-point the clone at window 0 and the next
search then picks an earlier slot, so that a window is settled on spot from before
its own end. So orders and published PTBs are in different scenarios, and the theorem
`ProfitIsOfClosed` has the two conditions as hypotheses: no published PTB, and windows
found in the order of their slots (`SlotsInOrder`). `SettlementNotMissed` needs a silent
CLOB feed for the reason
`stale_tick` shows.

Some guards of strategies D_cross, H and x_last turned out to be redundant while
mutating the modules: the hold check before the final sale of D_cross (a
side worth selling there is not one that is held), and `entry_done` of H and
x_last where shares are asked as well. No property can tell them from their absence.

Runs that end in a violation:

| Run | Property | What happens |
|---|---|---|
| `stale_tick` | `OneLiveWindow` | a CURRENT tick that outlived its subscription re-points the clone; the next promotion queues the wrong window and the other stays LIVE |
| `live_stale` | `NoStaleSubmit` | the age guard compares the time of the call with itself, and neither earlier orders of the tick nor retries are counted |
| `j_reload` | `ReloadBelowAverage` | after a reversal or a sale the average of the primary side is taken from a bucket that is not the cost of its shares |

### Disagreements seen

Cases in which the code does other than one of its comments or documents says. The
first three are the runs above. Each of the others was found as a counterexample of
its module under a property of its own, and belongs to no run of the project; the
definitions named are those where it can be read off.

| Code | What the code does | What is said |
|---|---|---|
| `main.rs:2042` (`Matches`) | a queued window is settled by the PTB of the window numbered one higher, also when a failed request left a slot out between them | "The official close price for contiguous Up/Down crypto windows is the next window's PTB" (`main.rs:2145`) |
| `main.rs:2224` (`PromoteNext`) | a published PTB settles the queue before the capture may replace it as implausible | "Replaces implausible values parsed from question text." (`main.rs:1985`) |
| `trader.rs:544` (`CloseProceeds`) | closed without a verdict and with no bids, a window keeps its shares | `close_window` "otherwise sells all at cached bids" (`CODEX_CONTEXT.md:82`) |
| `main.rs:1999` (`Captures`) | after a quiet spot feed the PTB is captured from a spot later than the window | the PTB is captured at the moment the market starts (`STRATEGY_GUIDE.md:70`) |
| `main.rs:2353` (`NeedsPoll`) | a CLOB tick trades before a spot tick has polled the platform for its window | "Once per window start: poll Polymarket platform status" (`main.rs:2348`) |
| `strategy_j.rs:1244` (`Signals`) | the interval check returns without the sale the tick has planned | "Minimum wall-clock gap between composite endgame buys" (`config.rs:626`) |
| `j_controller.rs:395` (`RescueBudget`) | the session's budget caps what is left, not what the window has spent: several clips exceed it | the ceiling of the budget of one window (`README_CONFIGS.md:26`) |
| `strategy_j.rs:363` (`LiveChop`, `Latched`) | the live counters latch the block | the chop gate "uses this snapshot, not the live cumulative counter" (`strategy_j.rs:57`) |
| `client.rs:336` (`Reconnect`) | a failed snapshot is a mid of zero, and a significant cross; `CrossesExplained` says how many of them it makes at most | "Book lead flips" (`README.md:315`) |
| `client.rs:461` (`PriceMessage`) | a price far from the market becomes the bid of one token, beside its old ask: the mid crosses, and crosses back at the next book | "Book lead flips" (`README.md:315`) |
| `client.rs:461` (`AtTrade`) | a trade moves the quotes and leaves the levels, which paper fills prefer | "every trade uses a fresh executable orderbook tick" (`main.rs:2372`) |
| `strategy_j.rs:1024`, `orderbook.rs:131` (`LeftAfter`, `TopFill`) | a clip after the one that emptied the levels is filled whole at the top ask | "remove filled size from ask levels after a simulated buy" |
| `volatility.rs:322` (`CommitHistory`) | the candle under way comes from REST and again, confirmed, from the stream: a minute counts twice | "Current ATR(14)" (`volatility.rs:76`) |
| `main.rs:2600` (`TradeCash`) | the balance read at the last switch misses fills and redemptions since | "CLOB collateral capped by the paper ledger" (`main.rs:2597`) |
| `live_executor.rs:273` (`Intended`) | a sale carries no price and is filled at any bid | "signal price as hard cap" (`docs/J_LIVE_EXECUTION_PLAN.md:36`) |
| `main.rs:1797` (`Monitor` of `PreStart`) | with forecasts on, a window is entered up to 3 s after its start | "Must not have started yet" (`strategy_a.rs:49`) |
| `main.rs:1932` (`Enter` of `PreStart`) | the second leg may be refused after the first was bought: with a budget of a few dollars its part is below the dollar minimum | the position is fully hedged (`STRATEGY_GUIDE.md:14`) |
| `strategy_e.rs:775` (`Target` of `ConvictionRouter`) | the clamped target stops rising: a bid of 0.98 sells a fifth on every tick | "keep selling on new highs (no hard cap)" (`strategy_e.rs:39`) |
| `strategy_dx.rs:1153` (`SurplusOf`) | with any hedge, the primary's surplus is sold at 5 cents or more | "hedge surplus only — never dump a naked primary runner at 0.15" (`strategy_dx.rs:1149`) |
| `strategy_dx.rs:755` (`Verdict`) | the gap's side is taken when its own edge suffices, be the other's better or not | "requires the fair edge side to match the PTB gap side" (`CODEX_CONTEXT.md:197`) |
| `strategy_dx.rs:988` (`UnwindDue`) | the hedge's average includes hedges already sold: one bought again dear is sold below its price | "unload hedge when it pays us for the protection" (`strategy_dx.rs:986`) |
| `strategy_d.rs:1280` (`Scalp`) | the scalp is on the strategy's books from the signal on; of less than a dollar the ledger refuses it, and its exit then sells shares of the pair | 3.5% of spent "with a small minimum", 35 cents (`CODEX_CONTEXT.md:167`) |
| `strategy_d.rs:1228` (`Scalp`) | a grid sale of scalped shares leaves the scalp counted; its exit sells as much again, out of the insurance | the tail blocks a sell (`CODEX_CONTEXT.md:172`) |
| `strategy_dx.rs:614` (`EntryPanics`) | with `max_window_budget` below a dollar, its default, `clamp` panics; E, H, D1 and D_cross clamp alike, and their modules assume a budget of a dollar | only the name need be set (`README_CONFIGS.md:204`) |
| `main.rs:1778` | the live ticks of strategy J buy on after a shutdown was requested | "NEXT window buys are now disabled!" (`main.rs:2296`) |
| `main.rs:822` (`ForceExit`) | the exit after 20 s leaves LIVE and queued windows as they are | "All active positions concluded." (`main.rs:859`) |
| `daemon.rs:45` (`CheckFile`, `WriteFile`) | overlapping launches: check and write are separate, and a refused worker trades on | "server already running" (`daemon.rs:46`) |
| `daemon.rs:60` (`LeaveGracefully`, `StopCleans`) | files are removed whoever they name; a trading worker is then not found | "STATUS: not running (no pid file)" (`daemon.rs:80`) |
| `daemon.rs:239` (`LaunchReturns`) | a worker that died during start-up is a zombie, and the launcher waits 90 s | "worker pid may still be starting" (`daemon.rs:254`) |
| `daemon.rs:238` (`LaunchReturns`, `BeginLaunch`) | after 90 s the launcher gives up on a worker that has written no file yet; the next launch then finds no server and starts a second one | "server already running" (`daemon.rs:46`) |
| `j_paper_executor.rs:133`, `strategy_j.rs:104` (`FillSell`) | a sale is filled at the bid of the book and released at that of the quotes: the buckets may hold less than the window has at risk, by what `unmet` counts | "J updates its internal clip/exposure state only after a paper/live fill is confirmed" (`README.md:186`): it is the signal, not the fill, it updates by |

## 4. Proofs

`Portfolio_proofs` proves, for every set of windows, bank, price and amount:

* `LedgerTypeCorrect`: `LedgerTypeOK` is inductive by itself (a sale is clamped to
  the shares held, a debit to the cash);
* `DoubleEntryHolds`: each paper step moves the cash by what one window returned
  less what it spent;
* `UntradedStaysEmpty`: inductive with `LedgerTypeOK`, since a sale needs shares
  and shares need a buy;
* `StatusNeverGoesBack`: by the guards of `LedgerNext` and `StatusAfterBuy`;
* `CountersAlwaysMatch`: inductive with `LedgerTypeOK` and the finiteness of the
  promoted windows (the strengthening: only finitely many windows are promoted
  even when `Windows` is infinite), whether or not the strategy warms up; where it does
  not, the window that was LIVE since the start must be known never to become
  SKIPPED or to wait for an entry (`StartIsLive`), or its trades would be counted.
* `TallyAlwaysMatches`: closed windows are wins or losses, and no more of them are
  counted than are closed and traded. The strengthening: those are finitely many, so
  that their number exists; a close adds one that was not closed before.

It also proves what a sum over a finite set is (`SumFunctionOnSet` of the community
modules): nothing over no windows, one more term with one more window, the same as
long as the terms are, and term by term what two functions sum to. Each would be an
induction over the set, for which the library's theorem cannot be used; they are proved
by the smallest counterexample instead, a set of least cardinality among those for which
the formula fails.

Assumptions are those named in the modules: `Unit` positive, inputs natural
numbers, prices to beat positive.

`WindowLifecycle_proofs` proves about the event loop, for any number of windows
and slots, any window length, age limits, feeds and channel:

* `LifecycleInvariant`: `LifecycleInv` is inductive. Queue and clone alone are not:
  a promotion queues the window the clone names, so the clone must agree with
  the ledger (`CloneIsCurrent`) for the queue to (`QueueMatchesLedger`); a late
  tick re-points the clone at the window it names, so every tick in the channel
  must name a window the ledger knows, a promoted one if it is CURRENT
  (`TicksOfKnownWindows`); a promotion must find the next window still waiting
  (`NumbersInOrder`); and what a handler left undone must still be valid when
  it goes on (`HandlerState`). That a close does not change the clone's window
  rests on windows of positive length: no window ends where it starts.
* `QueueAlwaysMatches`, `CloneAlwaysCurrent`: its two most telling parts.
* `LifecycleImplementsLedger`: under the invariant each step is a step of
  `LedgerNext` or leaves the ledger alone, one lemma per action (`...Refines`).
  The refinement mapping is the identity, since the loop's state contains the
  ledger's variables.
* `LedgerOfTheSession`: what was proved of `LedgerSpec` therefore holds of the loop.
* `OrdersAreNearWindow`: an order is booked no earlier than a second before its
  window starts, and no later than the age limit after the last second before
  its end. It needs a second invariant, `HandlersInTime` (every promoted window,
  or one being promoted, starts in less than a second; an order under way was
  decided on a young tick of before the end), and `SecsToBounds`, what a
  difference of instants rounded toward zero says of them. Only an order spends
  (`SpentKept`), and only in the window of its tick (`SpentByOrders`).
* `SettlementPriceAlwaysStands`: the price a window was settled at is the PTB its
  successor keeps, in sessions where no published PTB is implausible. That is a
  hypothesis of the theorem, since the code breaks it otherwise (`main.rs:2224`,
  section 3). The strengthening (`PricesStand`): what a settlement under way applies
  is held in the ledger, whoever settled was priced, and an implausible PTB is locked.
* `SilentFeedSettles`: with no CLOB ticks (`QuoteSet = {}`), at most one window is
  LIVE and no queued window is passed over by the capture that should settle it;
  again a hypothesis, as `stale_tick` shows. `SilentInv` adds that the clone is the window
  promoted last and the only one LIVE, so that numbers are consecutive even when slots are
  not. `QuietAlwaysSettles` carries this over to the suite: its quiet scenario keeps
  `QuietSettles` for every value of the constants that has no CLOB ticks.
* `ProfitIsOfClosed`: the profit booked is what the closed windows returned less what
  they spent. Every close adds its window to both sides; what must not happen is that
  a closed window trades, which no guard excludes: an order on a late tick may find its
  window in CLOSED_TIME and is booked there. `ProfitInv` shows why it does not
  happen: a window is closed on a spot of its successor's time, hence of a time
  after its own end (`SettledBySpot`); the loop has handled every event sent before that
  spot (`EventsInOrder`); so a tick handled afterwards was sent after the end, and the
  gate for the window's time refuses it, however old a tick may be. The hypotheses are
  the conditions
  of section 3: no published PTB, which would settle a window before its end, and slots in the
  order of the windows' numbers in every state (`[]SlotsInOrder`).

The proofs use the assumptions of `WindowLifecycle` (positive window length and
second, feeds within the values of the ledger, window 0 exists, paper mode).

`JStrategy_proofs` proves about a window of strategy J, for every configuration,
bank and set of ticks that `PlannerAssumption`, `TicksAssumption` and
`JStrategyAssumption` admit:

* `WindowInvariant`: `JTypeOK`, `RiskBounded` and `PlannedFits` are inductive together.
  Types and risk alone are not: a signal is planned on one state and executed on a
  later one, so the queue must say of each signal still waiting that it fits the
  shares, the cash, the caps and the interval when its turn comes, after the ones
  before it were filled or rejected. The lemmas say what each operator of the planner
  returns: a bound on each clip, on what the sweep cuts it into, on the
  hedge, on the sale; then `Signals` gives a queue that fits, and executing the head
  keeps the tail fitting.
* `WindowTyped`, `WindowRisk`, `WindowPlans`: its three parts. `WindowRisk` makes no
  assumption on how the price of a fill relates to that of its signal: the window's
  net risk stays under the cap, and exceeds the buckets by no more than the sales were
  released above what they returned (`unmet`), an equation that each of rejections,
  several clips and releases past zero could break;
* `WindowRules`: a filled clip keeps the tail cap of its price and the interval;
* `WindowKeepsBudget`: the refinement of `WindowBudget`, step by step.

`LiveExecution_proofs` proves about orders on the exchange, for any limits, attempts,
prices and lost answers (`LiveAssumption`):

* `LiveInvariant`: `LiveInv` is inductive. That no order is filled twice needs the
  stages of a call (`CallConsistent`: while attempts are made nothing was filled, and
  an answer tells whether it was); that the books agree needs the books as they
  will be once the answer under way is applied (`BookedLedger`, `BooksMatch`); the
  risk of a window needs that what is planned together fits together (`ClipsFit`)
  and that only lost answers, or ones without amounts, hide shares (`RiskKnown`), as many
  as `lost.shares` says.
* `FilledOnce`, `AnswersAreBooked`, `RiskIsBounded`: what follows for `LiveSpec`.

`MCLive_proofs` carries this over to the suite of the run `live`: each of its instances
is shown to satisfy the assumptions, and the invariant of each part, the live ledger's from
`Portfolio_proofs` among them, to be kept while the other parts are off.

`MCTasks_proofs` proves about three suites, and first, of `MCServer`, about the end of a
session and the commands around it:

* `KilledOnlyAfterDelay`: `KilledOnlyWhenHeld` for all timeouts, handlers of every length
  and in any number, and windows that never close. The invariant (`WaitAccounted`) says that the
  seconds `--stop` has waited are at most those of the worker's own timeout and those the
  handlers took of the loop; and before the event is read, that it is in the channel
  (`SignalsKept`). It assumes nothing of `ForceAfter`, `Grace` and `HandlerMax` but that
  they are numbers.
* `OneServerAlways`: for any number of launches and stops, launches that give up at
  any moment and a crash at any step, commands given one at a time leave one server at most,
  and one more for each launch that gave up on a worker that still started; while there is no such
  launch, the file names the server and `--status` finds it. `SerialInv`: one launch is under
  way at most, no stop with it; the workers that run besides the one the command is
  about are no more than the launches that gave up (`Extras`), as a launch that did not
  leaves its worker either listed or dead; without one, the worker that starts has the
  file for itself (`NoneAside`).

Of `MCRefresh`, under `FeedsSound` (positive age limit, timeout, channel and period; the
stamp that is farthest ahead is farther than the age limit):

* `DataIsFresh`: `ServesFreshData`. A spot is called fresh by its receipt alone; `SpotInv` adds
  what the handler checked then, that it was not older than the age limit. The
  ATR is over its whole period because a task on its way to it holds that
  many bars at each of its locks, and has stored an ATR before it marks it as fresh
  (`AtrInv`), wherever the other task is meanwhile.

Of `MCFeeds`, under `FeedsAssumption` (mids between 1 and 99 cents, prices of trades
between 1 and 98, finitely many levels of natural price and worth in a book and no price
twice, no book message that is itself crossed, stamps that
the boundary between seconds and milliseconds tells apart):

* `FeedsAreKept`: `FeedsInv`, for every course of the market, order of the books, prints,
  failing snapshots
  and bounds. The tracker compares one tick with two fields; `TrackerInv` says what
  these mean: a side leads with a gap, in the ticks since the state was created, exactly when
  it is the current side and its peak reaches the gap (`LeadKept`). What a tick that is
  appended does to the leads and the turns of a sequence is stated once for every sequence
  (the lemmas under "Leads and turns"), and `Observe` is compared with it case by case:
  the arming tick, a tie, the same side, a first side, a cross.
  For the quotes, that no branch of the client leaves a bid at or above the ask; for the
  tape, `TapeInv`; for the spot, `SeriesInv`: handler and series refuse the same
  payloads, though by rules of their own, because both hold the last one accepted.
* `TapeTellsItsWindow`: prints are stamped in order, and those dropped were outdated then
  and stay so (`TapeInv`); what the snapshot takes of the rest, by their time, is therefore
  all that was printed in its window.
* `SweepsFillLevelsOnce`: `LevelsFillOnce` with the order of the levels and the budget of the
  sweep, for books of any number of levels, every limit, budget and number of clips.
  The levels of a book are in order (`BookSorted`, inductive
  with the rest: a trade leaves them, a book message sorts them). Along them, what a buy
  has taken so far is the smaller of its amount and what the levels within the limit
  have offered so far. The levels taken whole are the first ones, since each has a
  worth (`TakenInFront`); what is left is therefore the rest of the book, one level of
  it perhaps in part, again in order, and its sums are the differences (`LeftIs`). So each
  clip moves its fill from the depth that is left to what was bought, until no level is
  left; from then on the clips are filled whole off the quote, which the property
  says and bounds by the budget: that no more than the depth is bought is false of
  the code (section 3).
* `CrossesAlwaysExplained`: `CrossesExplained`, for every course of the market, order of
  its books, print and failing snapshot. The tracker without its disturbed ticks (`calm`) is
  compared with the market's course as far as the newer book has come (`Reached`): it
  has counted no more turns than the course has had, and the lead it knows
  is that of the course, or else it is a turn behind (`NotAhead`); a tick that pairs mids of two
  neighbouring moments shows a lead whose sign is that of one of them, or a tie. The
  tracker itself is compared with `calm` (`Explained`): it is at most two crosses ahead
  for each disturbed tick, the second of which is still to come when its lead is not
  one that `calm` knows. That no cross is counted which the market did not make
  is false of the code (section 3).

`ConvictionWindows_proofs` proves about strategies E, Dx, D_cross, H and x_last, for
windows of every length, any moments, books and moves of the spot. The assumptions:
prices between 0 and 100 cents, a maximal budget of a dollar or more (less makes the
code panic, section 3), windows of a minute or more for D_cross. `WindowsInvariant` is
the inductive
invariant, one conjunct per strategy (`RouterInv`, `ValueInv`, `GridInv`, `HoldInv`, `LastInv`);
from it:

* `BudgetsAlwaysHeld`: a tranche is clamped to what remains, a hedge of E asks for the
  budget; a hedge of Dx fills at most the room under 35% of what was spent before it,
  and the step itself only raises that. One entry: nothing is noticed, sold or
  counted before something was bought (`NothingYet`, `OneSide`, `NoClipYet`).
* `PrimaryAlwaysPays`: a sale at or over the price paid returns its cost but for a cent
  (`SaleCovers`), and so do all of them up to a cent each, which the invariants count
  (`SalesPay`, `EntryKept`). For D_cross one must know that the ask the grid starts
  from is the one that was paid, noticed or not (`EntryKept`).
* `ThesisAlwaysStays`: a fresh conviction counts only if nothing else is held, so that
  the conviction of a tick is the thesis held; what is noticed is what was bought.
* `RedemptionAlwaysKept`: each rule that sells asks first what another keeps, or
  sells what cannot be kept (a side that is trimmed is not in the money); the floor of
  the runner with the rounding of its parts; the surplus of Dx leaves the pair.

`PairWindows_proofs` proves about the entry before the start, the exits of strategies A, B
and C, and strategy D, for every corridor, budget, bank, ladder, book and spot that
`InstancesSound` allows. `PairsAreSafe` is `PairsInv`, by one inductive invariant for each part:

* the entry (`EntryInv`): the loop's copy of the window and the ledger's agree until
  the promotion, and nothing is booked before the strategy has entered. `PairedFloor` is
  arithmetic: what a leg keeps after the divisions of `Split`, for every ratio and pair of
  asks, and that both legs are then large enough to be bought.
* the exits (`ExitsInv`): a ladder has all of a side until its first step, so that the
  half sold then leaves half, and the last step leaves nothing.
* strategy D (`GridInv`): its rules work on a plan, each on what the rules before it left.
  `Sound` is a property of plans; a lemma for each rule says that the rule keeps it, and the
  ledger's execution of the plan, the buy refused or not, gives a state that is sound
  again. `Keeps` says what the grid's steps leave of a side before its exit sets the
  reserve: all, 75%, 50%, 34%, from which the exit keeps its insurance; `InsuranceKept` alone
  (7%) would not survive the next step.

`ExitsHold` is `ExitRules`: the second leg sold by strategy C covers what the window still
owes (`EvenAt`, with the products written out), and the last ticks sell whole sides.

What stays with TLC:

* Liveness under fairness (`EveryTickConcludes`, `SpotComesBack`, `AtrKeepsFresh`,
  `ShutdownEnds`, `CommandsEnd`) and ENABLED, which are out of the prover's reach.
* Induction over data in general: the theorems of the library take an operator. Where
  one formula was worth it, it is proved by a smallest counterexample (sums over
  sets) or by the least number with a property (`LeastNumber` in `MCTasks_proofs`:
  where a lead goes on from, where the pruning of the tape stops, what a recursive
  sum adds up to, and that a finite set can be listed in order). Nothing is known to the
  provers of `SelectSeq`, `SortSeq` and the folds over sequences, so `BookFeed` sums with
  a recursive function and lists a set of levels by choice (`Sums`, `Ranked`).
* The violations of section 3, which are counterexamples.

## 5. Not modelled

* Strategy D1: hedge ratios from tables by phase, ATR and distance. It shares no
  state with other parts; E and Dx are the hedges that are modelled. Its entry
  before the start passes through `PreStart`, and so does that of strategy D, whose
  regimes are among the inputs there.
* The confidence blend of strategy J and other floating-point scores: the
  models take what they lead to as a choice (`want`), or as whole percents.
* The CEX micro feed: a buffer and three statistics; strategies take what it says
  as a choice.
* Limit orders on the exchange, signing, the session's set-up: `j_endgame` places market orders.
* Statistics, charts, dashboard, HTTP and SQLite output: they change no decision.
* Configuration parsing: parameters are constants of the modules.

## 6. Plan

Every safety property of the passing runs is proved. What could come next:

1. Strategy D1, whose hedge plan could take the form of `FairValue`.
2. The poll at a window's start and failing searches, hazards that no property covers yet.
