# Predictive Trading Lab: TLA+ models, model checking and proofs

This directory holds a formal model of Predictive Trading Lab: the trading core,
the sessions around it, the research and data side, and the gateway's threads.
The models are translated from the C++ under `src/src/` and `src/include/ptl/`
and from the Python under `src/frontend/backend/`; paths below are relative to
`src/src/` unless they say otherwise.  TLC checks the models on small instances;
TLAPS proves, for every value of the constants, what the trading core, the sessions,
the services around them, the research registries and most of the data and model side
promise (section 6).

- [1. The system](#1-the-system)
- [2. What is hard in it](#2-what-is-hard-in-it)
- [3. The modules and the code](#3-the-modules-and-the-code)
- [4. The runs](#4-the-runs)
- [5. Findings, and behaviour worth knowing](#5-findings-and-behaviour-worth-knowing)
- [6. The proofs](#6-the-proofs)
- [7. What is not modelled](#7-what-is-not-modelled)
- [8. Plan](#8-plan)

To use it: `tlc -config TradingCore_Bars.cfg MCTradingCore.tla` checks a run,
`tlapm TradingCoreProofs.tla` checks the proofs about the order manager and the
trading core, and likewise for the other modules of section 6.  `PROJECT.json` lists, for
each definition, the source lines it models, for each property, mutations of
the model that break it, and the hazards of the code with the properties that
watch them.

## 1. The system

One engine executes a strategy in every mode.  A backtest reads a historical
source, a paper session and a live session wrap the same engine, and an API
hosts a paper session for a browser.  Around it stands the research side: market
data, features, labels, models, walk-forward validation, experiments and
registries, and the accounts of what a run earned and why.

| component | state it keeps | talks to | what makes it correct |
|---|---|---|---|
| **order manager** `oms/` | records by id, the id counter | engine, risk gate | terminal states absorb; never overfilled; orders never change; a fill moves exposure to position and nothing else |
| **engine** `engine/` | per-instrument market state | source, venue, OMS, portfolio, risk, strategy | fills before strategy; OMS and portfolio agree after every event |
| **simulated venue** `execution/broker.cpp` | pending orders in arrival order | engine | latency respected; caps shared by an interval; FOK all or nothing; IOC never rests |
| **risk gate** `risk/` | limits, peak equity, turnover | portfolio, OMS | limits hold over what is in flight |
| **portfolio, journal, analytics** `portfolio/`, `accounting/`, `analytics/`, `attribution/` | cash, positions, curve, trades | engine, reports | the result is explained by fills and marks, each counted once |
| **paper session** `paper/session.cpp` | phase, sequence, counters, stored state | engine, artifact store | the stored sequence advances; only its own intact state is overwritten; a crash loses little |
| **paper broker and account** `paper/broker.cpp`, `account.cpp` | working orders, routed fills, margin | simulator, portfolio | an account is never opened into a margin call |
| **live session** `live/` | phase, connection, watermark, id map, inbox | an external venue | every fill booked once; nothing is traded over a link that has gone silent; orders of the book are known to the broker |
| **session host** `frontend/backend/bindings/` | inbox of manual requests, outcomes | driver thread, engine | each request answered once; flatten closes what it saw |
| **API session driver** `frontend/backend/app/engine/` | lifecycle state, queue, driver thread | request threads, host | the reported state is the host's while one driver runs; every command answered |
| **market stream** `frontend/backend/app/market/` | watchlist, symbols, socket, cache | request threads, vendor | what is watched is what the vendor was asked for |
| **execution algorithms** `algo/` | plan per parent, working child | engine | children never exceed the parent |
| **decision pipeline** `pipeline/`, `signal/`, `sizing/`, `construction/` | latest signals, cooldowns, targets | engine as a strategy | no hindsight; targets within limits; the target is reached |
| **registries, experiments** `storage/`, `strategy/`, `experiment/`, `experiments/`, `research/trial.cpp` | versions, champions, snapshots, trials | research tools | reproducible; one champion; every trial counted once; rankings follow results |
| **walk-forward and labels** `validation/`, `labels/` | folds, holdout guard | models | no training row sees a test outcome |
| **features** `features/` | ring buffers, pending cross-section, matrix | data, models | an estimate covers its window, a row its own bar |
| **models and evaluation** `models/`, `research/evaluation.cpp` | scaler and model, stored form | runner | predictions out of sample, of one fit; scores independent of the listing |
| **optimisation** `optimization/` | none across calls | construction | the answer keeps every limit |
| **market data** `market/`, `databento/`, `execution/quote_book.cpp` | calendar, symbol map, queues, quotes | replay, research | sessions follow the rules; replay in order; quotes current |
| **operations and configuration** `ops/`, `config/` | health, breaker, alerts, supervisor, layers | sessions | an unhealthy component stops trading; restarts bounded; the last layer decides |

How they interact: the engine is single threaded and synchronous.  `step` takes
one event, moves the clock to its receive time, updates market state and marks,
hands the event to the venue, which returns a vector of fills; each fill goes to
the OMS, then to the portfolio, the risk manager and the journal; then the strategy
runs, and what it submits passes the risk gate, enters the OMS and reaches the
venue.  The sessions wrap calls of `step`.  Threads exist in the gateway only:
request threads put commands in a queue which a driver thread drains between
steps, and the market stream has a thread of its own per provider.

## 2. What is hard in it

- *Two books of the same thing.*  The venue and the OMS each count the fills of an
  order, the OMS and the portfolio each count the quantity; they are updated at
  different moments and each may refuse an update.
- *Orders in flight.*  Latency, feed delay, participation caps and partial fills lie
  between a decision and the position it was about: the gate, the execution
  algorithms, flatten and the rebalance all decide on what they see.
- *Orders the venue drops by itself*, without telling anybody.
- *Legal calls in unusual orders*, in the OMS, the registries, the sessions.
- *Threads without a lock.*  A request checks on one thread and acts on another.
- *Restart.*  Paper and live sessions, and experiments, restore some state and
  rebuild the rest; a write may be torn, refused or forged by damage.
- *An unreliable venue.*  It redelivers, reorders, falls silent and forgets.
- *Look-ahead.*  A label that ends inside the test window, a feature that reads the
  bar beside it, a holdout opened by a neighbouring row: nothing crashes.
- *Numbers at an edge.*  A budget of exactly zero, ties in a rank, holidays over the
  turn of a year, limits that undo one another, fills at the boundary of periods.

Every one of these is listed, at the line where it bites, under `hazards` in
`PROJECT.json`, with the property that watches it or the reason none does.

## 3. The modules and the code

| module | models | state | actions |
|---|---|---|---|
| `OrderTypes`, `OrderManager` | the OMS under any caller | `records`, `next` | `NextId`, `Submit`, `Transition`, `ApplyFill`, `CancelReplace`, `Reset` |
| `RiskGate` | `RiskManager::check`, limit by limit | (a predicate) | |
| `TradingCore` | engine, venue, portfolio and replay source over the two above | clock, marks, pending orders, fills on their way, position, cash | one per kind of event, per pending order, per fill, `StrategySubmit`, `StrategyCancel` |
| `PaperSession` | the session around one engine and its artifact | phase, counters, sequence, day, store | lifecycle, step in three parts, restart, damage |
| `StoredState` | the stored state field by field; snapshots of experiments over crashes | what was written, what is there; files, processes | write, damage, read; open, write, rename, crash, resume |
| `PaperVenue` | paper broker and margin account over the simulator | cash, shares, orders alive, working, routed | connect, submit, cancel, fill and route, poll, mark |
| `LiveLink`, `LiveBroker`, `LiveSession` | connection, broker with the listener, session | the venue's log, position of delivery, watermark, id map, books, stored state | one per message, poll, pump, engine event, caller's request, crash |
| `FillLedger` | abstract: what the live side promises about executions | reported, booked | report, book, new process |
| `VenueCodec` | requests on the wire, answers read | sent, at the venue, answers, table | send, amend, cancel, fill, read, save, restore |
| `SessionDriver` | the driver and the host as it sees it | lifecycle, queue, threads, calls | one per access to shared state of a request or a driver thread, and per host call |
| `HostInbox` | the host's inbox and its strategy | requests, outcomes, orders placed, position | enqueue, drain one, bar phases, start, stop, failure |
| `MarketFeed` | watchlist requests, the provider's thread | symbols, socket, cache, vendor | one per shared access |
| `AlgoExecution` | six algorithms in one executor | plans, children | submit, market event, fill, drop, cancel, expire |
| `DecisionPipeline` | forecast to order | signals, positions, plan | bar, signal, session boundary |
| `ResearchRegistries` | strategies, datasets, models, preparation of experiments | versions, champion, walk with its stack | register, promote, roll back, transition, prepare |
| `ResearchLedger` | trials; comparison and ranking of experiments | tables, reports, comparison, leaderboard | register, report; compare, rank |
| `WalkForward` | labels, folds, holdout | folds, evaluated rows | split fold by fold, unlock, evaluate |
| `RollingEstimators`, `FeaturePipeline` | streaming windows; set, stage, matrix | buffers, pending rows, table | one per input |
| `ModelPipeline`, `Evaluation` | scaler and model, stored form, runner; scores | pipelines, stream, walk; the series | fit, predict, save, damage, load, fold |
| `WeightOptimizer` | projection, closed forms, ascent | problem, weights, climb | solve, step |
| `PerformanceBook`, `ExecutionQuality` | cost basis, round trips, curve, attribution; trades against benchmarks | fills, curve; trades | fill, mark; measure |
| `MarketCalendar`, `HistoricalFeed`, `VendorBars`, `QuoteRouting` | sessions; vendor data to events; paged bars; quotes | years; payloads, queue; pages; quotes | build, ask; decode, merge, drain; fetch; update, halt |
| `ConfigLayers`, `Operations`, `ServiceSupervision` | layers; health, breaker, alerts; supervisor, histogram | settings; windows; restarts | load; report, allow; drain, fail |
| `Platform` | what the parts of the data and model side promise together: properties only, over the modules above | | |
| `TradingCoreProofs`, `SessionDriverProofs`, `LiveSessionProofs`, `HostProofs`, `ServiceProofs`, `ResearchProofs`, `PlatformProofs` | proofs about the modules above | | section 6 |
| `SumLemmas` | induction over finite sets, and what it says of sums | | |

`MCTradingCore` holds the small instances of the core; the cfgs of `SessionDriver`,
`LiveSession` and `PaperSession` instantiate those modules directly.  `MCServices` and
`MCPlatform` put the parts that share no state side by side: the initial state picks one
part, only that part moves, and every behaviour is a behaviour of that part's own
specification.  Where parts do share state they are
composed: `TradingCore` works on the order book of `OrderManager` and asks
`RiskGate`; `LiveSession` drives `LiveBroker`, which uses `LiveLink`, and is shown to
implement `FillLedger`.

Points of translation worth knowing:

**OrderManager.**  An operation that returns an error without changing anything is
absent; one that returns an error *after* changing something is present with that
change: `ApplyFill` on a `new` order books the quantity (`order_manager.cpp:145-154`)
and `CancelReplace` cancels the original before the replacement may be refused
(`:175-178`).  Type, time in force and prices are one opaque field.

**TradingCore.**  One event is many steps, because its phases are what the properties
are about.  Slippage and costs are choices from small sets.  The budget, the
displayed-size cap, stop triggers, FOK and IOC follow `on_market` statement by
statement.  `Failed` is the engine returning an error; fills not yet dispatched are lost.

**PaperSession.**  `step()` is three actions, since a crash may fall between its
writes.  A write renames a finished file into place: it happens or fails, and the
sequence advances either way.  `Restart` is the end of the process at any point.

**LiveSession.**  The venue keeps a log; a new connection may deliver again from an
earlier position or skip ahead.  `step()` is cut where the venue can get in between:
after the health check, each polled message, the pump, each event.  The simulator that
sits behind the live engine fills orders as well, as the code has it.  Orders carry the
process that sent them, because ids start again after a restart.

A stop of a paper session has two ways to fail: the engine's `finish()`
(`FinishFails`, which writes nothing) and the last write.

**SessionDriver, MarketFeed.**  Each read and each write of a shared attribute is a
step; the endpoints run on a pool of threads.  In the driver the write of `STARTING`
or `STOPPING`, the call of the host, the write of what it answered and the release of
the caller are four steps, and so are the reading of the state, the engine's step and
the write of `ERROR` in `_advance`.  A host call is one step, because the bindings do
not release the interpreter lock while they are inside.

**AlgoExecution.**  The executor ignores whether the sink took a cancel; which children
the sink keeps is a choice, and a kept child rests on after its plan is closed.

**VenueCodec.**  A replace leaves out the prices the amended order does not have, and the
venue changes what the request names: the old price, and the type, stay.  For each client
id the model keeps the terms the order was sent and amended with, one after another.

**FeaturePipeline.**  The cross-section is computed as configured: returns are winsorised at
the two quantiles (nearest rank, as `llround` has it), ranked and compared with the market
proxy's own return or the mean; they are demeaned in the sector only with `sector_neutral`.
The z-scores are left out.  The proxy's own relative return is not zero when the
winsorising moved it.

**Research and data.**  A label is the instant of the last price it reads, a fitted
number the rows it was computed from, a stored stream its blocks, a configuration
value a kind and a text.  Averages, ranks, correlations and weights are exact integers
or fractions `[top, of]`, so TLC compares them without rounding.  Dates are days, and
holiday rules are evaluated in full.

## 4. The runs

Every passing run is a question; the six runs that end in a violation are the
findings of section 5.

| run | instance | asks |
|---|---|---|
| `TradingCore_Bars` | 1 instrument, 2 orders of 5 kinds (market, IOC, FOK, limit GTC, stop), 3 kinds of bars, one with no volume, 3 events | do venue, OMS and portfolio agree at every step; do FOK and IOC keep their meaning; does a one-sided burst stay inside the position limit? |
| `TradingCore_Mixed` | bars, quotes (one with nothing displayed), trades, session events, a 2:1 split, a dividend, feed delays 0 and 1, latencies 0 and 2, orders dated ahead of the clock, a long-only portfolio behind a long-only gate; 4 events | do the books still agree when events of every kind come between submission and fill, and when the portfolio refuses a fill? |
| `SessionDriver` | 2 clients, 2 driver threads, 3 calls out of start, stop, trade, reset, shutdown | is the reported state true while one driver runs, is a running session ever replaced, is every command answered, does a thread that was told to end do so? |
| `LiveSession` | 2 orders of 2 lots, a log of 3 messages, 2 processes, 2 engine events and 2 writes in each, one message of news | over redelivery, silence, crashes: is every execution booked at most once, does no step trade on a link that has gone silent, is no order of the book unknown to the broker? |
| `Services` | one part at a time, each with its own small constants | do the services around the engine keep what they promise under every order of their calls? |
| `Platform` | one part at a time, 19 foci | is the data and model side sound? |
| `TradingCore_Zombie`, `TradingCore_Budget`, `SessionDriver_TwoThreads`, `PaperSession_Pause`, `ModelPipeline_OneFit`, `PerformanceBook_Decomposition` | the smallest instance that shows it | section 5 |

What the properties say is in the comment over each.  In short:

*Trading core.*  `VenueMatchesBook` relates the venue's pending vector, the fills
not yet dispatched and the OMS's records, and says the OMS never refuses a fill
of the simulated venue.  `PortfolioMatchesOrders` derives position and cash from
the OMS's filled, notional and cost columns, splits and dividends included; it is
conditional on the run not having failed, because on a refusal by the portfolio
the OMS has already booked the fill.  `TimeInForceHonoured` holds over several
events and with other orders sharing the interval.  `OneSidedBurstWithinLimit` is
the gate's promise where it holds: orders on one side only.

*Sessions.*  `ReportedStateIsTrue`, `NoSessionAbandoned`, `CommandsAnswered` and
`FlaggedThreadEnds` are about interleavings of request threads and drivers.  The first
is conditional on no two drivers having been alive together: with two, which the finding
`OneDriver` shows to be possible, it is false, and lastingly so (section 5).
`FillsBookedOnce` is a refinement: with the executions the venue has reported and
those the session has booked, `LiveSession` implements `FillLedger`, in which a
fill is booked at most once, only after it was reported, and only as it was
reported.  `NotBookedAcrossRestart` is about the watermark: no process books
what an earlier one is known to have applied.  `SilentVenueNoticed` is a promise about steps:
once the venue has been silent for the timeout, a step that is made hands the engine no
event, buffered ones included, and neither `resume()` nor a reconnection makes a session
run over a link that is not ready.  That a step is made at all is nobody's promise: `run()`
returns at the first error and at an empty step.
`SessionIsSound`, `LittleIsLost` and `RecoveryKeepsState` say what a paper
session's stored state is worth after a crash, `StoredStateIsGenuine` that damage
is noticed or harmless, `HostKeepsItsWord` that a manual request is answered once
and that flatten closes what it saw.

*Services.*  `BookIsConsistent`, `NoOverfill`, `TerminalAbsorbing`, `OrdersImmutable` and
`FillsConserveProjection` are about the order book under arbitrary callers: the
first says that no id handed out is one of the book, whoever supplied those; the
last says a fill never changes *position + exposure*, what the gate projects.
`ParentNeverExceeded` bounds an execution plan, `DecisionsAreSound` the path from
a forecast to orders, `NoFutureIsSeen` the training sets and the holdout,
`RegistriesKeepOrder` and `ResearchIsCounted` the registries, the ledger of trials
and the rankings, `OperationsShieldTrading` health and breaker,
`CompliantWhenOpened` the margin account.

*Platform.*  `MarketDataIsSound` compares the calendar with a second statement of
the exchange's rules, follows vendor payloads to events in order, without a gap the
report does not name, and says that a vendor's bars are whole or refused.
`FeaturesAreOfTheirBar` says that the rows of a cross-section are of one bar and what
they are of its returns, tails cut as configured,
`NumbersFollowRecords` that the streaming estimators, the accounting, the trade
analysis and the scores are what their whole record gives when computed anew.
`DrawdownFollowsCurve` ties the drawdown tracker to the equity curve.
`QuotesAreCurrent` and `VenueWorksWhatWasApproved` are about what an order is priced on
and what reaches the venue; `AnswersKeepLimits` and `PredictionsAreOutOfSample` are
about the optimiser and the models; `ConfigurationDecides` and `ServiceIsSupervised`
complete the list.  The module `Platform` names those that join properties of two or
more modules; a theorem that proves one for every constant cites the same definition.

**Bounds.**  Every `Max…` constant is a guard and nothing else is cut off.  Two
orders are what is needed to share a budget and for one order's fill to disturb
another; three or four events let an order be submitted, be skipped for latency
or a dormant stop, be partly filled, and be completed or cancelled.  Quantities 1
and 2 with participation 1/2 of volumes 0, 2 and 4 give budgets of 0, 1 and 2,
hence an order skipped, capped, exactly exhausting the budget and inside it.
Three calls of two clients cover a start racing a start, a stop or reset between
check and queueing, and a timeout followed by a retry.  Three processes of the
paper session are a crash, a recovery, and a second recovery of what the first
one wrote; two processes of the live session are a restart whose ids begin again
under a venue that still remembers the first.  Three messages are an
acknowledgement and two partial fills, redelivered from any earlier position.  In
the research modules the small sets are chosen for their edges: horizons of no
bars and of several, embargoes longer and shorter than the gap, tied scores,
buckets that do not divide the series, payloads with a gap, a repetition and a
reused vendor id, limits that bind one after another, dates on either side of a
new year and of the change to summer time.  Three instruments are the fewest that
are winsorised at all; the quantiles of the instance are 25 and 75, because 1 and 99
(the defaults) cut nothing below some fifty instruments.  The wire carries two orders,
each of which may be amended once; one amendment drops a price and gives the other.

**Deadlock** is not checked: every model really ends.  Events, ids and calls are
used up, a failed run stops, and a registry is full.

**Fairness.**  Of the driver threads' next steps (`SessionDriver`): `_run` polls
its queue with a timeout and loops, so a live thread comes round, and the host
calls are bounded computations in the same process.  Nothing else is assumed to be
fair.  In particular not the live session: `run()` returns at the first error and at an
empty step (`live/session.cpp:543-553`), so nobody need call `step()` again.  No timeout
need fire, no message arrive, no reconnect succeed.

## 5. Findings, and behaviour worth knowing

Six statements of the documentation or comments are contradicted by what the
code does; each has a run whose counterexample shows it:

- **Zombie orders** (`LiveMeansAtVenue`).  `on_market` drops a killed FOK order
  and the remainder of an IOC order from `pending_` without telling the OMS,
  where they stay live and count as exposure in every later risk check.
- **An exhausted budget is no budget** (`BudgetShared`).  The cap applies only
  while the remaining budget is above zero; once earlier orders use it up
  exactly, later orders of the same event fill in full.
- **A paused session trades** (`PausedSendsNoOrders`).  `pause()` promises that
  only new orders stop, and disconnects the paper broker.  The engine, however,
  was given the simulator itself, so the strategy's orders go on.
- **Two driver threads** (`OneDriver`).  Two concurrent starts can both see no
  driver thread and each create one; both then step the engine.  The consequence is
  not only a moment's: three calls (two starts and a stop) can end with every thread at
  rest and `STOPPED` reported of a running host, when one driver's stop has returned from
  the host, the other's start runs and writes `RUNNING`, and the first then writes
  `STOPPED`.  The other way round, a `RUNNING` written over a host that has failed or
  stopped lasts until a driver steps it.
- **Scaler and model of different fits** (`AnswersComeFromOneFit`).
  `Pipeline::load` replaces the scaler before the model is read, and the linear
  model takes its coefficients before comparing the hash: after a load that
  failed, `predict` answers with a mixture.
- **The attribution does not close** (`DecompositionCloses`).  Slippage is inside
  the fill price, so the realised and unrealised components have borne it; it is
  subtracted again as a component of its own.

The following is modelled as the code has it, and is not repeated by a run of
its own; properties are stated so that they are true of it.

*Orders, venue and gate.*
- `cancel_replace` leaves the original cancelled when the replacement is
  refused (`oms/order_manager.cpp:175-178`); a fill on an order still `new` is
  booked and then reported as an error (`:145-154`).
- The gate nets buys against sells in flight, so orders on both sides can take
  the position past its limit (`risk/risk_manager.cpp:87-89`).
- Slippage is added after the limit test (`execution/broker.cpp:268-277`); a feed
  of quotes alone leaves the interval volume at zero (`:241`), while each quote
  grants the full participation budget anew; an IOC or FOK order that is not
  marketable on arrival stays pending (`:201-208`); Day orders never expire.
- After the first quote, bars move the marks but not the venue's touch
  (`engine/engine.cpp:130`).  A split scales positions and marks but no working
  order.

*Sessions.*
- A restarted paper session's counters are replaced by those of the new engine,
  which start at zero (`paper/session.cpp:383-386`, `:486-488`).  `pause()` and
  `resume()` before `start()` make a session `Running` without an engine, whose
  `shutdown()` overwrites a stored state it never read: the properties of the store
  are stated for sessions that were started.
- The stored checksum omits the fills received, orders submitted, times, realised
  profit, side and instrument (`paper/session.hpp`), so damage there is not noticed.
- The paper broker is not on the path of the engine's orders (`paper/session.cpp:396`,
  `:428`); an order that reduces risk is screened like any other; any fill, a
  partial one too, removes the order from the broker's working set.
- Two flattens before a bar, or a flatten with a closing order at work, reverse the
  position (`session_host.cpp:88-293`); requests made after the last bar get no
  outcome.
- A stop whose `engine.finish()` fails leaves a `Failed` session with nothing written
  (`paper/session.cpp:531-536`).
- In the driver, a double start takes `RUNNING` back to `STARTING`; a command whose
  caller timed out is still applied; a shutdown leaves queued commands, which the
  thread of the next start applies; commands come before stepping, always.
- In the live session, polling and the market-data pump both drain the connection,
  each dropping the other's messages (`live/session.cpp:499`, `:503`); fills polled
  do not reach the OMS; a poll that fails on one message loses the fills ingested
  before it (`live/broker.cpp:165-172`); a halted engine goes on dispatching
  (`live/session.cpp:418-425`); after a restart ids begin at one, and client ids
  collide at the venue (`live/translator.cpp:260-273`); messages with a lower
  sequence that arrive late are dropped (`live/connection.cpp:298-306`); an attempt
  that comes too early and one too many are both answered by waiting (`:222-227`); the
  simulator behind the engine fills the same orders (`live/broker.cpp`).
- An amendment that drops a price leaves the old one at work, and the type is that of
  the first sending (`live/translator.cpp:245-250`).
- Symbols added on the live feed are silent after the switch to replay, and symbols
  removed during a replay stay subscribed; overlapping requests can lose one.

*Execution algorithms and decisions.*
- A partial fill releases the working child while its rest is at the venue
  (`algo/executor.cpp:202`); a late fill completes a plan that was cancelled or had
  expired (`:206`); a cancel that fails is ignored (`:228`, `:244`), so the plan is
  closed and its child still rests.
- The pipeline flattens at the session boundary, after the close, where the header
  speaks of before it (`pipeline/trading_pipeline.cpp:365-372`); a plan over the turnover
  limit trades nothing; the rebalance does not see orders in flight (`:266`); a flat
  signal restarts the cooldown (`signal/filter.cpp:158-163`); voting may go long on a
  negative forecast (`signal/generator.cpp:172-181`).

*Data, features, models, evaluation.*
- A bar is stamped at its close and sessions are half open, so the last bar of a
  day is reported outside the session (`market/validator.cpp:122`); one malformed
  record fails a payload; one request for bars is made without asking the spend guard
  (`databento/client.cpp:306-338`).
- At the page limit a vendor's answer is returned as a success although it may be cut
  off (`market/alpaca.cpp:215-243`); `fetch_bars` does not ask the
  gate, and a gate without an instant grants every window (`market/provider.cpp:107`).
- A halt before the first quote is ignored (`execution/quote_book.cpp:276-282`).
- A bar sets the end time of a feature set unconditionally (`features/feature_set.cpp:132`) and
  so moves it back when a quote was later, where `features/feature.hpp:40` speaks of the
  maximum information timestamp.
- Relative volume includes the bar's own volume (`features/feature_set.cpp:113-117`);
  a failed `compute()` leaves its pending rows.
- After a failed fit the scaler is the new one and `fitted_` stays true; the scaler's
  bytes are covered by no hash, and a model's hash covers its fitted numbers but not the
  settings stored with them (`models/linear.cpp:429-435`), which are not modelled; `predict_batch` turns what is not finite into zero.
- Bucket bounds are computed in doubles and can leave out the top observation
  (`research/evaluation.cpp:257-260`).
- The average shortfall divides by the weight of all trades, measured or not
  (`attribution/execution_quality.cpp:247`); the decision time is that of the fill
  listed first (`:125`).
- Rows under embargo are recorded in their fold; no later fold drops them from its
  training set, as the comment says (`validation/walk_forward.cpp:143-149`).  Opening the
  holdout is not recorded in the trial ledger.
- Twelve passes may end before all limits agree (`optimization/constraints.cpp:128`);
  `Infeasible` is never reported.
- The entry of a fill dated before the last one is refused and the error ignored
  (`accounting/journal.cpp:85`); `reconcile` derives the gross profit from the net it
  then compares it with (`:181-190`).

*Registries, operations, configuration.*
- A run that is inserted again loses its finish (`experiments/registry.cpp:154`); ranks are
  normalised by all rows, and a comparison includes failed experiments
  (`experiment/experiment.cpp:419`); the fingerprint joins its parts without separators
  (`:80-100`); a model can be registered as champion without an index entry;
  `clear()` lets a retired version come back; the temporary file has one name.
- A failure during a drain makes a restart due; `start()` from `Failed` does not ask
  whether one is allowed; a half-open breaker lets every call through; alerts are
  evicted in the order of their keys (`ops/health.cpp:387-425`).
- A value of the wrong type for the holdout boundary falls back to the default with
  the same hash (`config/config.cpp:160-189`); a line break in a text imitates a line of the
  canonical form.

## 6. The proofs

Every theorem below holds for every value of the constants that the named
assumptions allow, and rests on nothing else.  Each property was checked by TLC on
the run's instance before it was proved.

| module | about | theorems |
|---|---|---|
| `TradingCoreProofs` | `OrderManager` | `BookIsSound`, `BookStaysConsistent`, `TerminalIsFinal`, `OrdersNeverChange`, `FillsOnlyConvert` |
| | `TradingCore` with `OrderManager` and `RiskGate` | `CoreInvariant`, `VenueAndBookAgree`, `TimeInForceKept`, `PortfolioIsExplained`, `BurstStaysWithinLimit` |
| `SessionDriverProofs` | `SessionDriver` | `ReportedTruly`, `AnswersFindTheirCaller`, `RunningSessionStays` |
| `LiveSessionProofs` | `LiveSession` with `LiveBroker`, `LiveLink`, `FillLedger` | `OrdersStayRemembered`, `BrokerImplementsLedger`, `RestartBooksNothingAgain`, `RunsOnALiveLink` |
| `HostProofs` | `PaperSession`, `HostInbox` | `StoreIsSound`, `StopSaves`, `RecoveryIsSound` and its three parts, `CrashLosesLittle`, `HostIsTrueToItsClients` |
| `ServiceProofs` | `AlgoExecution`, `Operations`, `PaperVenue`, `DecisionPipeline` | `ParentsKeepTheirQuantity`, `TradingIsVouchedFor`, `BreakerKeepsItsWord`, `OperationsAreShielded`, `AccountStaysCompliant`, `DecisionsStaySound` |
| `ResearchProofs` | `WalkForward`, `StoredState`, `ResearchLedger`, `ResearchRegistries` | `NoLookAhead`, `StoredStateIsTrue`, `ResearchCounts`, `RegistriesAreKept` |
| `PlatformProofs` | `VenueCodec`, `QuoteRouting`, `MarketFeed` | `VenueIsFaithful`, `RoutedQuotesAreCurrent`, `WatchedSymbolsAreStreamed`, `MarketsStayCurrent` |
| | `ConfigLayers`, `ServiceSupervision` | `LastLayerDecides`, `ServiceStaysSupervised` |
| | `FeaturePipeline`, `PerformanceBook`, `ModelPipeline` | `FeaturesStayOfTheirBar`, `DrawdownIsOfTheCurve`, `PredictedOutOfSample` |

### The invariants, and why they are needed

**Order manager.**  The four conjuncts of `BookInv` are inductive only together:
`NoOverfill` needs the types for the arithmetic of a fill, `CounterAheadOfBook` the
ids to be numbers, and `ParentsKnown` survives because nothing but `Reset` shrinks
the book.  There is a lemma for each operation on the value of the book.
`FillsOnlyConvert` compares two sums over the book that differ in one record.

**Trading core.**  `VenueMatchesBook` is not inductive: a fill spends some time on its
way, after the venue has forgotten its quantity and before the OMS has booked it.
`CoreInv` says what holds in between.  `PendingSound`: for an order the venue works, its
count is the OMS's plus what is undelivered.  `FillsSound`: an undelivered fill belongs
to an order that can take it whole.  `BookedSound`: what is booked of a fill-or-kill
order is all or nothing.  `PhaseShape`, `Timely` and `MarketKnown` say which of these can
be open in which phase.  `PortfolioIsExplained` adds `Ledger`, position and cash as sums
over the book, and follows each event by the lemmas on sums.
`BurstStaysWithinLimit` adds `BurstInv`: what is held, with what is in flight, is at
some close of the feed within the notional limit.  It is stated for feeds of bars
without splits: a split scales positions and no working order, and after a quote a bar
no longer prices the venue, so elsewhere it is not what the code promises.

**API session driver.**  While one driver runs, `LoneDriver` says what each place of it means
for the state and the host: between the host's answer and the write of it the two differ,
and nobody else writes then.  With a second driver every clause of it fails, which is why it
is conditional.  What is left is whose answer a thread is about to deliver.  `OwnersWait` says that whoever owns a queued
or applied command still waits for it, `OneCommandEach` that there is one such command,
so a late answer cannot reach a later request of the same client.

**Live session.**  `BrokerImplementsLedger` maps every step to a step of `FillLedger`
or to a stutter.  A redelivered report must not be booked again, and the broker has two
memories for that, each with holes: `Remembered` says that one of them (the watermark,
or the ids of fills seen) holds every booked report.  `WatermarkKept` says the stored
watermark never runs ahead of the session's own while the connection can still be
heard (`Audible`; a halted session on a closed connection is past caring), and
`Memory` that each order of this process which is not done is in the broker's tables.

**Paper session and host.**  `PaperInv` adds to the types `Recovered`: a session with an
engine is past `Created`, its sequence is at least that of the stored state, and the
stored state is its own and intact.  `start()` makes it true, a write keeps it, and
nothing else touches the store.  `LossInv` bounds what a crash loses by the remainder of
the event count modulo the interval of writes, which is what survives restarts, writes
by hand and at the end of a day.  In the host's inbox `Numbered` makes the outcomes and
the requests two runs of consecutive numbers, so that each request is waiting or has its
one outcome; `FlattenOnItsWay` follows a flatten from the requests it queued, by the
order that closes, to the position it owed.

**Execution algorithms, operations, paper account.**  `AlgoInv`: of a parent whose
children were never filled in parts, only its last child rests, within what is left: the
one its plan waits for, or, when the plan is closed, one the sink refused to cancel.  The lemmas below it go through the schedules: weights are positive, a slice is
found, and clips and caps stay within what is left.  `MonitorInv` ties the counter of
failures to the streak at the end of the log of reports; `BreakerInv` counts the probes of a
half-open breaker against the successes that have arrived.  `VenueInv` counts what is
on its way to the account (orders at the simulator and fills not polled) as held:
`Covered` then survives each hand-over, where the shares alone do not.

**Decision pipeline.**  The loop of `rebalance()` is a recursive function; since a turn
looks only at the turns before it, the function is shown to exist (`LoopExists`).  By
induction along the instruments, what the loop has claimed is, gross, net and by sector,
the sum of the targets so far and within the limits (`Describes`, `LoopWithin`), for any
signals.  `DecisionInv` adds the types of signals and forecasts and that no bar waits for
the strategy outside a session.  `NoHindsight` is then kept by the one step that writes a
signal, and `SettledPlanReachesTarget` because a fill leaves the sum of position and
orders at the venue as it was.

**Research.**  `NoLookAhead` first shows that the instants of a panel, listed by rank,
come in order and once each, whatever finite set they are; then that purging compares each training
row with the first test row.  `StoredStateIsTrue` rests on the
checksum being written from the saved state and on a snapshot's temporary file being that of
its own run until it is renamed.  `ResearchCounts` has two halves: the facts told about a
manifest stay told, and a budget once declared is final; and a ranking by normalised ranks is a
comparison of sets by inclusion, summed with weights, so dominance in every metric
carries over to the weighted fractions.  `RegistriesAreKept` follows the champions through
the log of transitions, and proves the walk over dependencies: the stack is
a path of needs (`PathInv`), what a finished frame depended on is done
(`ExploredInv`), the result lists each after what it depends on (`ResultInv`), and a
cycle or an unresolved name is reported only where there is one (`VerdictInv`).

**Wire, quotes and gateway.**  `CodecInv`: a request at the venue asks, word by word, for
the order sent under its id and for what its amendments have named since: each price is the
last one given, the type and the time in force are those of the first.
`QuoteInv`: the entry holds the last quote that was kept, the kept ones are in order of
time, and each arrival is counted once.  `FeedInv` has two halves.  `ConnectionSound`
follows a symbol from the provider's set through the messages on the socket to what the
vendor streams, whatever the connection does.  `RequestsSound` says at which step of a
request which symbols are already subscribed; it is conditional on no two requests having
overlapped, since overlapping ones can lose a symbol (section 5).

**Configuration and supervision.**  The layers are a fold, whose two recursion equations
follow from `RecursionOverSets` of `SumLemmas`; by induction along the overrides
the last one of a key decides.  `HashTellsRunsApart` then reads the configuration back from the
canonical lines.  `SupervisorInv`: the failures kept are those of the log within
the window of the last one, so that counting the kept ones is counting the log.
`HistogramInv`: a bucket counts the samples that landed in it; a percentile walks
cumulative counts, and is found by a least-index argument.

**Features.**  `SetsInv`: a set holds the close of its last bar and the return from the one
before.  `StageInv`: what is pending is of one bar.  `RankedInv`: the rows last computed are the
ranks of what they were computed from, and its tails are cut where the property's own
quantile lies; the sort is a listing in order of value and index,
which exists for every finite universe and decides each place by how many come before it.
`MatrixInv`: rows ascend, and a file that passes its hash was saved.

**Drawdowns.**  `Knows` relates the tracker to the curve up to any point: the peak is a
running maximum, the worst loss is reached at some point and exceeded at none, an open
episode began at the last peak, finished ones lie between their times, and as many were
finished as there are recoveries.  It is claimed while every equity is positive; the
tracker does not measure a drop from a peak that is not.  The comparison of ratios by
cross products is shown to be an order first, and the rolling drawdown over the whole
curve is a fold with the same invariant.

**Models.**  `ModelInv` says of each pipeline, of the stored stream and of the fold being
run where the scaler and the parameters come from.  `PredictedOutOfSample` assumes that no
damage hits the scaler's block: the hash of a stored pipeline covers the parameters only
(section 5), so with such damage the statement is false, as TLC finds at once.

**Sums.**  Positions, cash, weights and quantities in flight are sums over finite sets.  The
induction theorems of the library take a predicate as a parameter, which the provers cannot
instantiate; `SumLemmas` states induction over finite sets with the predicate given as a
set, proves it from the least counterexample, and derives what is needed of sums: they
are numbers, one value can be taken out or changed, negation, factors and equal summands.

### The assumptions

They are the `ASSUME`s of the modules, which TLC evaluates on every run, and say no more than the
types of the code do: `IdBound`, `PositiveQuantities`, `TimesAreNaturals`, `MoneyIsNatural`
(orders and fills); `TermsHaveFields`, `FeedIsNatural`, `MoneyIsWhole`, `LimitsAreNaturals`
(feed and limits); `DecisionTimesCovered` (the order book admits every time at which a
strategy of the feed can decide); `CallBound`, `KnownOps`, `NobodyIsNobody`; `LogBound`, `BrokerBounds`,
`SessionBounds`; `ConfigsAreNumbers`, `SwitchesAreBoolean`, `CountsAreNatural`, `HostBounds`;
`AlgoBounds`, `OperationsBounds`; `WalkForwardBounds`, `PanelsAreFinite`,
`WindowsAreNatural`; `StatesHaveFields`, `RankingBounds`, `RegistryBounds`,
`RootIsAStrategy`; `PipelineIsNumeric`, `ForecastsAreNumeric`; `ApprovedAssumption` (types and times in force are
those of the code; an amendment keeps the order's instrument, side and time in force), `QuoteAssumption`, `FilesAssumption` (a number in a file has a number's
text), `SupervisionAssumption` (bucket bounds ascend), `BarsAssumption`,
`PerformanceAssumption`, `ModelDataAssumption` (a fold's training and test rows
are apart), `StreamAssumption`.  Two are about values rather than types:

- `SlipsBelowPrices`: slippage does not take a price below zero.
- `VenueTerms`: the buying power multiplier is at most the inverse of the maintenance
  requirement.  The defaults keep it at half of that; nothing in the code compares the two,
  and with a larger multiplier the account can be opened into a margin call.

### What is only model-checked

- All liveness (`CommandsAnswered`, `FlaggedThreadEnds`): it rests on
  fairness and `ENABLED`, which the prover does not handle.
- `MarketDataIsSound`.  The calendar's side is date arithmetic over whole years; the
  side of the data feed goes through `SelectSeq` and `SortSeq`, for which the prover has
  no definition, and through recursive functions over a payload.
- `NumbersFollowRecords` and `AnswersKeepLimits`.  Each compares a result with a
  definition that folds over the whole input with multiplications and divisions in every
  turn (variances, cost bases, rank correlations, the passes of a projection).  What such a
  fold computes for every input is induction over data with nonlinear arithmetic.
- That the parts of `Platform` and `Services` do not disturb one another is not in
  question: they share no variable.

Preparing the modules for proof changed them where they were not precise: a `CASE` in the
reading of stored fields had overlapping guards, so its value was not determined by its
definition; the registries' tables are updated by `With`, and polled fills are summed by
`SumFunction`, where the definitions had been recursive; a turn of the loop of
`rebalance()` has a definition of its own, `TurnOf`.  In the modules behind `PlatformProofs`,
functions are written out where `:>` and `@@` had been used, the pruning of restarts and the
layers of a configuration are folds, the sort behind a percentile rank is chosen by its
property, and two guards of a `CASE` in the drawdown tracker that overlapped no longer do.

## 7. What is not modelled

- **Floating point.**  Prices, weights and statistics are integers or fractions.  The
  statistics of finished series (Sharpe ratio, tail risk, beta), covariance estimation,
  the linear solvers and boosted trees are numerical algorithms without state; what a
  model checker can say of them is the bookkeeping around them, which is modelled.
- **Text and transport.**  JSON, HTTP, DBN records, TOML, reports, logging and the
  web client carry values; the modules start where the values have been read.
- **API gateway.**  Routing and authorisation keep no state of their own; its
  threads are `SessionDriver` and `MarketFeed`.
- **Snapshots** that a session publishes for display are only read.
- **Optimisers** for risk parity, maximum Sharpe ratio and beta neutrality; the
  strategy library's individual signal rules; the watchdog; sector views.
- **Applications, examples, benchmarks** are thin programs over the library.

`PROJECT.json` lists the components one by one, with what is left out of each.

## 8. Plan

Further proofs would follow `HistoricalFeed` (events leave the merge in order), once
its sort is stated by its property, and `PerformanceBook` (cash explained by fills, which
`PortfolioIsExplained` proves of the core).  Further models: the watchdog, risk parity,
and two sessions that share one artifact store.
