# A TLA+ model of PolyQuantLab

PolyQuantLab records Polymarket order books and crypto prices, sells backtests
over them through an API, and paper-trades users' strategies against the live
data. This directory holds a formal model of its control: TLA+ modules translated
from the Python and TypeScript sources, TLC runs over small instances,
and TLAPS proofs about them. `PROJECT.json` maps every definition to the lines it
models and lists runs, mutants, findings, hazards and theorems.

## Inventory

| Component | State it keeps | Operations | Interacts with |
|---|---|---|---|
| Job lifecycle (`api/main.py`, `api/job_store.py`, `worker/backtest_worker.py`) | job records and per-key listing in Redis with TTLs; ARQ queue, in-progress keys, retry counts | submit, sweep, poll, list; mark running / completed / failed; timeout, shutdown, retry | API processes and the worker share Redis |
| Paper trading (`api/routes_paper.py`, `api/paper_db.py`, `worker/paper_trader.py`) | strategies and positions in Postgres; the worker's cursors, compiled strategies, crossing state | create, pause, resume, delete; poll cycle: load, read snapshots, evaluate, open; settle | reads what the feed and the resolution sync wrote; API and worker share Postgres |
| Polymarket feed (`collector/polymarket_ws.py`) | token set, books, emit throttle, two row buffers | connect, subscribe, refresh tokens, handle message, passive sampling, flush | discovery's `is_active`; writes `orderbook_snapshots` |
| Discovery (`collector/discovery.py`, `collector/reclassify.py`) | events and markets | periodic upsert | feed, resolution sync |
| Resolution sync (`collector/resolution_sync.py`) | `resolved_at`, outcome | select a batch, fetch, guarded update | paper settlement, arb settlement |
| Price feeds (`collector/binance_ws.py`, `bybit_ws.py`, `chainlink_oracle.py`, `binance_trades_ws.py`) | last prices; one-minute trade buckets | message, flush of stale buckets | snapshot rows carry the price |
| Collector supervision (`collector/main.py`, `health.py`) | tasks, stop event | first task to end stops the rest | all feeds |
| Arbitrage tracker (`worker/arb_tracker.py`, `backtest/arb_engine.py`) | recorded opportunities | detect, insert once, settle in batches | snapshots, resolutions |
| Backtest engine (`backtest/*.py`) | none between runs; in one, the open position and the trades | replay, fill, settle, evaluate conditions, sweep | run by the worker; its results feed the pages |
| Rate limiter (`api/rate_limiter.py`) | two buckets per key in Redis | check | every request |
| Auth, tiers (`api/auth.py`, `api/tiers.py`) | none | key lookup with the tier of an active subscription row | every request |
| Account (`api/routes_internal.py`, `web/app/api/webhook/stripe`, `ApiKeysClient.tsx`, `web/libs/fastapi.ts`) | Stripe's subscriptions, the Supabase profile, the API's subscription rows and keys | checkout, portal, webhook in two stages, sync; create, list, revoke keys | tier of every request |
| Strategy builder (`StrategyBuilder.tsx`, `pythonCodegen.ts`) | three condition trees and a setup, in memory and localStorage | edit, toggle, template, load, save, hand-off, submit twice over | backtest and paper APIs, calibration page |
| Backtest pages (`SweepForm.tsx`, `SweepResult.tsx`, `BacktestResult.tsx`, `SavedBacktestsList.tsx`) | form, view, list; timers and requests under way | submit, poll, run best, list | job API through Next.js proxies |
| Live pages (`LiveTerminal.tsx`, `MarketDetail.tsx`, `ArbDashboard.tsx`, `ArbVerification.tsx`, `CalibrationView.tsx`, `MarketsTable.tsx`) | filter, answer on display, flags; requests under way | filter, poll, scrub, pause | market, arbitrage and statistics APIs |
| Paper pages (`PaperStrategiesList.tsx`, `PaperStrategyDetail.tsx`) | record, positions, equity | poll, pause, resume, delete | paper API |
| Live endpoints (`api/main.py`, `api/routes_stats.py`) | short-lived caches | reads | served to the live pages |
| Concurrency gate (`api/backtest_semaphore.py`) | Redis counters | none: nothing calls it | none |
| Marketing site, layout, sign-in (`web/app`, the other components) | none | static pages | none |

What is hard here: two processes and Redis with read-then-write records (jobs);
cancellation that looks like a timeout, and retries after it; a polling worker
whose window is defined by timestamps that another process stamps before it makes
the row visible; cycles that fail half-way; resolutions that arrive late; API
writes under a cycle that has already loaded what they change; pages whose answers
arrive late, out of order or not at all, after the filter, the page or the job they
were for has changed; webhooks delivered twice and in any order; requests a proxy
sends again. What makes each
component correct:

* jobs: a poll shows a coherent record; every accepted job leaves the in-flight
  states; a result once shown is not taken back; the per-key budget is overrun by
  no more than the known race; a run's record outlives the run;
* paper trading: every snapshot is shown to every strategy active at the time; a whole
  cycle settles every position whose resolution its window holds; a pause takes effect;
* feed: a connection is subscribed to the current tokens; a row is in one place
  until it is stored or its insert fails; held-back changes and buffered rows are
  written within a bound; a graceful stop leaves nothing behind;
* resolution and arb settlement: every closed event is recorded and every audit of a
  decided one settled, while the rows that cannot be leave room in a batch;
* billing: once its events are handled, a subscription has an active row exactly
  while Stripe has it active, with the tier it was bought for;
* keys: no key is created unseen but for a lost call;
* rate limiter: less than twice the limit in any window, no undeserved refusal, an
  honest Retry-After;
* engine: a fill is what the book holds, each dollar is counted once;
* builder: page and wire say the same, and so does the generated code wherever it
  gets to an answer; a reload changes nothing; a
  paper strategy is the one its baseline ran;
* pages: what is shown is what was asked for last; figures on one page agree; every
  page settles on what the server has.

## Modules

| Module | What it is |
|---|---|
| `JobContract` | abstract specification of an accepted job as its caller sees it |
| `Jobs` | submission handler, job store, ARQ worker |
| `JobsProofs` | TLAPS proofs about `Jobs`: what its records say; how long they last, the budget, the refinement |
| `MCJobs` | TLC instances of `Jobs` |
| `PaperTrading` | paper-trading API, worker cycle, and what it sees of the collector |
| `PaperProofs` | TLAPS proofs about `PaperTrading` |
| `MCPaper` | TLC instances of `PaperTrading` |
| `PolymarketFeed` | the order book feed: tokens, connection, throttle, buffers, flush, stop |
| `FeedProofs` | TLAPS proofs about `PolymarketFeed` |
| `MCFeed` | TLC instance of `PolymarketFeed` |
| `ConditionTrees` | a builder section and its four readings: shown, sent, evaluated, generated (operators) |
| `StrategyForm` | the builder's page in a tab: its form whatever it is, localStorage, hand-off, submissions |
| `StrategyFormProofs` | TLAPS proofs about `StrategyForm` |
| `Builder`, `MCBuilder` | the strategy builder, `StrategyForm` with forms made of `ConditionTrees`; its TLC instance |
| `SweepGrid` | axes, cells, best cell and plateau of a sweep (operators) |
| `ResultViews` | statistics, curve, spline and table of a result (operators) |
| `Studies`, `MCStudies` | sweep form, result page and saved list, with `SweepGrid` and `ResultViews`; its TLC instance |
| `StudiesProofs` | TLAPS proofs about `Studies` |
| `LivePages` | terminal, market, arbitrage scanner and audit, calibration, resolved markets |
| `PaperPages` | the list of paper strategies and the page of one |
| `Billing` | Stripe, webhook, profile, subscription rows |
| `ApiKeys` | keys page, proxies, key table |
| `Replay` | one market's replay and the fill model |
| `RateLimit` | the two buckets of a key |
| `Settlement` | resolution sync and arbitrage audit |
| `Platform`, `MCPlatform` | the seven modules above that share no state, one section at a time; their TLC instance |
| `PagesProofs`, `BackendProofs` | TLAPS proofs about sections of `Platform`: market pages, paper pages and keys, and the types of every section; replay, rate limiter, billing and outcomes |
| `FoldProofs` | lemmas about folds, sums, drawdowns and whole division, for the proofs about data |

### Jobs

`store[j]` is the record under `job:{j}`, reduced to its status and to whether it
carries a result and an error; `ttl[j]` is its Redis time to live in ticks. A
request handler `r` is a program counter: `Admit` (list, count, compare),
`CreateWrite` and `CreateIndex` (`JobStore.create`), `EnqueueOk` or `EnqueueFails`,
`ApiFailGet`/`ApiFailSet` (its own `mark_failed`), `PollEnds` (the inline wait). The
sweep handler takes the same steps without the wait. A run `j` of the worker is a
program counter too: every `mark_*` is a Get action and a Set action, because the
code reads the record, changes it and writes all of it back one round trip later.
`Timeout`, `Shutdown`, `Crash`, `RedisError` may strike between any two steps, and a
SET they interrupt may or may not have landed. ARQ is not in the repository; its
part (start, in-progress key, retry after a cancellation, give up after
`max_tries`) is modelled from the options the worker sets. A 429, like every tier
check that changes nothing, is the absence of a step.

`Tick` requires every handler to be idle or polling and every run to be within its
timeout: one tick is long against a round trip. Only the order `SyncTimeout,
JobTimeout < RunningTTL <= ResultTTL` of the durations matters (30 s, 5 min, 1 h,
24 h in the code) and is what `JobsAssumption` states.

Fairness (`FairSpec`, used by the refinement): the two event loops run their ready
coroutines (`Handler`, `Coroutine`) and time passes (`Tick`). Nothing is assumed of a
backtest's end, of the worker's restart, of ARQ's choice of a job or of clients.

### PaperTrading

One unit of time is a poll interval (5 s), so `PAPER_LOOKBACK_S` is 2. Each database
call of a cycle is an action: `StartCycle`, `LoadStrategies`, `PullSnapshots` (window,
order and LIMIT), `LoadMeta`, `NextRow` and then one action per strategy
(`EvaluateQuietly`, `OpenPosition`, `InsertFails`), `EvalDone`, `SettleSelect`,
`SettleMarket`, `CycleDone`. `CycleFails` is the `except` of the loop; like `CycleDone` it
advances both cursors, which the code always sets to the same value (`cursor`). A
condition is abstracted to the side of its threshold the price is on (`Levels`); a
strategy of `CrossStrats` fires only if the side it was last shown was the other one.
The collector appears through what the worker can see of it: a row with time `ts`
becomes visible within `FlushLag`. A resolution appears (`Resolve`) with any `resolved_at` up
to now: the sync stamps the time the event closed (`resolution_sync.py:160-175`) whenever it
gets to it, and nothing bounds how late that is.

`processed`, `activeSince`, `lastEval`, `evalGap`, `fresh`, `unmet` and `passedBy` are history: they
record what was evaluated, whether the worker failed, stalled or was down for longer than its
overlap covers, and of the resolutions which were recorded since the cycle began (`fresh`), which
no whole cycle begun since has settled (`unmet`), and which of these the settlement
window had already left behind (`passedBy`). No guard reads them.

### PolymarketFeed

A market stands for its two tokens, which `load_active_tokens` loads together; a book
is reduced to whether it holds any level (what the passive pass asks), a row to its
number. `conn` is the program counter of the run loop: `connecting` (inside
`websockets.connect`), `subscribing` (inside `ws.send`, with the token list already
evaluated and `_active_ws` set), `consuming`, `closing` (after the refresh loop's
`close()`, while messages may still arrive) and `down` (the back-off).
`Refresh` is one turn of `_refresh_loop`, and may fall anywhere in that: a change closes
only what `_active_ws` points at (`Closable`), and a connection being opened needs no
close because it has yet to read `self.tokens`.

`BookEvent`, `PriceChange` and `Trade` are the branches of `_handle_event`, with
`_should_emit` as `Due` and `Stamp`; `SIGNIFICANT_MOVE_ABS` is 0 in the code, so its third
branch never applies. `PassiveSnapshots` is a whole pass, which has no `await` in it.
A flush is a loop position (`snapshot`, then `trade`) with an insert under way or not:
`BeginInsert` swaps the buffer, `EndInsert` stores the rows or loses them, `Leave` goes on.
`Stop` is the cancellation: it cuts the insert under way, which may or may not have
arrived, and starts the flush of the `finally` block, during which no loop runs.

One unit of time is the flush loop's one-second sleep. `Tick` lets a loop that is due
run first and an insert last at most `InsertTime`: the event loop is not starved for a
second. `dirty` and `since` are history: since when a book holds a change no row shows,
and since when the oldest row of a buffer waits.

### SweepGrid, ResultViews and Studies

`Studies` is a browser tab on the backtest pages. One of `form`, `view` and `list` exists
at a time (`page`); a request crosses the network in three steps (sent, answered,
received), and the page, the worker and other requests move in between. A poll chain
of `BacktestResult.tsx` is a slot of `polls`: `Unmounted` is its cleanup (the timer goes, an
answer on the wire will find `cancelled` set), `ReceivePoll` the body of `poll`, `PollTimer` its
`setTimeout`. The list's `setInterval` sends whether or not the last load is back, and each
answer overwrites the rows. A submission's answer moves the router wherever the user
has gone. Of the backend only what a `GET` shows of a job is kept: statuses go as
`Jobs` lets them, retries after a reported failure and expiry included.

`SweepGrid` holds what both sides compute of a sweep: the form's menus and base spec, the
worker's `CellSpec` and `BestCell`, the page's `BestSpec`, heat map and plateau. Parameter
values are abstract points of an axis, so that an axis left over from another
parameter is told apart; `Override` is the one step in which page and worker put a cell's
value into the spec. `ResultViews` is the page of a single result: totals, profit
factor, the curve and its Fritsch-Carlson spline with exact fractions, the cut table.

### ConditionTrees, StrategyForm and Builder

A section is a tree of rows and groups with a root operator and, per group, an optional
array of connectors. `ConditionTrees` defines its four readings: what the pills and the
sentence say (`Pill`, left to right), what is submitted (`SerialiseSection`, with the flat list
and the tree form), what `evaluate_one` and the tree evaluator make of that
(`BackendReads`, `Evaluate`), and what the generated Python says (`SectionExpr`) and does (`Run`). Two
readings agree when they fire under the same valuations of the rows. A row is true, false or, while
the snapshots lack what it tests, unknown; the evaluator takes unknown for false, and
Python raises on comparing `None` with a number.

A generated row (`LeafExpr`) is not always the row's test. A price or spread row reads a key that
the rows of `/v1/snapshots` do not have and raises `KeyError`; a token's volatility, computed from the
same keys, is always `None`, so comparing it raises too; a crossing names a variable that is never
defined. So `CodeAgrees` speaks of the runs of the expression that come to an answer, and of
`!=` rows with known values only (`None != 3` is true). What it shows is that the
joins, the pills and the short circuits mean what the page says; that the script runs at all
it does not say, and for those rows it does not run.

The evaluator's crossings have a state the trees leave out: the previous value is kept per row text
(`conditions.py` 273-278), so two equal crossing rows share it and the second sees no change,
and the right of a settled OR does not record its value (415-420). `WireAgrees` is therefore about
sections without crossings; `PaperTrading` models the state of a single one.

`StrategyForm` is the page, for any set of forms: its constants say what a browser begins with, what
the templates and the hand-off are, what an edit may make of a form (`Edited`) and what is sent
for one (`Sent`). Every edit is followed by the write to localStorage, which may be refused
(`Persist`). Opening the page runs `MountEffect`, twice under Strict Mode (`Remount`). `subs` are the
async submissions, which outlive the page; a paper submission posts the baseline first
and the strategy after its answer, and the paper proxy may send it twice (`Resent`).

`Builder` says what the forms are: a setup and three sections. An edit is `SetField`, or
`EditNode` put back at a path of a section (`EditTree`). Its configurations give `StrategyForm`'s
constants these values (`Edited <- Edits`, `Sent <- BuildStrategySpec`).

### LivePages, PaperPages, Billing, ApiKeys

In `LivePages` a filter is a number, 0 the default, and the server's data a version. `reqs` is
the requests under way in the order they were sent; answers may come in any order and
may fail. The six pages share this and differ where the code does: `Cancelled` for the
effects with a cleanup, `Out("data") = {}` for the terminal's request in flight, the scrubber's
debounce (`ui.timer`), and no guard for the scanner and the book. `overtook` is history.

`PaperPages` has the strategy's record and its ledger as the server; a refresh is a set of
parts answered one by one and read together. The list of positions is cut at `PageLimit` (1000
in the code), the equity curve is not: `PageAgreesWithItself` asks for a list that was not cut (`Whole`).
Tiles, hero sentence, table and drawdowns are operators over what the page holds. The page's comparison
with a baseline backtest is left out because no answer of the API leads to it (see below).

`Billing` has one customer's subscriptions at Stripe, the events pending, and the
deliveries being handled in two stages (the Supabase profile, then the API's row),
which interleave. The webhook answers 200 whatever happens, so a lost call is not
made up for (`HandlerFails`); `broken` is history and marks the subscriptions it befell. `ChangePlan` puts a
subscription on another plan at Stripe (`planAt`, with `repriced` as history), and its invoices are of the
new price from then on. The webhook drops the event that says so, and passes over an invoice
whose price is not the profile's, so `TierFollowsPurchase` says that the row keeps the tier
*bought*. That is only certain for the one subscription ever paid for, or one never
changed: with two, a changed invoice may meet a profile that holds the other's price.

`ApiKeys` is the keys page; its `calls` are sent, served and read one by one, and the proxy
resends a call whose socket broke, which may have been served.

### Replay, RateLimit, Settlement

`Replay` steps through a market's snapshots: `Enter`, `Exit`, `Pass`, and `Settle` at the end. Any signal
may come at any snapshot, so every strategy is covered. Money is counted in parts of a
`Dollar` times share units chosen so that every division comes out even; an average price
is kept as the money and shares it stands for. `TryLimitFill` looks ahead as the code does.

`RateLimit` counts requests waiting for each bucket; the script is one step (`Admit` or
`Refuse`), and `AnswerLost` is the client's retry after a script that ran. Times count from
the present, so behaviours are unbounded. `granted` and `promised` are history: a token is its
age and its place among those of its tick, so that the tokens of a window are a set to count. A
bucket's remaining life is exact in the model; Redis answers `TTL` rounded to the nearest second, so a
`Retry-After` may be up to half a second short, and for the burst bucket of one second the
API names at least one (`main.py:194`).

`Settlement` numbers events by resolution time; `fate` is how each ends at Gamma, `queue` the
sync's batch, `detected` and `batch` what the tracker has in hand. A query with a `LIMIT` is a set of
that many rows (`Limited`); the sync's is ordered, so its set has the earliest events (`Selected`) and is
gone through from the earliest (`IsNext`).

### Platform

The seven modules `LivePages` to `Settlement` share no state. `Platform` instantiates all of them,
and a behaviour is one section's with the rest at rest: the state space is the sum, not
the product. For the four web sections that is also what a tab does. Backend parts that
do interact (jobs, paper trading, the feed) have runs of their own.

## Runs

| Run | Question | Bounds and why they suffice |
|---|---|---|
| `jobs_lifecycle` | coherent records, answered jobs, refinement of `JobContract` with liveness | one handler, two jobs in turn, one slot-limited worker, two runs per job, two faults: a fault in a run and one in its rerun, and a second job beside it; every TTL and timeout expires |
| `jobs_budget` | how far concurrent submissions overrun the cap | two handlers, three jobs, cap 1, listings of cap + 1, history cut at 2 |
| `jobs_tier_cap` | the cap as `api/tiers.py` states it: violated | two concurrent submissions |
| `jobs_stale_error` | `error` only when failed: violated | one job, one shutdown |
| `paper` | nothing skipped, resolutions in the window settled, pauses obeyed | one strategy, one market, two snapshots against LIMIT 1 (cut windows), one API write, one fault, five instants: longer than lookback plus buffer, so windows do slide past rows, and a resolution may be recorded inside the window or behind it. Strategies meet only in aborted cycles, and `CycleFails` is what another one's `InsertFails` looks like |
| `paper_replay` | "duplicate processing is fine": violated | one crossing strategy, two snapshots, no faults |
| `paper_flush_lag` | "we never miss rows on the boundary": violated | a row visible three polls after its ts, no faults |
| `feed` | subscriptions current, rows in one place, bounded waits, complete stop | one market, two rows (both buffers, or two in one, which fills it), throttle and intervals of 2, inserts of up to 1, six seconds: three passive passes, three timed flushes, and inserts that fail, or are cut by the stop, in either buffer |
| `studies` | no poll chain or job too many, runnable sweeps, best cell rerun, real plateaus, faithful curve, settling pages | two jobs, two clicks, one lost answer or shutdown, one visit or edit, a give-up after one poll: a sweep and its best run, left or remounted at any point; grids of 1x2 and 2x2 with failed cells, results of up to four trades against a table of three |
| `builder` | rows the backend reads, copies that agree, reloads, paper and baseline | four edits or loads in one section (rows, groups, nested groups, toggled pills), a click, a refused write or lost request; the other sections run the same code |
| `builder_wire` | mixed connectors reach the evaluator: violated | as `builder` |
| `platform` | filters matched, figures that agree, tiers as bought, keys, fills, rates, convergence | three filters, three requests under way and three changes (two answers overtaken); three positions in a list cut at two (two drawdowns, two orders of closing, cut and whole lists); two subscriptions on two plans and one fault, renewal or change of plan; two keys; three snapshots over six books, two entries, five rules; two requests against buckets of 2 in 2 and 3 in 4 ticks, for ever; three events in batches of two |

`jobs_*` runs check deadlock. The `paper*` runs end at the horizon `MaxTime`, where the
worker sleeps for ever, and `feed` there or stopped; `studies`, `builder` and `platform` rest when
the user does and the bounds are used up. They say `CHECK_DEADLOCK FALSE`.

Fairness of the web modules: the browser runs its timers and callbacks, and a request
is answered, if only with a failure (`fetch` rejects, the proxies answer 502). Where several
are under way only the oldest is promised an answer. Nothing is asked of the worker, the
user, or the server's data. In `Billing` Stripe delivers what it has and a handler runs on;
in `Settlement` the two loops run.

`paper` takes `FlushLag` = 1, half the lookback; `NoSnapshotMissed` is about the worker's
part. With the collector's real flush interval the overlap is used up before the
worker is late at all, which is what `paper_flush_lag` shows.

## Findings

1. `jobs_tier_cap`: two submissions that list before either creates are both
   admitted, so more jobs run than `concurrent_backtests` allows. `jobs_budget` bounds
   the overrun: one job per additional concurrent request.
2. `jobs_stale_error`: after a worker shutdown a completed job can carry an error.
3. `paper_replay`: the overlap replays snapshots through the persistent crossing
   state; a market that only went down fires `crosses_above`.
4. `paper_flush_lag`: the collector's 10 s buffer equals the worker's 10 s lookback;
   a row inserted any later than that is never evaluated.
5. `builder_wire`: `stripIds` (`StrategyBuilder.tsx:2042`) drops a group's connectors, so what
   is submitted is not what the pills, the sentence and the generated Python say.

Met while modelling, and without a run of their own:

* Jobs: `job_store.py:17-18` says "If the worker process dies mid-job the job stays "running" forever until
  manually cleaned". The code does otherwise: `RUNNING_TTL_SECONDS` (line 40, "kills zombie
  "running" jobs") lets the record expire an hour after its last write, and an expired record no longer
  counts (`list_for_user`). `BudgetReturns` in `JobContract`, which `jobs_lifecycle` checks crashes included, is about what
  the code does and contradicts the docstring.
* Paper settlement: the query's extra hour is a "buffer in case sync was delayed" (`paper_trader.py:582`),
  but the window is over `resolved_at`, which the sync stamps with the time of closing. An outcome recorded
  later than about an hour after it - a batch of 300 every ten minutes, oldest first, with events
  that stay in it, an outage of Gamma or of the collector - is behind the window from the start, and its
  positions stay open for ever. `NoPositionForgotten` excepts those (`passedBy`).

* Backtest pages: a failed poll is final, and a page that showed "failed" does not see
  ARQ's retry; sweeping the integer `lookback` sends floats, whose cells fail; failed cells
  count as a net of 0, so the best cell may be one; limits fall back to the largest tier's
  (200 markets, 2500 cells) when the subscription cannot be read.
* Builder: "Both calls happen in parallel" describes two calls in sequence; the origin
  banner, "Cleared as soon as the user edits anything substantial" (523-525), is cleared by
  no edit; two tabs overwrite each other's saved list.
* Generated Python: price and spread rows read `snap["mid_yes"]` and `snap["spread_yes"]`
  (`pythonCodegen.ts:95,99`), fields that `/v1/snapshots` does not return (`main.py` 682-690), so the script
  stops with a `KeyError`; `token_volatility` reads the same keys, gets `None` and raises on the comparison, as
  every unknown value does where `conditions.py` 311-312 answers false; crossings name a `prev_` variable the
  script does not define; its books are looked up under `orderbook_up` and `orderbook_down`, which the rows do
  not have either, so nothing would fill; and its history holds 60 snapshots whatever the window.
* Evaluator: two equal crossing rows share one stored value, and a row right of a settled OR does not
  update its own, so a crossing may be missed or seen late; the comment at `conditions.py` 361-366 says the
  latter is intended.
* Live pages: an old ticker's boards stay until the next poll; a book that arrives late
  stands under a newer scrub time; the audit's error takes its selector away; the table of
  markets stays on "Loading" when the filter goes back to the default during a load
  (`MarketsTable.tsx:114-116`); "Logical arbs are surfaced regardless of any filters"
  (`ArbDashboard.tsx:406`), but the ticker filter hides them.
* Paper pages: the drawdown tile runs over the listed order, newest opened first, where
  its comment says chronological; a `DELETE` sent twice answers 404 and leaves the row. The
  comparison with the baseline, documented at `PaperStrategyDetail.tsx` 660-687, never shows:
  `GET /strategies/{id}` selects no `baseline_backtest_id` (`paper_db.py` 57-80), so each refresh sets the baseline to
  null (102-125). With more than 1000 positions the list is cut (`paper_db.py:276`) and the curve is
  not: tiles, table and the count of open positions then disagree with it.
* Account: "we keep one "active" row per user" (`routes_internal.py:115-117`), but rows are per
  Stripe subscription, so a customer with two may be granted either tier; the end of an
  old subscription takes the profile's access although a newer one is active; a resent
  `POST` mints a key nobody sees. A change of plan in the portal is dropped: the handler of
  `customer.subscription.updated` says "The customer might have changed the plan" and "You don't need to do
  anything here" (`route.ts` 136-141), and later invoices fail its price check (197), so the customer pays
  for the new plan and keeps the tier of the old one until the next purchase or the cancellation.
* Engine: `walk_book` is documented to return None for a thin book and fills in part; the
  shares an exit cannot sell are dropped; the price ceiling looks at the best ask only; a
  limit order opens its position at placement, so an exit may precede its fill.
* Rate limiter: "rolling window" (`api/tiers.py:27`) is a fixed one; "We always evaluate both"
  is a short-circuit, and a refusal by the second bucket has spent a token of the first.
* Settlement: events Gamma no longer knows stay in the batch for ever, and audits of an
  inconclusive one too; as many as the `LIMIT` stop all progress (`Settled` needs its premise).

## Proofs

`JobsProofs` proves, for all values of the constants that satisfy `JobsAssumption`:

* `TypeCorrect`: `Spec => [](TypeOK /\ OwnershipInv)`. Ownership (a handler past
  admission owns a job that exists, a coroutine that is about to write holds a
  record) is what makes the type of `store` inductive: a SET writes what was held.
* `PayloadMatchesStatus`: `Spec => []StatusCarriesItsPayload`. The records in flight
  inside handlers and coroutines (`CopiesInv`) must be coherent too, and a held
  queued or running record can only belong to a run that will write it; the type
  and ownership invariants are used throughout.
* `DroppedJobsAreAnswered`: `Spec => []FinishedJobsAreAnswered`, from the worker
  invariant that a job off the queue has no run that could put it back in flight.

`PaperProofs` proves, for all values that satisfy `PaperAssumption`:

* `PaperTypes`: the types, with the worker's bookkeeping `LoadInv` (what a cycle has
  loaded is empty outside it; strategies are shown rows of unresolved markets only).
* `PauseIsHonoured`: the action property `PauseTakesEffect`, from `ActiveInv`: a loaded
  strategy is active, or stopped being so since the cycle began.
* `PositionsAreSettled`: `[]NoPositionForgotten`, from `SettleInv`: a market that still has an open
  position (`Stranded`) is one no whole cycle has settled since its outcome was recorded (`unmet`),
  or was passed by; and what is unmet and not passed by is still in the window. At the end of a
  cycle such a market was among the rows of the settlement query, was recorded after
  the cycle began, or is passed by, and `AdvanceMoves` says what the cursor's move makes of the three. A late
  `OpenPosition` keeps this because its market was unresolved when the cycle read the
  metadata. Nothing is assumed of how late a resolution is recorded.
* `SnapshotsAreSeen`: `[]NoSnapshotMissed`, from `EvalInv`: what lies `FlushLag` before the
  last whole pass has been processed, and a pass under way that the LIMIT did not cut
  holds everything since the cursor in its batch, in hand, or processed. It uses the
  second half of `ActiveInv`: who was active before the cycle is loaded.

`StrategyFormProofs` proves about the builder's page, with the constants of `StrategyForm` left open, so
the results hold for the forms of `Builder` and for any others:

* `ReloadIsHarmless`: `[]ReloadShowsTheSame`, which is inductive as it stands.
* `PaperMatchesItsBaseline`: `[]PaperMatchesBaseline`, from `SubmitInv`: a submission waiting to
  post its paper strategy holds the index of a run with its own strategy and markets; runs are
  only appended, so the index stays good; and the runs made and those still owed
  (`RunsDue`, `PapersDue`) together are at most the clicks, with the faults for the proxy's retries.
  It holds for any number of submissions at once.
* `FormTypeOK`: `[]TypeOK`, from `FormTypes`: the lists are sequences within the cap, also after a
  save or a delete.

The last two use `StrategyFormAssumption`: the cap and the bounds are natural numbers.

`FeedProofs` proves all six invariants of `feed`, for all values that satisfy
`FeedAssumption`:

* `FeedTypes`; `SubscriptionsFresh`, which is inductive as it stands;
* `NoRowVanishes`, from `RowInv`: the five places are pairwise disjoint and make up the
  rows emitted so far;
* `StopLeavesNothing`, from `StopInv`: a flush after the stop that has reached the trades
  has left the snapshot buffer empty, and nothing appends any more;
* `StalenessIsBounded`, from `ClockInv` and `StaleInv`: a held-back change came less
  than a throttle after the market's last row, so the next passive pass writes it, or
  the one after if that row was still too recent;
* `RowWaitIsBounded`, from `ClockInv` and `WaitInv`, which bounds the age of a buffered row
  by the turns left before the timed flush.

The second part of `JobsProofs` is about how long records last and about the budget. A step touches one job in one of a
few ways - its record is filed, a run starts, reads it, marks it, leaves its body, ends,
or is caught by a fault - so one lemma (`EveryMove`) turns `Next` into moves, and
the invariants are proved move by move:

* `WaiterFindsItsRecord`: `[]SyncNeverSeesGone`, and `RunFindsItsRecord`: `[]RunNeverOutlivesRecord`,
  both from `ExpiryInv`: a record is there while its time to live lasts, and that is longer
  than what is left of the wait, or of the run's timeout. The order of the durations in
  `JobsAssumption` is what this rests on; the invariant relates a wait that grows to a time
  to live that runs down and is renewed by every SET.
* `OverrunIsBounded`: `[]BudgetOverrunBounded`, step by step on cardinalities: a handler admitted
  counts before its job does and stops counting when the job starts to; and `FreshInv` and
  `HeldInv` (the queue has not heard of a job whose handler has yet to enqueue it, and the copy
  held before a SET still says what the record says, unless that has expired) keep a
  finished job from being counted again.
* `JobsKeepTheContract`: `Spec => Contract!Safety`. The initial state is the contract's, and
  every move of every job maps to a step of the contract or to a stutter (`PromisedMove`): by
  `HeldInv` a copy written back late takes no result away that the record has.
  The liveness half of the contract stays with TLC (`jobs_lifecycle`).

`StudiesProofs` proves `StudiesInvariant`: `Spec => []StudiesInv`, for all values that satisfy
`StudiesAssumption` (bounds are numbers, a grid has rows of one length, and `Null` is none of the
records it stands in for). It follows a verdict from the job to the page: what a job may be
asked for (`JobOK`), what an answer on the wire carries (`PollOK`, `LoadOK`, `PostOK`), what the
mounted page has (`PageOK`). From it:

* `PagesHaveTheirState`: `[]TypeOK`;
* `NothingHappensTwice`: `[]NothingTwice`. One chain of polls is live, it is about the job on
  the page, and a click is a job or a request under way, never both: the jobs and the
  posts that were sent are together no more than the clicks;
* `SweepsCanBeRun`: `[]SweepJobsRunnable`. The form always names parameters of the strategy it
  shows, and a request keeps what was valid when it was sent;
* `BestCellIsRepeated`: `[]BestRunRepeatsBestCell`. A result once carried by a job stays its own
  after the record expired, so that a best run asked for late names the same cell;
* `VerdictsStay`: the action property `ShownNeverRegresses`, from the part of `PollOK` that says an
  answer is no older than what the page shows;
* `PlateausAreReal`: `[]PlateauIsReal`. A finite grid of integers has a greatest cell
  (`GreatestSomewhere`, by well-foundedness of inclusion on finite sets), and the plateau is read off it.
* `CurvesAreFaithful`: `[]CurveIsFaithful`, for any trades at any times. The chart's last point is the sum
  over all trades, whatever order the sort put them in, and sums of differences are differences of sums
  (`SumLess`). A tangent fits both steps it touches (`TangentFits`): the harmonic mean of two slopes
  of one sign is less than twice either, so a third of it stays within the step (`ThirdStays`).
  The assumption on `Results` is that they are what the engine makes of a list of trades.

`PagesProofs` and `BackendProofs` prove about sections of `Platform`, from the assumptions their
modules state. A section at rest stays in its initial state, where its invariant holds, so
the invariants need no guard on which section is open:

* `RateStaysHonest`: `[]RateIsHonest`, from `LimiterInv`: the tokens a bucket gave and those it has
  left make the limit, and fewer than the limit of the earlier bucket's are still in the
  window, because its first one left it when the bucket expired. Twice the limit minus one
  is what the property allows, so nothing less will do.
* `TierIsAsBought`: `[]TierFollowsPurchase`, from `BillingInv`, which says for each state of a
  subscription at Stripe what its row may be and what must still be on its way: an active
  one has its row or a checkout to be handled, a canceled one with an active row a
  deletion, and behind a handled deletion nothing else is left; and of the tier (`TierOK`) that, as long as a
  subscription is the only purchase or was not repriced (`AsBought`), the profile has no other price an invoice
  of it could match, and what is on its way to the row is the tier bought. Changes of plan and
  their invoices are among the steps.
* `NoKeyIsLost`: `[]KeysAccountedFor`, from `KeysInv`: one creation at a time holds the button, its
  answer is the newest key and unseen, and unseen keys are no more than the lost calls and
  the creation that was answered.
* `PageShowsWhatWasPicked`: `[]MatchesFilter`, from `LiveInv`. A request is live only if it is for the
  filter picked last, where a page cancels; where it does not, the newest request is for
  that filter and answers that keep their order leave it the last to arrive (`Coming`), which
  `overtook` tells from the others. `TableCounts` adds up the scanner's rows.
* `FiguresOfAPageAgree`: `[]PageAgreesWithItself`, from `PaperInv`. A list that was not cut (`ListOf`) and the curve on the page
  and in every answer under way are of the *past* of one ledger (`PastOf`, `CurveOf`): a closed row has
  the net and the rank of closing it has in the ledger, and the curve climbs at each rank by
  the net of the position that closed then. A position that opens or closes leaves what was
  past so (`PastOpens`, `PastCloses`), and what the API computes now is (`ListedNow`, `CurveNow`),
  also when it cuts the list to the newest positions. A list
  and a curve of one past with as many closed positions have the same ones (`PastMeets`: ranks
  count from one without a gap), whatever refreshes brought them, so the curve *fits* the
  list, and all figures follow (`FiguresAgree`): the last point is the sum of the rows, as many
  rows gain as the curve has steps up. If positions closed in the order they opened, the tile
  walks the curve's steps backwards; the deepest fall of a walk is the largest drop between two of its points
  (`FallIsDeepest`), and that is the same in either direction (`FallBackwards`).

* `EveryTypeHolds`: `[]AllTypesOK`, the types and bounds of every section. Billing, the keys, the replay
  and the limiter have them from their invariants. The market pages need that nothing on
  the wire or on display is newer than the server's data (`LiveBounds`); the paper pages that
  the requests of all refreshes stay within `MaxWire`, a sum along the wire that an append raises by
  the new refresh's requests and an answer leaves alone (`PaperBounds`); the outcomes
  that a batch keeps its `LIMIT` and only what closed is recorded (`ResultsInv`, in `BackendProofs`).
  It asks of the bounds that there is a version and room for two requests, and that the tiers are finite.

`FoldProofs` holds what the proofs about data keep needing: that a fold is what its steps make of
it, what a sum over a function is and how it grows, and how whole division rounds. The
library's induction theorems take an operator, so the induction here is on a *set* of
numbers: `LeastNatural` gives the least number of a set from the library's well-foundedness of
`<`, and a statement is proved for every prefix by showing that the set of prefixes it
fails for has no least element (`SetInduction`, `BoundedInduction`, `SubsetInduction`).
`FoldExists` shows that the function a fold is defined by exists, so that its `CHOOSE` means it.

`BackendProofs` also proves the two invariants of the replay, from `ReplayAssumption`: prices lie
between 1 and `Dollar`, and a side of a book is sorted, best level first, as the collector
sorts it. `EngineInv` is inductive: trades alternate between entries and exits, one entry at most is
open and it is the last trade, a result stands where the code puts it, and a taker's trade is the walk of
the book of the snapshot it is stamped with.

* `ResultIsTheMoney`: `[]EachDollarOnce`. Along the prefixes of the trades (`PairByPair`) the results
  are the money of the exits less that of the entries whenever an exit is the last trade,
  and an entry that is held adds what it is worth.
* `FillsAreTheBooks`: `[]FillsWalkTheBook`. Along the levels (`BuyIsBest`, `SellIsBest`) the walk has
  spent the least of its money and the depth so far, and what it got is the least of the lines that
  continue each level. A better price earlier is what makes a line of a later level lie
  above; without the order of the levels the property is false. It holds for every
  `Dollar`, `Stake` and depth, whether or not the divisions come out even.

The assumptions on `Null` (in `StudiesAssumption`, `LivePagesAssumption`, `BillingAssumption`,
`KeysAssumption`, `RateLimitAssumption`, `SweepGrid`'s `NullAssumption`) say that it is none of the
values it is told apart from in the code (`null` is no object, number or list); TLC checks them
with a model value.

What stays with TLC:

* liveness, out of the prover's reach: `BudgetReturns`, the liveness of the contract,
  `StudiesConverge`, `SectionsConverge`;
* what `Builder` says of its condition trees, which are `RECURSIVE`: `RowsEvaluable`, `CopiesAgree`,
  `PillsChangeOnlyWhenClicked`.

## Not modelled

* The backtest's data loading, statistics other than those on the result page, the amount
  of fees and the risk manager; indicator values; the arbitrage pricing model: arithmetic
  on data without control.
* `BacktestForm.tsx` and `NewPaperStrategyForm.tsx`, which nothing imports, and
  `api/backtest_semaphore.py`, which nothing calls.
* The replay loop of the generated Python (`pythonCodegen.ts` 188-564): text of another
  program. Of its conditions, how the rows are joined and where evaluating them raises is modelled, not the
  arithmetic of its helpers.
* The price feeds and the supervision of the collector: they overwrite a last value, or
  stop together; discovery's catalogue scan and slug classification.
* Charts' geometry but for the spline, formatting, navigation, marketing pages, sign-in.
* A paper strategy's ticker and event-type filters select markets it never looks at and
  are left out: a strategy is modelled on the markets it watches. One tab is modelled,
  so no two tabs write the same localStorage.

## Plan

1. `Jobs`, `PaperTrading`, `PolymarketFeed` and their proofs: done.
2. The web modules, `Replay`, `RateLimit` and `Settlement`: done, model-checked.
3. Proofs: the rest of `Jobs` with its refinement, `Studies`, the rate limiter, billing, the keys
   page, the market pages, the paper pages, the replay, the builder's page, the types of every
   section: done.
4. Left: only `ConditionTrees`, and with it `Builder`, declares `RECURSIVE` operators, and what they
   say of the trees stays with TLC.
