# mwosa in TLA+

mwosa is a command line tool for market-data research: it collects daily bars,
financial statements and other series from public providers into a SQLite, Postgres
or MongoDB store, and screens, backtests and evaluates strategies over them. This
directory holds TLA+ modules of its core logic, the TLC configurations that
model-check them, and theorems about them that TLAPS checks.

## The system

```
cli/ --> app/ (handlers, runtime, wiring) --> service/* --> storage/*  (SQL or document store)
                                                 |
                                                 +--> providers/*, clients/*  (HTTP)
                                                 +--> packages/*  (backtest, universe, metrics)
```

| Part | State it keeps | Operations | What is hard | What makes it correct |
|---|---|---|---|---|
| daily backfill (`service/daily`) | page totals, channels, context, error slot; the bars in the store | `Backfill`/`collectRange`, `writeBackfillChunks`; `Ensure`, `Sync` | writer, dispatcher and workers over unbuffered channels, cancel on error, kill and repeat | success means the whole range; totals count only stored bars; the first error wins; nobody hangs, nobody writes after the return |
| backtest engine (`packages/backtest`) | cash, positions, pending orders, event log | `Engine.Run`, one pass per frame: pending orders, signals, sizing, review, fills | orders that wait, partial fills, time in force, missing and no-trade bars, several orders on one purse | cash is never overspent; no order vanishes or is doubled; no look-ahead; the same input gives the same result |
| backtest feed, indicators and rules (`packages/backtest`, `service/backtest/feed.go`) | the row and frame a cursor holds back, week and month aggregates, the series of each symbol, one runtime per indicator, all indicator values | `Compile`; `Next` of the cursor and of the resampling stream; `appendFrameBars`; `evaluateSignals` | one pass over the rows with a frame held back twice, indicators carried along bar by bar, rules that evaluate their child again at earlier bars | every stored bar reaches the engine in one bar of its period; an indicator is what its definition says; a look back finds what was true then |
| backtest evaluation (`service/backtest`, `packages/backtest/evaluation.go`) | the plan of cases and walk-forward steps; case results by index, first error | `ValidateEvaluation`, `RunEvaluation` with `runEvaluationCases` and `runWalkForward` | dates in months, metrics that several places need, a bounded worker pool with early cancel | tests lie after their training; every metric that is read is computed; ranks and choices are those of the results; the first error wins |
| page clients (`clients/datago-*`) | pages of one request | `fetchRemainingPriceInfoPages`, `fetchPage` | workers, feeder, results, retries | every page once or an error |
| KIS provider (`providers/kis`, `storage/providerauth`) | token bucket, token cache shared by processes | `Wait`, `withReadRetry`, `ensureAccessToken` | retries, expiry, several processes | reads stay below the rate; an expired token is never used |
| migration runner (`migration`, `storage/migration`) | which migrations were recorded | `Status`, `Apply` | crash between the effect and its record | a migration that was recorded is never run again; a crash is recovered from |
| strategy store (`storage/strategy`) | strategies, versions, screen runs | create, add version, archive, screen | two backends, one without transactions | the current version exists and is the last one |
| SQL database (`storage/database.go`) | lazily opened handle | `Reader`, `DB`, `Close` | open and close under a mutex | set up once; nothing opened after close |
| universe selection (`packages/universe`, `service/universe`) | a pipeline of steps; bars loaded once; snapshots by date | `Compile`, `Explain`, `BuildSnapshots`, `activeSymbolsAt` | many selectors over unordered maps, dates that must not see each other's bars | no look-ahead; the same input selects the same; every bar is traded with the snapshot of its period |
| providers (`providers/core`) | registry | register, route | roles and priorities | an eligible provider is found if there is one |

The services that fetch, convert and store one item after another, the numeric
packages, the repositories with single-statement queries, and the command line
are not modelled; `PROJECT.json` gives the reason for each.

## The modules

| Module | What it is |
|---|---|
| `BackfillPromise` | what a caller of `Backfill` may rely on, without goroutines |
| `BackfillPipeline` | `collectRange` with its goroutines, channels, contexts and the store |
| `BacktestEngine` | `Engine.Run`, the life of orders in the simulation clock |
| `MCBacktestEngine` | plans and bars for TLC |
| `BacktestTwin`, `MCBacktestTwin` | two runs of `BacktestEngine` over the same input |
| `Rationals` | exact fractions |
| `BacktestIndicators` | the indicators, one bar at a time |
| `BacktestBars` | what a stored row becomes, which bars are valid, how days are put together |
| `BacktestFeed` | from stored rows to the series of the engine: cursor, resampling, `appendFrameBars` |
| `BacktestRules`, `MCBacktestRules` | `BacktestFeed` with strategies: from the series to signals; for TLC the strategies, the bars and the textbook definitions of the indicators |
| `PageFanout` | `fetchAllPriceInfoPages`: feeder, workers, collector and retries of a page client |
| `StrategyPromise` | what a caller of the strategy service may rely on, whichever backend keeps the strategies |
| `StrategyStore` | one strategy with its versions and screen runs, in SQL or in MongoDB, under concurrent calls |
| `EvaluationPlan` | what an evaluation document comes to: periods, parameter sets, metrics, cases, steps; ranking and the split by regime |
| `EvaluationPool`, `MCEvaluationPool` | `RunEvaluation`: the plan, worker pools, walk-forward choice, save; for TLC the documents |
| `KisReads` | the reads of a KIS provider: access token, shared cache, limiter, retries |
| `DailyBarStore` | `Ensure`, `Sync` and the migrations over one table of daily bars |
| `Lists` | parts of lists, sums, lexical order and insertion sort, written so that they can be proved about |
| `UniversePipeline`, `MCUniverse` | a selection pipeline: compile, load, run for each date, lookup by the engine |
| `DailyProofs` | the theorems about `BackfillPipeline` and about `DailyBarStore`, the two sides of `service/daily`; the definitions of the latter have names of their own (`StoreSpec`) so that one module can extend both |
| `BacktestProofs` | the theorems about `BacktestEngine` and about `BacktestFeed`, which have no state in common |
| `KisReadsProofs`, `StrategyStoreProofs`, `PageFanoutProofs`, `EvaluationPoolProofs`, `UniversePipelineProofs` | the theorems about these components; `EvaluationPoolProofs` is about `EvaluationPlan` too |
| `Induction` | lemmas by induction for those proofs: recursions, orders, sorts and folds over any data, and the lemmas about `Lists` |

A definition headed "Slip:" is a plausible mistake in the code. No specification
uses it; it stands beside the definition it could replace, to show that the
properties notice.

### BackfillPipeline

Each goroutine has a place variable; an action is what the goroutine does between
two points where another one can be noticed.

| Code (`service/daily/service.go`) | Model |
|---|---|
| the calling goroutine, 334-482 | `main`: `call`, `send`, `wait`, `drain` (or `drainFirst` after an abandoned page 1), `returned`; `batch`, `batchDone` for a `BatchFetcher` |
| `jobs`, `chunks` (unbuffered) | no variable: a send and its receive are one step (`TakeJob`, `HandPage`, `HandFirst`); closing is `disp = "closed"` and `chunksClosed` |
| `select` on a channel and `ctx.Done()` | two actions (`HandPage`/`AbandonPage`, `HandFirst`/`AbandonFirst`, `TakeJob`/`CloseJobs`) |
| `ctx`, `pipelineCtx`, `cancel()` | `parentDone`, `pipeDone`; the writer sees only `parentDone` |
| `fetchErrs`, a channel with one slot | `fetchErr` |
| the writer's `summary` | `summaryErr`, and `tally`, how often each page was added |
| recording an error, then `cancel()` | two steps (`FetchPageFails`, `CancelPipeline`; `UpsertPageFails`, `WriterCancels`): another goroutine may run between them |
| the store | `ledger`: of each page `absent`, `partial` or `stored` |

A failed upsert leaves what both stores allow: SQL rolls back (or only the answer to the
commit is lost), MongoDB keeps the bars already written. `Restart` is a killed process
or a finished one, followed by the same command: only `ledger` survives. Request and
upsert errors and cancellation may come at any time; retries inside a provider client
are part of the request. The progress line, dates and row counts are left out.

What this shows besides the properties: `collectRange` returns no error when the caller's
context is cancelled while no request is in flight (service.go:450-481): the dispatcher stops, no
error is recorded, and nobody looks at `ctx.Err()`. The command line passes
`context.Background()`, so that only other callers could see it; `CompleteOnSuccess` is
therefore about calls that are not cancelled.

### BacktestEngine

One action per pass of the loops of `Engine.Run`.

| Code (`packages/backtest`) | Model |
|---|---|
| `stream.Next`, `activeSymbolsAt` | `NextFrame`: any bar for each symbol, any list of active symbols |
| pending loop, engine.go:220-257 | `DeferPending` (no bar, no-trade bar), `RefusePending`, `FillPending`, from `queue` to `kept` |
| `evaluateSignals`, universe removal, `Size`, `Review`, `cancelPendingOnRebalance`, `appendNewPendingOrders` | `Decide`, through `Signals`, `Removals`, `Sized`, `Approved`, `NotReplaced`, `WithNew` |
| the `same_close` loop, 274-306 | phase `place`: `MissClose`, `FillClose` |
| the end of the stream, 326-334 | `EndOfFeed` |
| `barExecutionModel.Execute` | `Execute`, for a bar that trades |
| `portfolio.apply` | `Apply` |
| execution events | `owed`: announced orders minus reported ends |

Rules and indicators are an input: any signal the engine could ask for; `BacktestRules` is
about them. A bar is one
price, the most units that can trade, and whether it reaches the limit or stop of the order.
The order types `limit`, `stop`, `stop_limit` and `trailing_stop` differ from `market` only
in that they may not be reached, and the fills `next_close` and `intrabar_ohlc` from
`next_open` only in the price they read. Costs are a fixed fee per fill; slippage only
decides whether an ATR order is ready. Amounts are whole numbers. A snapshot may list a symbol
twice; its rule then speaks twice. Lots, ticks, metrics,
trailing peaks and the texts of events are left out; stream errors and a cancelled
context end the run with an error and no result, and are left out too.

What this shows besides the properties:

- a fixed fee may be more than a sale brings. `portfolio.apply` looks at the cash before a buy
  only (portfolio.go:202), so that the cash of such a plan can turn negative. `OnlySalesOwe` says of all plans that
  a debt can come from nowhere else. That the cash of a plan never turns negative is so only of plans whose fee is
  never more than one unit brings (`FeesCovered`): `BacktestProofs` states it with that condition in the property
  (`CashNeverNegative`) and proves it;
- `max_positions` is compared with the positions held, not with those that orders approved in
  the same pass will open (portfolio.go:303), so that several entries of one frame pass it together.

### BacktestFeed and BacktestRules

The way of a bar from the store to a signal, in one sequence of steps. `BacktestFeed` leads it into the
series of its symbol; there the engine takes its turn with `Turn`, which leaves the feed alone. `BacktestRules`
puts indicators, rules and positions beside it: each of its actions is one of `BacktestFeed` and what
it does to them.

| Code (`packages/backtest`, `service/backtest/feed.go`) | Model |
|---|---|
| `dailyBarFeed.Open`, `NewTimeframeStream` | `OpenFeed`, once the strategy is accepted; `DeliverDaily` or `Absorb` |
| `dailyBarCursorFrameStream.Next`, `takeNextAllowed`, row by row | `SkipRow`, `JoinRow`, `CursorFails`, `FrameClosed`; the row held back is the head of `rows` |
| `resamplingBarStream.Next`, `barAggregate` | `Absorb` with `Merged`, `Flush`, `Finish` |
| `appendFrameBars`, `Bar.validate` | `AppendBars`, with the indicators `AppendFrame`; `ValidBar` |
| `Compile` and its validations | `Compile`: `Normalized`, `ValidStrategy`, `ValidRule`, `ValidValue`, `ValidIndicator` |
| the `Add` of each indicator runtime (rolling.go) | `AddBar` and the operators ending in `Add` |
| `Calculate` of sma, rsi and the Donchian channel (registry.go) | `BatchSma`, `BatchRsi`, `BatchExtreme` |
| `valueAt`, `timeframeValueAt`, cross-sectional ranks | `ValueAt`, `TimeframeValueAt`, `Peers`, `Standing` |
| the rules of rule.go | `Judged` and the operators it names; an error is the verdict `fault` |
| `evaluateSignals` | `Decide`, `Intent` |
| order, review and fill | `Settle`: any of the signals is filled with one unit at the close. What really becomes of them is in `BacktestEngine`; here it only has to bring about all kinds of positions |

Numbers are exact fractions where the code has float64, so what is shown is shown up to rounding.
A store may hold a day of one instrument from several providers; the rows come by date, symbol and
provider (read_repository.go:281). The engine's check that frames get later (engine.go:202) is left out, since
the feed gives it no other: `Offered` in `BacktestProofs` says that a frame is later than the series.
Left out: `bollinger_upper`, `bollinger_lower`, `zscore` and `correlation`, which need square
roots; the price fields `traded_amount`, `market_cap` and `nav`, which are carried like
`volume`; timeframes within the day, which no feed brings; `MemoryFeed`; the reason texts of orders.
What this shows besides the properties:

- of a day's rows of several providers the last one by the name of the provider silently wins (feed.go:98);
- `not` turns the "no" of a comparison with an indicator that still warms up into a "yes";
- positions, portfolio values and ranks are always the present ones: a look back finds no value
  for them, and `for_n_bars` over such a rule never matches beyond one bar;
- the adjusted close of a resampled bar stays that of its first day, or becomes the close when
  that one is 0 (resample.go has no line for it);
- a count below its least value is found only when the rule is evaluated, and ends the run;
- over a daily feed a value with `timeframe: 1w` never exists, since the series holds daily
  bars alone.

### PageFanout

`datago-etp` and `datago-stock-price` hold the same code; the lines are those of
`datago-etp`.

| Code (`clients/datago-etp/client.go`) | Model |
|---|---|
| the calling goroutine, 190-247 and 304-324 | `main`: `first`, `rest` (no workers), `collect`, `returned` |
| `fetchPage`, `fetchPageOnce`, `sleepBeforeRetry` | `FetchPage` of a fetcher; fetcher 0 is the caller, the others are workers |
| `jobs`, `results` (unbuffered) | no variable: `TakeJob`; `HandPage` and `HandError`, where the collector's record of the first error and its `cancel()` are part of the step, since nobody reaches the collector in between |
| `workerCtx`, the caller's `ctx` | `workerDone`, `parentDone`; the caller's own requests see only the latter |
| the check for missing pages, 316-323 | `Conclude` |

How long a back-off lasts is left out: the timer fires at some time, or the context
ends the wait first. The service puts as many rows on a page as it says, or as
many as it was asked for when it says nothing. Where the backfill can report success
after a cancel, this pipeline cannot: it looks for the missing pages.

### StrategyStore

One action per access to the database; between two of them the other calls, of this
process or another, take theirs, and a call may end before any of them (`Fail`).

| Code (`service/strategy`, `storage/strategy`) | Model |
|---|---|
| `Create`, `Upsert`, `Update`, as far as their read | `Create`, `Upsert`, `Update`: they carry the version number away from it |
| SQL `CreateStrategyWithVersion`, `AddStrategyVersion`, `CreateScreenRun`: one transaction each | what it reads, and its commit: `LoadStrategy`, `CommitVersion`; a commit is all or nothing |
| MongoDB `AddStrategyVersion` | `LoadStrategy` takes the whole document along, `ReplaceDocument` writes it back if the revision is still the one read |
| MongoDB `CreateScreenRun` | `CreateScreenRun`, then `InsertItem` for each row |
| `Delete` | `ArchiveStrategy` |
| `executeStrategyVersion` | what `Executed` says of a run: the engine it read with the version |
| unique indexes | the guards `versions = <<>>` and that of `CommitVersion` |

The refinement to `StrategyPromise` forgets backends, ids, numbers and calls.
In MongoDB the number of a version comes from a read before the one that is
guarded by the revision. Two callers may therefore be told that they wrote the
same number: both read version n, the first replaces the document, the second loads
it again and adds its own n+1. `NumberedInOrder` is stated for SQL alone, where the
unique index refuses the second; no document of the repository promises it for MongoDB.
Aliases of runs, the text of errors and listing are left out.

### EvaluationPlan and EvaluationPool

`EvaluationPlan` has no state: a document with its run is a record, and its operators say
which plans it may become (a random search may become several) and what is made of results.

| Code | Model |
|---|---|
| `evaluationPeriods`, `buildWalkForwardSteps` (`packages/backtest/evaluation.go`) | `EvaluationPeriods`, `WalkForwardSteps` over numbered days; `AddDuration` is `time.AddDate`, with days that run on into the next month |
| `parameterGrid`, the search optimizers | `ParameterGrid`, `SearchedSets` |
| `evaluationWithRequiredMetricDependencies`, `resolveMetricSelection` | `MetricsOf`, `Selected`, `ValidSelection` |
| `CompileEvaluation` | `Drafts`, then `Compiles`; no draft, or one that does not compile, is an error |
| `EvaluateConstraints`, `RankEvaluationResults`, `applyRanks`, `BuildRegimeSplit` | `PassesConstraints`, `Ranking`, `WithRanks`, `RegimeSplit` |
| `ValidateEvaluation`, the beginning of `RunEvaluation` (`service/backtest/service.go`) | `Compile` |
| `runEvaluationCases` | `main` at `offer` and `wait`; `TakeCase`, `CloseJobs`, `ConcludePool` |
| the worker closure | `at`, `job`; `FinishCase`, `FailCase`, `LeavePool` |
| `setError` under its mutex | `SetError` |
| `runWalkForward` | stages from 1 on: a train pool, `UseResults`, `RunTestCase` |
| `SaveEvaluation` | `Save` |

A choice between rules of which several may apply (a preset, a mode, a comparison) is written
as IF and ELSE IF in the order of the code: where the guards of a CASE overlap, TLA+ does not say
which arm is meant, and TLC only happens to take the first.

A backtest is one step with any outcome: any value for each metric that something depends on, and any
of its tags. `truth` remembers what each case came to, apart from what the code keeps.
A case is its number in the plan. Its id ends in that number, unpadded, and ids are compared as strings:
`IdBefore` does the same with numbers, brought to the same length by `Tens`, and `MCEvaluationPool` compares it
with a comparison digit by digit (`IdsCompareAsStrings`). There are no leap years, durations are not negative (`RequestAssumption`), search ranges are whole numbers, and of
the paths a parameter may have the model knows three. A metric and a limit are whole numbers.
The robustness report, averages of the split, and the commands that read saved evaluations
are left out.

What this shows besides the properties:

- cases that tie are not ranked in the order of the plan: from ten cases on, `case-10` goes before
  `case-2` (evaluation.go:277, 755, 975);
- the metrics a run asks for (`report.metrics`) have no effect in an evaluation: the objective is always
  added to the selection of the evaluation, which is then not empty and takes their place
  (evaluation.go:1266, 1306);
- windows of months are not monotone at the end of a month: a walk-forward from
  31 December with two months of training and one of test, and no step, has tests that overlap,
  and an `expanding` end of 31 January goes on with 3 March;
- a negative step moves the window back and the loop never ends;
- an `order` that is neither `asc` nor `desc` is found only when all cases have run;
- `RankEvaluation` ranks stored cases that failed their constraints too, and always
  greatest first, where docs/features/backtester/evaluation/README.md:70 speaks of passing cases only;
- the average objective of a regime counts cases that failed their constraints as 0;
- out-of-sample degradation compares the train value of `select.objective` with the test value of
  `ranking.objective`, which may be different metrics.

### KisReads

| Code (`providers/kis`, `storage/providerauth`) | Model |
|---|---|
| `ensureAccessToken` under `tokenMu` | `holder`, `issued`; `Acquire`, `GetCached`, `AskToken`, `PutToken` |
| the token cache other processes share | `cache`, `OtherPuts` |
| `reserveDelay`, `Wait` | `tokens`, `elapsed`; `Reserve`, `Wake` |
| `withReadRetry`, `retryDelay` | `attempt`, `wake`; `Answer`, `RateLimited`, `Retry`, `RetryDelay` |
| a killed process, and the next one | `Restart`: only `cache` survives |

Time is a clock of ticks. The code computes in floats and rounds a wait down to
nanoseconds (a wait under 1 ns is none, rate_limit.go:141); the model is exact. The
commands read one after another today; the provider has its mutexes for callers that
do not, and the model has two. Each process has a bucket of its own, so two
processes together may be twice as fast: `RateBound` is about one process.
The check against the expiry (docs/providers/kis/README.md:140-143) is made once in a
process: `tokenIssued` is never reset, so `FreshToken` is about the time the
buffer covers and says nothing of a process that lives longer.

### DailyBarStore

| Code | Model |
|---|---|
| `Ensure` (`service/daily`) | `Ensure` reads, `FetchDate` and `StoreDate` take turns for each missing date, `AnswerEnsure` reads again |
| `Sync`, for the dates it asks for | `Sync`, `StoreSync` |
| `UpsertDailyBars` | `Upserts`: the bars, and their extensions written again without the promoted keys |
| `Runner.Apply` (`migration`) | `Migrate`, `LookUp`, `Record` around each migration |
| the two executors (`storage/migration`) | `Copy`; `DeletePromoted`, `DropIndex` |
| a killed process, a failed step, a cancelled context | `End`, before any step |

Two commands run at the same time, of one process or two. A bar is the number of its
edition, so that a correction by the source, and an older edition written over a newer one,
are visible. That the latter happens (a `Sync` that read before and writes after a
correction; a copy that runs again after a crash before its record) contradicts no
document, and `EnsureLeavesNoHole` asks only that there is a bar.

### UniversePipeline

| Code | Model |
|---|---|
| `CompilePipelineSpec` and its validation; `compileScreenRun` | `Compile`, by `Compilable`; `ScreenPlan` |
| `Runner.Explain` (`service/universe`) | `Explain`: `Loaded` is what its queries bring, `SelectionDates` the dates |
| `executeUniversePipeline` | `RunStep` or `FailStep` for each step, then `TakeSnapshot` |
| the selectors | `Source`, `Transform`, `Keeps`, `Ranked`, `Limited`, `Debugged`, `Outcomes` |
| a range over a Go map | the set of all results it may have; where the code sorts afterwards they are one |
| `slices.SortFunc` | `SortFunc` (`Lists`), the insertion sort it is for up to 12 elements, since not every comparison here is an order; a larger sort may leave rows that compare equal in another order, but in the same one every time |
| `activeSymbolsAt` (`packages/backtest`) | `ActiveAt` |

A row has one price field and one computed field; the market is folded into the security
type. Type and date are strings in the code, which count as 0 where a number is read
(`Number`) and are an error as a metric of `rank.score`. Percentages are exact fractions, floats are whole
numbers, so that the sum of `rank.weighted`, which the code takes in the order of a Go map (universe.go:1063), has no
rounding that could depend on that order, and a division by a
price is exact because `Scale` is a multiple of all prices. A NaN is kept, since it
compares equal to every number and spoils every sum. Negative numbers are left out, with them negative weights of a
rank and a negative count, with which the code panics on a slice (`TypedStep`). `join_metadata` and `normalize_fields` are left out (the
service never fills the metadata), as are combine steps inside combine steps.
What this shows besides the properties:

- a screen with `from` set selects as of `from`, although its `as_of` is what is compiled and
  reported (`universeSelectionDates` prefers the context's `From`);
- daily-bar queries for all types and for one type both stay (only equal ones are dropped),
  and the bars of that type then count twice in windows and in `has_daily_bars`;
- `rankScore` keeps the components of a row by field, so that of two metrics of one field the
  last gives its component to both; `ScoreIsPercentile` is about metrics of different fields, over rows without a NaN;
- `rank.group_top_n` walks its groups in the order of a Go map before it sorts by symbol, type and
  date, and rows of one symbol, type and date may be of two groups;
- `filter.listing_age` looks for the first bar among all that are loaded, not among those that are
  closed (universe.go:827): with `min_days` 0 it keeps an instrument that has its first bar on the
  selection date, though only closed data may be used (packages/backtest/docs/universe/README.md:523). With
  `OnlyThePast` for `SelectsFromThePast` TLC finds it;
- `source.instrument_master` leaves its rows in the order of a Go map (universe.go:573), and a rank or
  limit keeps it, so that a limit after it selects other instruments in another run, though the same
  input must give the same result (README.md:149 there). With `SameResult` for `SameSelection` TLC finds it;
- lookbacks are loaded in calendar days, windows count bars, so that a window may find
  too few although the store has them;
- a strategy whose pipeline has `source.screen_strategy` of itself is executed without end:
  nothing looks for a cycle (`loadExternalSources`). The model takes those rows as given.

## The runs

| Run | Instance | What it shows |
|---|---|---|
| `backfill_pipeline` | 0..4 rows in pages of any size, 1-2 workers, 2 calls | all properties of the pipeline, the refinement, termination |
| `backtest_engine` | 1 symbol, 5 frames, 38 plans, two of them with a fee no sale brings, 7 kinds of bar; and 2 symbols, 4 frames, 4 plans | order life under every policy; competition for cash, rebalancing, liquidation, repeated symbols |
| `page_fanout` | 0..4 rows in pages of any size, 1-2 workers, 2 attempts | which rows a successful call brings, which error is reported, retries, termination |
| `strategy_store` | 2 clients, both backends, 3 versions, 1 run of up to 2 rows | no lost version, the refinement, whole runs |
| `evaluation_pool` | 2210 documents that are validated; 7 that are run, with up to 3 cases, 3 workers and 2 walk-forward steps; 2 of ten cases | tests after their training, every metric computed; ranks, choices and splits of the results, ties by the ids as strings, the first error, termination |
| `kis_reads` | 2 readers, bucket of 2, 2 attempts, tokens of 3 ticks, restarts | the rate over any stretch, one token request, fresh tokens, no reader starves |
| `daily_bar_store` | 2 clients, 2 dates, 2 editions | a recorded migration is done, and stays so; an answer without holes |
| `backtest_rules` | 28 indicators over all histories of 5 bars of 4 shapes; days, weeks and months of 2 symbols, one with 2 providers, and a benchmark over 972 histories; 9 strategies over 162 histories of 5 days; 23 faulty strategies | no bar lost between store and engine, indicators as defined, look-backs as it was |
| `resample_no_trade` | the same | **violated**: a day without trade ends a weekly run |
| `universe` | 3 instruments of 2 symbols and 2 types, 4 days, 27 pipelines, 5 schedules, 216 histories | no look-ahead, reproducible selections, combine steps as sets, percentile scores, fresh snapshots |
| `universe_intersect` | the same histories, daily rows | **violated**: `combine.intersect` counts rows, not pipelines |
| `backtest_twin` | 2 symbols, 4 frames, two engines | **violated**: the same input gives trades in another order |

The bounds. Two workers are the fewest that race for a page and cancel each other. Four
pages give each of them a page after page 1 and leave one with the dispatcher, so
that every goroutine can hold a page when an error or a cancel comes; two attempts are the
fewest with a retry to interrupt. Two calls are the
fewest that resume over an older store. Five frames are enough to order, fill
partly, carry, expire, sell and order again; two symbols are the fewest that compete
for cash. Two clients of a store are the fewest whose reads and writes interleave, three
versions the fewest with a stale document of which something is lost, two rows
the fewest that leave a run half stored. Three cases for two workers leave
one on offer when the first error comes, and three values make ties, better ones and ones that fail. Ten
cases are the fewest whose ids are not in the order of their numbers; of those (`Bounds` in `MCEvaluationPool`) at most
two come to anything but the usual, and none fails or is cancelled, since it is ties that they are there for:
errors, cancellation and termination are for the other documents. The
documents begin on the first and the last day of a January and at the end of November and have
lengths in days, months and years, so that windows cross months of all lengths and a new year. Two readers with three
reads and two attempts send more requests than the bucket holds; six ticks are
three times its period, so that it is emptied and refilled within a window. Five
bars let every indicator of window 2 leave its warm-up, slide, and smooth at least once (an
`adx` of window 2 begins at its fourth bar), and five days make three weeks and two months, one of
them open at the end; four shapes of bars give rises, falls, gaps and a day without trade.
Of two symbols each misses some of the days, so that frames and ranks are partial.
Three instruments are the
fewest with two of one symbol and two of one type; four days make two weeks and two months
with different bounds, and the windows of two or three bars that some instrument lacks.

Fairness. `FairSpec` has weak fairness for the calling goroutine, the dispatcher, each
worker and the writer: Go runs every goroutine that can run, and a request or an upsert
ends, well or badly (the HTTP clients have timeouts). `PageFanout` assumes the same of
its goroutines, and that a back-off timer fires; `EvaluationPool`, that a backtest ends;
`KisReads`, that time passes and that KIS and the cache answer. The limiter is not
first come, first served: that no reader waits for ever rests on there being finitely
many reads (`MaxReads`), as there are in a command. Nobody has to cancel, to fail
or to repeat a command. Weak fairness suffices since a goroutine at a select stays
enabled until it moves or its partner is gone.

What the properties of the passing runs say:

- `CompleteOnSuccess`, `SummaryIsDurable`, `RootCause`: a successful, uncancelled call has
  stored and counted every page exactly once; totals never count what is not
  stored; the error reported is the one that stopped the pipeline.
- `NoSendAfterClose`, `QuietAfterReturn`, `EveryoneStops`: no panic on a closed channel,
  no work behind the caller's back, no goroutine left for ever. The dispatcher may
  still be on its way out when the call has returned.
- `KeepsPromise`: refinement of `BackfillPromise`; among others no page is written after the
  first failed write.
- `PageFanout`: `EveryRowOnce` (a successful call brings each row once and in order, and
  no worker's dropped page makes it short), `RootCause` (unless the
  caller cancelled, the error is the refusal or the last failed attempt of some page, not
  a sibling's interruption), `EveryoneStops`.
- `StrategyStore`: `NoVersionLost` (what a caller was told is stored stays, whoever writes
  a stale document), `NumberedInOrder`, `EngineOfActive` (strategy and active version are
  of the same engine), `ReturnedRunsAreWhole`, and `KeepsPromise`, the refinement.
- `EvaluationPool`: `TestsAreUnseen` (a test begins the day after its training, and its parameters are those
  of a train case), `EveryMetricRead` (no ranking and no constraint reads a metric that the
  case does not compute), `ChosenByTraining` and `ReportFitsCases` (walk-forward choices, ranks and the
  split by regime are those of what the cases came to, in whatever order), `RootCause`, `EveryoneStops`.
- `KisReads`: `RateBound`, `NoTokenTwice`, `FreshToken`, `EveryReadEnds`.
- `DailyBarStore`: `RecordedIsDone` and `EnsureLeavesNoHole`.
- `BacktestRules`: `FramesAreWhole`, of `BacktestFeed` (each series is, bar for bar, that of the whole days, weeks or
  months of the store, and complete at the end), `StreamingIsBatch` (every indicator value is
  the one its textbook definition gives over all bars so far, and missing exactly as long as that is),
  `HistoryIsAsItWas` (`for_n_bars`, `bars_since` and `cooldown` agree with what their child said
  when the bars they look back at were new).
- `UniversePipeline`: `SelectsFromThePast` (with the bars of the date and after it taken out of
  the store the selection is the same; but for the plans of `CountsToday`), `SameSelection` (the
  same data give the same selection; but for the plans of `Lucky`), `CombinesAsSets`,
  `ScoreIsPercentile`, `UniverseIsFresh`.
- `OnlySalesOwe`, `NoOrderVanishes`, `OneOrderPerSide`, `NoLookahead`: see their comments in `BacktestEngine`. Those that name
  `next_open` do not hold with `same_close`: there an order on a no-trade bar is
  reported as deferred and dropped, and the rest of a partly filled order joins
  the pending ones without the check for a second order of its side.

## The findings

1. Removed symbols are liquidated in Go map order (engine.go:678), so the list of trades and
   with it the result hash may differ between runs over the same data (`backtest_twin`).
2. `combine.intersect` counts rows (universe.go:1231): over daily rows it keeps an instrument
   that one sub-pipeline has twice, and drops one that both have twice (`universe_intersect`).
3. A day without trade has open, high and low 0. In a week or month it takes the low, and as
   the first day the open, of the whole bar to 0 (resample.go:122-132); the bar is called `ok`, and the
   engine ends the run at it, although the daily run over the same bars succeeds
   (`resample_no_trade`).

## The proofs

`DailyProofs` proves about `BackfillPipeline`, for every `MaxRows`, `MaxWorkers` and `MaxCalls` that satisfy
`BackfillAssumption`:

| Theorem | Statement |
|---|---|
| `TypeCorrect` | `Spec => []TypeOK` |
| `Invariance` | `Spec => []IInv` |
| `Complete`, `Cause`, `Durable`, `NoPanic`, `Quiet` | `CompleteOnSuccess`, `RootCause`, `SummaryIsDurable`, `NoSendAfterClose`, `QuietAfterReturn` |
| `Implements` | `Spec => KeepsPromise` |

None of the safety properties is inductive. `IInv` adds, as named parts, what the code
relies on silently:

- the lifecycle: workers and dispatcher run only while the caller waits at `wg.Wait()`
  (the dispatcher perhaps longer), the writer ends only by an error or a closed
  `chunks`, and `total` is fixed once page 1 has been read;
- the causes: an error in `fetchErr` or in `summaryErr`, or a cancelled caller, stands
  behind every closed `pipelineCtx` and every goroutine that left early;
- custody: each page from 2 to `total` is not yet handed out, with exactly one worker,
  with the writer, or counted; no page is in two places;
- no loss: a page that was handed out and is neither with a goroutine nor counted
  was abandoned, and then somebody has recorded why.

`Complete` follows since an uncancelled return without error rules out every cause, and
custody then leaves every page counted. Each part has its own lemma, with one
step per action. `Implements` maps each action to one of `BackfillPromise` or to a
stutter; the failed upsert, whose trace on the page differs between the
stores, is the case that needs custody.

`KisReadsProofs` proves `TypeCorrect`, `RateKept` (`RateBound`), `OneAsks` (`NoTokenTwice`) and
`TokenIsFresh` (`FreshToken`) for any number of readers, any rate, burst, life and buffer that
satisfy `KisAssumption`, and under `PowersAssumption`, that the doubled delays are natural numbers
(the prover knows nothing of exponentiation). `IInv` adds the token account: tokens in the bucket, those
reserved by sleepers and those spent in the window together never exceed what time has
brought, and only the reader that holds the mutex is between two steps of
`ensureAccessToken`.

`DailyProofs` proves about `DailyBarStore`: `StoreTypeCorrect`, `MigrationsAreDone` (`RecordedIsDone`) and `NoHoles`
(`EnsureLeavesNoHole`) for any clients and dates. The invariant has two halves: what a migration
in progress has already reached stays reached under the upserts of the others, which
write no promoted key; and a bar that was seen, written or skipped is there.

`StrategyStoreProofs` proves `TypeCorrect`, `VersionsStay` (`NoVersionLost`), `NumbersAreInOrder`
(`NumberedInOrder`), `EngineFits` (`EngineOfActive`), `RunsAreWhole` (`ReturnedRunsAreWhole`) and
`Implements` (`Spec => KeepsPromise`). A stale document is harmless because its revision tells how
many writes there were: with equal revisions the document read is the one that is there.

`PageFanoutProofs` proves `TypeCorrect`, `RowsOnce` (`EveryRowOnce`) and `Cause` (`RootCause`) for any number of
rows, workers and attempts. Even the types are not inductive alone: `attempt` stays within
its bound only since a fetcher never waits after its last attempt. The rest of the invariant is
custody again: while nobody stops the workers, each page offered is with the collector or with one of
them; and every cancelled context, refused page and worker that left has its cause, so that a
missing page cannot go with an uncancelled success.

`BacktestProofs` proves about `BacktestEngine`: `TypeCorrect` (`TypeOK`), `OrdersAccounted`
(`NoOrderVanishes`), `OneEach` (`OneOrderPerSide`) and the action properties `BuysArePaid` (`OnlySalesOwe`) and
`PastOnly` (`NoLookahead`) for any number of symbols and frames, any plans, fees and bars, under
`BacktestAssumption`. `NoDebt` (`CashNeverNegative`) is a consequence for the plans whose fees are covered, which no run checks
beside `OnlySalesOwe`. Only an `Apply` moves the cash (`OnlyFillsPay`), and one that lowers it below 0 is no buy. No property is
inductive alone: which lists of orders are empty depends on the pass (`Passes`), a key is unique among
the orders tried, kept and pending together (`Unique`), those that are tried were made in an earlier frame
(`Waiting`), and `owed` counts the three lists (`Tally`). The lists are cut with `Picked`, which is
written with `FlattenSeq`, and equity is a recursive function, since `SelectSeq` cannot be expanded
by the prover and the order in which `FoldSet` takes its elements is not known to it.

`BacktestProofs` proves about `BacktestFeed`: `FeedInvariance` (`FeedSpec => []FeedIInv`) and `FramesWhole`
(`FramesAreWhole`), for any rows of any number of symbols and providers, any weeks and months, and every
way the engine may take its turn, under `FeedAssumption`: dates come in order, prices are whole
numbers, and weeks and months go up with the dates. `FeedIInv` follows each row through the two places that hold
something back.

- The rows read (`Taken`) are still in the cursor or have left it (`Passed`), and the cursor is of one day, the last one read
  (`Framing`): so a frame is closed only when all rows of its day are in it (`ClosedFrame`).
- An aggregate is the bar of exactly those of its days that have left the cursor (`Building`); a day added behind them
  keeps it so (`OneMoreDay`, with the sum of the volumes from `TotalOfChanged`).
- A waiting frame is of all days of its period (`Offered`): when it is handed out, the frame held back is of a later period or
  the store is at its end.
- A row that left the cursor is in the series, in the aggregate or in the frame that waits, and one that is not in the series is
  later than all of it (`InSeries`). At the end the cursor and the aggregates are empty, and nothing can be missing.

TLC has checked the parts of `FeedIInv` on the 972 histories of `backtest_rules` first. Each action of `BacktestRules` has one of
`BacktestFeed` as a conjunct, so that its runs are runs of `BacktestFeed`; this last step is read off and not proved,
since `BacktestRules` has recursive operators.

`EvaluationPoolProofs` proves `TestsStayUnseen` (`TestsAreUnseen`), `MetricsAreComputed` (`EveryMetricRead`), `CauseIsRoot`
(`RootCause`), `BestIsChosen` (`ChosenByTraining`) and `ReportIsTrue` (`ReportFitsCases`): all safety
properties of an evaluation, for any requests that satisfy `RequestAssumption`, any number of cases,
workers, steps and values.

- The first two are about what a document may become. The loops over windows end because each
  `AddDuration` by something that is not nothing moves on (`DurationGoesOn`: months have different
  lengths, and the days run over into the next one); periods, steps, the grid of parameters and the cases
  are then followed from list to list (`StepsAreUnseen`, `RollingFollows`, `ParameterSetsAreList`, `CasesAreList`).
- The others need an invariant of the pool. A slot holds what its case came to (`Recorded`), and of each case that was
  offered there is a record, an error, or a worker that still has it (`Pool`). When the pool is
  concluded without an error nobody runs and nothing is left to offer, so all slots are recorded (`PoolIsComplete`);
  only then is the ranking that of the truth (`CompleteIsRankable`). Without this part an empty slot could be
  taken for a case that failed its constraints.
- What was chosen and what was reported stay true because later pools write under other stages (`Choosing`, `Reporting`,
  `Stages`).
- That ids compared as strings are in a strict order (`IdsInOrder`) makes ties strict too, so that every passing case has a
  place of its own (`PlaceOf`, `PlacesInOrder`) and a ranking is sorted and leaves nobody out (`RankingSorts`);
  `BestOfTag` says that the fold in `RegimeSplit` finds the best case of a tag.

`UniversePipelineProofs` proves, for any listings, days, prices, calendars, histories and plans that satisfy
`UniverseAssumption` and `PlanAssumption`:

| Theorem | Statement |
|---|---|
| `Inductive`, `TypeCorrect` | `Spec => []IInv`, `Spec => []TypeOK` |
| `Fresh` | `Spec => []UniverseIsFresh` |
| `FromThePast` | `Spec => []SelectsFromThePast` |
| `AsSets` | `Spec => []CombinesAsSets` |
| `ScoresArePercentiles` | `Spec => []ScoreIsPercentile` |

`IInv` adds to the types what ties the variables of a run together: the data are what the plan loads from the store
(`Known`); the dates of the snapshots taken and the dates still to come are together the schedule (`Scheduled`); the
rows are what the steps taken so far may have made of them (`Reached`), and every snapshot is what the whole
pipeline may select on its date (`Selected`). `Started` says that nothing of this exists before the run does.

- That the rows stay rows is most of the work of `TypeCorrect`: each selector, sort, merge and rank is followed on lists
  of any length (`BasicType`, `OutcomesType`), also with comparisons that a NaN spoils. A pipeline is a recursion
  over its steps, with sets of outcomes (`StepsAre`).
- `Fresh` is about the dates alone: the first days of the periods are in order and every day has that of its own
  period among them (`FirstOfIs`), so the last one not after a bar is it (`PeriodInForce`).
- `FromThePast` compares two stores that agree before a date. `closedBars` commutes with the way the bars are
  loaded, query by query and day by day (`ClosedOfLoaded`), and no step looks at the data but through it
  (`SameBasic`) - except `filter.listing_age`, where this argument breaks down (`CountsToday`).
- `AsSets`: a merge has one row for each key (`MergedIs`). For `combine.intersect`, lists of at most one row
  each make as many rows as there are lists only if none is empty (`FlattenOfSingles`); in
  finding 2 a list has two.
- `ScoresArePercentiles`: an insertion sort with an order by three numbers leaves the first of them in order (`LexicalSort`);
  in a sorted list, how many are less than an element and how many equal it is told by the ends of its run
  (`CountSorted`), and counting does not depend on the order of the rows (`CountInOrder`).

`Induction` holds what these proofs need of data. The induction theorems of the library have a predicate as a
parameter, which the provers cannot instantiate; here the predicate is a set, the step of a recursion is a function, and
induction is the well-foundedness of < on Nat (`SetInduction`). From it follow that recursive functions, folds over finite
sets and loops that go forward exist and what values they have (`RecursionExists`, `SetRecursionExists`, `ChainExists`), that
finite sets can be sorted by a strict order (`SortExists`), and what `FlattenSeq` does (`FlattenPrefixes`). About `Lists` it says what a filter of a list, a sum and a sort have: that an insertion
sort orders all its elements by any weak order (`InsertionSorts`), and that filters commute with putting lists together
(`WhereFlatten`).

The assumptions the theorems rest on are those of the modules: `BackfillAssumption`, `KisAssumption` and `PowersAssumption`,
`DailyAssumption`, `StoreAssumption`, `FanoutAssumption`, `BacktestAssumption`, `FeedAssumption`, `PoolAssumption`, `UniverseAssumption` and `PlanAssumption`, which say what a constant is (the last what the parameters of a step are); and one that excludes
something the code accepts: in `RequestAssumption`, that no duration is negative (the loop over windows would never end).

Only model-checked:

- liveness (`EveryoneStops`, `EveryReadEnds`), which is out of the prover's reach;
- `HistoryIsAsItWas` and `StreamingIsBatch` of `BacktestRules`: rules, their values and the greatest common divisor of a
  fraction are recursive operators, which a module with theorems cannot have;
- `SameSelection` of `UniversePipeline`: it would need of every transform, rank and sort that it does the same with the same rows in
  another order, of comparisons that are no orders too.

## Not modelled

Besides the components of status `not_modelled`:

- the token cache: a `Put` may overwrite a newer token of another process;
- `QueryDailyBars` reads bars and their extensions in two statements (read_repository.go:73),
  so that a concurrent upsert may show between them;
- a migration that is applied again after a crash before its record copies over a bar that was
  corrected since (dailybar_v1_to_v2.go:78); the clean-up deletes promoted rows without a look at the column;
- `Ensure` never fetches a stored bar again;
- Postgres under READ COMMITTED may add a version to a strategy that was archived in between.

## What comes next

1. `LazyDatabase`, `ProviderRouter`;
2. `SameSelection`, for the sources and steps that bring each instrument once.
