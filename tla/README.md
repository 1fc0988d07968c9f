# Formal models of the auto-exit engine

TLA+ models, TLC configurations and machine-checked proofs for the TypeScript
engine in `code-and-docs-from-chatgpt/engine-ts` (paths below are relative to
its `src/`, unless they start with `docs/`). The engine trades on the Kalshi
exchange: it exits or builds positions in chunks, watches prices on behalf of
synthetic orders, and runs user-defined workflows. It is one Node process, so
what is hard in it is not threads but everything that happens *between* two
lines of an `async` function: other handlers that run while a call is awaited,
answers that never come, and `kill -9`.

## 1. Inventory

| component | code | state it keeps | operations |
|---|---|---|---|
| Synthetic-order watcher | `watcher.ts`, `watcherJournal.ts`, `watcherDaemon.ts`, `synthetics/invoke.ts` | `synthetics` map (status, evaluator state, parent and child ids) in memory; JSONL journal | `register`, `cancel`, `tick`, `start`/`stop`, `replayFromJournal`, `fireSynthetic`, `invokeFire` |
| Synthetic evaluators | `synthetics/*.ts` | none: pure functions of parameters, persisted evaluator state and book | one evaluator per kind |
| Watcher singleton, account client | `watcherSingleton.ts`, `accountClient.ts` | the process's one watcher | `initWatcher`, `getWatcher`, `getPosition` |
| Exit runner | `exitRunner.ts`, `journal.ts` | filled/submitted/remaining totals, open order; JSONL journal per job | `run`, `runOneTick`, `reconcileOrder`, `resumeFromJournal`, `postTailGtcOrder`, `requestStop` |
| Buy runner | `buyRunner.ts` | as the exit runner | `run`, `resumeFromJournal`, `reconcileOrder` |
| Kalshi client | `kalshiClient.ts`, `retry.ts` | none (the exchange's orders) | `createOrder` (retry, lookup by client order id), `getOrder`, `cancelOrder`, `getRestingOrderCount` |
| Passive / aggressive runners | `passive.ts`, `aggressive.ts` | share totals, level walked to | `runOneTick`, `run` |
| Multi-leg coordinator | `multiLeg.ts` | legs, halted flag, progress | `run`, `runLeg`, `haltAll` |
| Workflow engine | `workflows/engine.ts`, `workflows/journal.ts`, `workflows/predicate.ts`, `workflows/validate.ts` | instances (status, state, variables); JSONL journal | `register`, `handleEvent`, `executeAction`, `cancel`, `replay` |
| Workflow policies | `workflows/policies.ts` | policies, set of applied ones (memory only) | `applyPolicies` |
| Pricing and decisions | `pricing.ts`, `runnerUtils.ts`, `kellySizer.ts`, ... | none | chunk size, price, depth, expected-value models |
| Safety and configuration | `safety.ts`, `config.ts`, `balance.ts` | guard-rail file, realised-loss ledger, balance cache | merge guard-rails, check limits |
| Strategies | `strategies/*.ts`, `limitLadder.ts`, `marketMaking.ts`, ... | open orders of ladders and quotes | one `run` per strategy |
| HTTP server | `server.ts` | the job slot `currentRunner` | `/start`, `/resume`, `/stop`, `/status` |
| Book feed | `backtest/wsRecorder.ts`, `wsClient.ts`, `wsBookTracker.ts` | connection, timers, book per ticker, last sequence number | `start`, `stop`, `onClose`, `checkStaleness`, `apply` |
| Micro harness | `microHarness/*.ts` | journals of trials (what was spent today) | `runTrial`, `runSweep`, `gateTrial` |
| Recordings | `backtest/recorder.ts`, `backtest/multiTickerRecorder.ts`, `backtest/syncAtomic.ts` | a file per ticker and day on the machine with its descriptor, token bucket, polls under way; the local directory, staging and old directories | `poll`, `acquireToken`, `appendSnapshot`, `rotate`, `stopAll`, `syncRecordingsAtomic`, `atomicSwap`, `deleteRemoteOlderThan` |
| Backtests | `backtest/harness.ts`, `backtest/replayClient.ts`, `backtest/fillSimulator.ts`, `backtest/adapters/*.ts` | recorded books and a cursor, simulated orders with their place in the queue, fill log, state of the adapter | `runBacktest`, `advance`, `createOrder`, `cancelOrder`, `tick` of each adapter |
| Alerts | `alerts/*.ts` | last time an alert was sent, per key | `notify`, dedupe |
| CLI, MCP, TUI; edge, portfolio | `cli.ts`, `mcp.ts`, `tui/*`, `edge/*` | none that outlives a call | parsing, rendering, statistics |

How they interact. The command line, the HTTP server and the MCP server build
runners and the watcher and call them directly. The watcher polls: each tick
snapshots its armed synthetics, fetches books and positions, evaluates, and for
a synthetic that fires runs an *exit runner* to its end inside the tick. Runners
place orders through the *Kalshi client*, size them with *pricing*, are limited
by *safety*, and write to a *journal* before and after each order so that a
killed job can be resumed. The multi-leg coordinator runs one runner per leg
concurrently. Workflows react to events with actions that start runners. Several
processes (server, MCP server, commands, watcher daemon) share the files of one
`KEA_HOME`, among them the guard-rails in `safety.json`, and nothing locks them.

Which behaviours are hard, and what makes a component correct:

- *watcher*: an operator may register or cancel while a tick is awaiting a fetch
  or an exit; the process may die between any two journal lines. Correct means:
  nothing that was decided is lost, a synthetic does not sell twice, one leg of
  an OCO or bracket sells, a trailing stop never loosens, a crossed stop
  eventually resolves.
- *exit and buy runner*: a POST that succeeded but whose answer was lost, an
  order that fills while it is being canceled, a crash between intent and
  placement. Correct means: never sell more than the position asked for, and a
  resumed job knows every order it placed.
- *Kalshi client*: a retry of a POST that did arrive. Correct means one live
  order per client order id.
- *passive runner and the strategies on it*: a cancel that fails, a fill during the
  cancel, an order replaced while it fills. Correct means that a strategy sells no
  more than it was asked to, reports what it sold, leaves nothing on the book and ends.
- *multi-leg*: a halt while runners are under way; a leg that throws while nobody has a
  handler on its promise. Correct means that the report is what was traded, and that one
  comes at all.
- *workflow engine*: a cancel during the awaited actions of a transition; replay
  after a crash. Correct means a halted instance stays halted, and replay
  rebuilds what was in memory (which it does not for variables: section 4).
- *server*: two requests for the single job slot.
- *guard-rails*: a process that dies while it replaces the file. Correct means that a
  ticker that was forbidden stays forbidden, for every process.
- *book feed*: messages that are dropped, a socket that closes, a market that falls
  silent. Correct means that a wrong book is noticed and does not last.
- *recordings*: a sync that is killed between the renames of two directories, after earlier syncs
  have deleted files from the machine; recorders of several tickers that share the
  descriptors of one process through midnight. Correct means that nothing recorded is lost,
  and that a line is in the file of its own ticker.
- *backtests*: an adapter that works with what remained before the book advanced and
  filled its orders. Correct means that a simulated order waits for its turn in the queue,
  and that a backtest sells no more than it holds.
- *micro harness*: the operator is asked between the check of the daily cap and the
  line that counts the trial, and the clock is read twice before it. Correct means that the
  trials of a day stay within its cap.

`PROJECT.json` lists each of these hazards with its line and the properties that
cover it.

## 2. Modules

| module | models |
|---|---|
| `SyntheticLifecycle` | the abstract promise: statuses on file follow armed -> fired, fire_failed or canceled |
| `Evaluators` | `synthetics/*.ts`: one operator per evaluator, dispatched by `Evaluate` |
| `Watcher` | `watcher.ts`, `watcherJournal.ts`, `watcherDaemon.ts`, `synthetics/invoke.ts` |
| `MCWatcher` | instances of `Watcher` for TLC |
| `WatcherProofs` | inductive invariant of `Watcher` and the theorems about its journal, sales, outcomes, families and peaks; that it implements `SyntheticLifecycle` |
| `JobJournal` | `journal.ts`: a job's journal, by the folds its readers make of it |
| `Exchange` | external: orders that arrive, are lost, fill, rest and are canceled |
| `ExitRunner` | `exitRunner.ts` against `Exchange`, with `JobJournal` |
| `MCExitRunner` | instances of `ExitRunner` for TLC |
| `ExitRunnerProofs` | inductive invariant of `ExitRunner` and its safety theorems |
| `WorkflowLifecycle` | the abstract promise of the workflow engine: an instance walks along its definition, at most to its cap, and ends |
| `WorkflowTemplates` | `workflows/templates.ts` as data, `predicate.ts` and `matchesEvent` as operators |
| `WorkflowValidation` | `workflows/validate.ts`: which definitions are accepted |
| `Workflow` | `workflows/engine.ts` and `workflows/journal.ts` |
| `MCWorkflow` | instances of `Workflow` for TLC, with definitions that the validation takes and that it refuses |
| `WorkflowProofs` | inductive invariant of `Workflow`, its safety theorems, that what is executed follows the history, and that it implements `WorkflowLifecycle` |
| `Market` | external: the exchange as strategies use it, and the job of one runner |
| `Passive` | `passive.ts`, and `PassiveOutcomes`: all that its callers may rely on |
| `Resting` | `aggressive.ts`, `sIceberg.ts`, `sStealth.ts`, `sPrependThenSweep.ts`, `limitLadder.ts` |
| `Phased` | TWAP, time emergency, scale-out, roll, stop-and-reverse, pre-resolution arbitrage, cash raise: runs of the passive and aggressive runners |
| `MarketMaking` | `sMarketMake.ts` |
| `MultiLeg` | `multiLeg.ts` with `sPair.ts` and `sBasisArb.ts` |
| `Strategies` | one job of any strategy and its market |
| `ReplayClient` | `backtest/replayClient.ts`, `backtest/fillSimulator.ts`: the simulated exchange, as operators on a record |
| `Backtest` | `backtest/harness.ts` and `backtest/adapters/*.ts`, on `ReplayClient` and `Evaluators` |
| `MCStrategies` | one job, or one backtest, for TLC |
| `StrategiesProofs` | inductive invariant of every kind of job, and the safety theorems of the strategies |
| `KalshiClient` | one call of `kalshiClient.ts` with the retries of `retry.ts` |
| `BuyRunner` | `buyRunner.ts` against `Exchange`, with `JobJournal` |
| `BuyProofs` | inductive invariant of `BuyRunner`, and that it buys within its size |
| `BookFeed` | `backtest/wsRecorder.ts`, `wsClient.ts`, `wsBookTracker.ts` |
| `SafetyFile` | `safety.ts`: the file of the guard-rails and its writers |
| `Jobs` | the jobs of all processes, the server's slot, the check of forbidden tickers |
| `Surfaces` | `server.ts`, `mcp.ts`, `cli.ts`: the routes, tools and commands that change `Jobs` |
| `JobsProofs` | invariants of `SafetyFile` and `Jobs`, and that `Surfaces` implements `Jobs` |
| `MicroHarness` | `microHarness/*.ts` and its command |
| `RecordingSync` | `backtest/recorder.ts`, `backtest/syncAtomic.ts` and its command |
| `PollRecorder` | `backtest/multiTickerRecorder.ts` with `backtest/recorder.ts`: timers, bucket, polls and file descriptors |
| `ServicesProofs` | the contract of a client's call, the daily cap of the micro harness, the tracker's book, that no recording is lost and that a line is in its own file |
| `FiniteSums` | lemmas about sums over finite sets, for the proofs |
| `MCServices` | client, buy runner, feed, surfaces, micro harness, sync and recorder, one at a time, for TLC |

### The watcher

JavaScript runs a handler to its next `await` without interruption, so an action
of `Watcher` is one such stretch of code:

| action | code |
|---|---|
| `Register`, `Cancel` | `register`, `cancel`: enabled whenever the event loop is free (`Awaiting`) |
| `TickBegin` | the head of `tick()`: the snapshot of the armed synthetics |
| `FetchBooks`, `FetchFails` | the `Promise.all` of books and positions, resolved or rejected |
| `SkipSibling`, `AutoCancel`, `Judge` | one turn of the loop over the snapshot, up to its `await` or its `continue` |
| `ExitSells`, `HookPlacesNothing`, `HookThrows` | the awaited fire hook: `invokeFire` and the exit it runs |
| `FireDone` | `fireSynthetic` after the hook, with the cascade to parent and sibling |
| `TickEnd` | the end of `tick()`; `start()` then waits for its timer |
| `WriteLine` | one `appendFileSync` of a journal line |
| `Crash`, `Restart` | `kill -9`; `buildDaemon` with `replayFromJournal` |
| `PositionMoves` | trades outside the watcher |

*State.* `status`, `evalState` and `order` are the `synthetics` map; `queue`,
`books`, `flat`, `parentFired` and `firing` the locals of `tick()`; `pc` the
place where it is suspended. The journal file appears as what `replay()` makes of
it (`jStatus`, `jState`, `jOrder`), since `replay()` is a fold over the lines;
`pending` holds the lines that the current stretch has issued and that have not
reached the file. A line is written as a whole. While lines are pending nothing
else runs, but a crash may cut the sequence anywhere.

*Data.* Prices are cents; a book is its top bid on the held side, 0 when empty
(`bid <= trigger` then holds: an empty book fires a stop). A position is held or
not. An exit sells some or all of it, or places nothing. `exits` and `crashes`
are history variables, `MaxCrashes` is the only bound on behaviour.

*`FlatThrows`.* `KalshiClient.getPosition` throws when nothing is held
(`accountClient.ts`); the client of a backtest returns 0. With `FALSE` the model
has every behaviour that it has with `TRUE` and more, because a fetch may fail
for other reasons as well.

*Who calls.* `register` and `cancel` are documented for in-process callers
(`watcherSingleton.ts`: CLI, MCP and HTTP handlers share the daemon's watcher).
At this commit only `kea watch start` calls `initWatcher`; the model takes the
documented contract.

*Kinds.* `stop_loss`, `trailing_stop` and `take_profit` run an exit.
`stop_limit` needs `postLimit`, which the daemon makes throw. `time_stop` and
`step_trail` have no case in `invokeFire`: the hook resolves, nothing is placed,
and the synthetic is recorded as fired.

### The exit runner

An action is again one stretch of code between two awaits:

| action | code |
|---|---|
| `Start` | the constructor and `run()` up to the first lookup of `resumeFromJournal`, for a new job (empty journal) or a resumed one |
| `IntentFound`, `IntentMissed`, `IntentsDone` | phase 1 of `resumeFromJournal`: intents without `order_placed` |
| `ResumeGetOrder`, `ResumeGetOrderFails`, `ResumeDone` | phase 2: orders without `order_reconciled`; then `remaining` is recomputed |
| `Refused`, `Accepted` | risk checks and `preflight()` |
| `Post`, `LoopEnds`, `TickFails` | `runOneTick` up to `createOrder`, its `break_loop` outcomes, its exceptions |
| `PostAnswered`, `PostRests`, `PostFails` | `createOrder` resolves (done, open, resting) or throws |
| `Poll`, `CancelStale`, `LeftStale` | `reconcileOrder`, from the loop or from a resume |
| `TailPost`, `TailSkipped`, `TailDone` | `postTailGtcOrder` |
| `StopRequested`, `Crash` | `stop()`, `kill -9` |
| `Arrive`, `GetLost`, `FillOpen` | the exchange, whether the process lives or not |

*State.* `remaining`, `initial`, `submitted` and `attempts` are the fields of
`status`; `todo`, `cur` and `seen` the locals of the function that is suspended at
`pc`. The journal is the record of what `isFinished`, `pendingIntents`,
`pendingOrders` and `computeFilledTotal` fold out of its lines; a line is an
update of that record. An order has one id for its client order id and its order
id, which name each other at the exchange.

*Data.* Shares are whole; prices are left out; the book is the chunk that
`chooseChunkSize` takes from it. The number of polls is open, so is their
timing. `position` is what the exchange says is held; only this job trades.

*What is given up.* The code does not wait for ever: `createOrder` may throw for an
order that arrived, a lookup may fail and is then taken for "not found", the
cancel of a stale order may fail. When that leaves an order behind that may
still fill, or that has fills nobody credits, the model sets the history variable
`blind`; the accounting properties speak of the time before. `Plain` excludes the
two features that do not survive a crash at all (findings 3 and 4) and a tail
order beside a resting order.

### The workflow engine

| action | code |
|---|---|
| `Register`, `Cancel` | `register`, `cancel` |
| `HandleEvent`, `NextTurn` | `handleEvent`: its snapshot of active instances, then one call of `processInstanceEvent` at a time, up to its first await |
| `PassOver`, `HaltRunaway`, `TakeTransition` | what such a call does: nothing, the cap, or the first transition that matches |
| `CallBack`, `CallbackResolves`, `CallbackRejects`, `NothingToCancel`, `SetsVar` | `executeAction`, up to the awaited callback and after it |
| `Terminate`, `Advance`, `EntryDone` | the rest of `processInstanceEvent` after the awaited actions |

*State.* `inst` and `vars` are the `instances` map, `last` the one field of `meta` that
changes, `calls` the suspended calls of `handleEvent` with their locals. `file` and
`replayedVars` are what `replayFromJournal` returns: the second is set by the line of the
registration and by nothing else, because `appendTransition` is never given the variables
that a `set_var` has changed. `log` keeps the lines of actions, which a replay ignores.
Nothing in the engine loads a replay, so there is no restart to model.

*Who calls.* The specification under `docs/` (`2026-05-05-strategy-composition.md`, 7.4)
says that events are processed "strictly serially per instance". The code has no queue:
it holds if the caller awaits `handleEvent`. `serial` is chosen in `Init`, and both
kinds of caller are in the model. The cap, the ends and the lifecycle hold for both;
`ReplayMatchesMemory` and `ActionsFollowHistory` are stated for a serial caller, because
two overlapping calls may leave the same state by two transitions.

*Data.* A definition is a record of its states, an event has a kind and facts, a guard
is a set of conjunctions of comparisons. What a callback does is left out; it may
reject. A variable that a `set_var` changes lives in memory only.

*Definitions.* `WorkflowValidation` is `validateWorkflow` on the definitions of
`WorkflowTemplates`. `RegisterAssumption` of `MCWorkflow`, which TLC evaluates in every
workflow run, says that it accepts every definition of the run (in `workflow_vars` the eight
templates are among them) and refuses those of `Malformed`, which have one defect each.

### The strategies

`Market` holds the part that all share: the order that the runner follows on each
leg (`live`), the shares of orders that it follows no longer and that may still fill
(`stray`), what really traded (`traded`), and whether an answer about an order was
lost (`lost`, history). `job` is the configuration of the runner and its accounting:
`filled` is what it believes, and the properties compare the two. The market fills,
expires or leaves an order at any time; any awaited call may throw.

| action | code |
|---|---|
| `PassiveTick`, `PassiveGuard`, `PassivePost`, `PassiveFilled`, `PassiveCancel` | `run()` and `runOneTick()`: chunk, limits and cap, post, the timebox, cancel and walk |
| `ReplayDrain` ... `ReplayPost` | `runOneTickBacktest()` |
| `AggressiveRun` | `AggressiveRunner.run` |
| `IcebergPost`, `IcebergCheck`, `IcebergPoll` | slices of `sIceberg.ts` with their polling loop |
| `StealthChunk`, `StealthEnd`, `LadderRung` | chunks of `sStealth.ts`, rungs of `limitLadder.ts` |
| `PrependPost`, `PrependCancel`, `PrependSweep` | the three phases of `sPrependThenSweep.ts` |
| `TwapSlice` ... `CashCount` | one run of a sub-runner, or what follows it, in `sTwap.ts`, `sTimeEmergency.ts`, `s7ScaleOut.ts`, `sRoll.ts`, `sStopAndReverse.ts`, `sPreResolutionArb.ts`, `sCashRaise.ts` |
| `MakerBook`, `MakerRead`, `MakerCapped`, `MakerFlatten`, `MakerQuote`, `MakerStop`, `MakerThrows` | one cycle of `sMarketMake.ts`, an action per awaited call |
| `MultiStart`, `MultiPoll`, `MultiFetch`, `MultiSkew`, `MultiFinish` | the monitoring loop of `multiLeg.ts` |
| `LegEnds`, `LegThrows` | a leg that ends in the background, or throws |

*Composition.* A strategy that runs the passive runner takes one of `PassiveOutcomes`,
the set of all pairs of what a run reports and what it does to the market. That a run
of the passive runner comes to one of them is the property `PassiveContract`, so the
detailed runner is checked once and its callers are checked against its contract. A
sweep is one IOC order that only reduces, hence bounded by `Reducible`.

*Data.* Prices are left out: a passive order has a number of walks left until its
limit, a spread, a drift or a stale quote is a free choice, a ladder's rungs are
ordered numbers. What is kept is sizes, chunks, percentages and their rounding.

*A leg that throws.* `runLeg` rejects the promise of the leg at once, and
`Promise.allSettled` attaches a handler to it only after the loop. In between the loop
awaits, so Node finds a rejection without a handler and ends the process (`pc = "killed"`);
nothing in `src/` installs a handler for that. The two exceptions are `Handled`: the leg was halted and its
promise is settled already, or the loop comes to `allSettled` in the same turn.

### Backtests

`ReplayClient` is a record of book, orders, fills and position, with one operator per
method: `Advanced` is `advance()`, which meets every resting order with the next book, by the
naive model (`AfterSweep`) or by the place in the queue (`AfterQueue`); `Created` and
`Withdrawn` are `createOrder` and `cancelOrder`. `Backtest` has the loop of the harness:
`BookAdvances`, then `StrategyTicks` or `AutoTicks`, until `RecordingEnds`. A tick maps an
adapter and a client to the next ones (`StopLossTick`, `AggressiveTick`,
`PassiveAdapterTick`, `TwapTick`, `WatcherTick`); `Watched` and `Considered` are the auto
adapter's regime. The watcher adapter judges with the operators of `Evaluators`.

*Data.* A side is a function from prices to sizes, and `yes` and `no` are worth `Cents`
together: 4 in the run, 100 in the code. One ticker, sells of `yes`; the walk of the passive
runner is one tick and has no midpoint peg; synthetics auto-cancel; the second look that the
TWAP adapter takes at the book shows the same book. Prices of fills, fees, profits,
fill-or-kill orders and the report are left out.

### The client, the buy runner, the feed

*`KalshiClient`* is one call: `RequestFails` is one failed request, whatever
became of it (`Outcomes`: carried out, not carried out, still under way and carried
out later by `ArrivesLate`), `Lookup` and `LookupFails` are
`findOrderByClientOrderId`, `Answered` is a 2xx. `Shapes` are the numbers that an
answer carries; `FilledCount` is what `parseOrderResponse` makes of them. The
exchange may or may not refuse a second order of the same client order id
(`dedupes`): the code does not say. `doubt` is set when a lookup failed although the
order was there, or a request arrived after its lookup.

*`BuyRunner`* has the actions of a resume (`IntentLookedUp`, `OrderLookedUp`,
`OrdersDone`), of `reconcileOrder` (`Poll`, `OrderReresumed`, `OrderSettles`) and of the
loop (`RiskChecked`, `AskTooHigh`, `BookFails`, `OrderSent`, `OrderCreated`,
`CreateFails`, `LoopEnds`). Unlike the exit runner it polls four times only and resumes
a finished job like any other. `unsure` is set when an order is given up on that may
still fill: a failed lookup, or four polls of an order that is still matched.

*`BookFeed`* has one ticker and one level of its book. `Start`, `StopFeed`,
`Connected`, `ConnectFails`, `Disconnects` and `TimerFires` are the connection of
`wsRecorder.ts`; `Receives` is one message through `wsClient.ts` and
`wsBookTracker.ts`; `Stale` is `checkStaleness`; `Emit` is the interval that writes.
The exchange numbers its messages, and may drop a delta but not a snapshot.

### Processes, jobs and guard-rails

`SafetyFile` models `safety.json` by what the names `safety.json` and
`safety.json.tmp` refer to, because all processes write the same temporary name. A
writer reads and decides (`Begins`), opens (`Opens`), writes (`Writes`), renames
(`Renames`) and returns (`Audits`); it may die between any two of these, and two
writers may be at it at once. `promised` are the tickers whose addition was
acknowledged.

`Jobs` adds the processes and what they run. `Asked` is `/start` or `/resume` up to the
await of its body, `Launched` what follows it, `StopAsked` is `/stop`; `Started` is a job
beside the slot; `Admits` is the check of forbidden tickers, which the exit and passive
runners make and no other runner. A job is `stuck` when the first journal lines
fail after its status was set.

`Surfaces` is tables of those routes, tools and commands that change jobs or guard-rails,
each with the one word for what it does to them; `Serves` gives the words their meaning.
The other requests only read, write files that no job reads, or ask for a watcher, a
workflow engine or a policy engine, which no process that serves requests ever makes: they
leave the modelled state alone and have no entry.

`MicroHarness` has an action for each reading of the clock and of the files.
`TrialStarted` takes `startedAt`, by which the trial will be counted; `JournalsLoaded` reads the
journals; `Gated` takes `sumDailySpent` of what was read and of the day it is *then*, and
decides; `Confirmed` and `Declined` are the answer of the operator, the first with the line
that counts the trial; `Executed` is the run. `Midnight` may come between any two, and so may
any action of another desk. `raced` and `misdated` record that a trial was counted on
another sum than its day had, or on the sum of another day.

`RecordingSync`: a file is the number of its lines and a directory a function from days to
files. `Records` and `DayPasses` are the recorder; `Lists`, `Extracts` and `Verifies` are steps
1 to 3 of `syncRecordingsAtomic`; `MovesAside`, `Swaps`, `SwapFails`, `Merges` and
`PriorRemoved` are the file operations of `atomicSwap`, each of its own because a kill may
come between any two; `Cleans` deletes old remote files, any part of them; `SyncDies` is a kill
or an error that nothing handles. `attic` is what directories of earlier syncs still hold.

`PollRecorder`: `PollStarts` is the timer of a ticker, which starts a poll whether or not
the last one is over; `TokenAcquired` and `Refills` are the token bucket; `PollFails` is a
rejected fetch; `Appends` is a line, with the `rotate()` before it. `fds` is the
descriptor table of the process: `openSync` returns the lowest number that is free, and
connections of the client take and free numbers too (`Connects`, `HangsUp`). `rotate()` may
fail at `closeSync`, or at `openSync` with the old file closed and `currentDate` moved on;
`openFailed` records the latter. `StopAll` closes the files and leaves polls that are under way.

## 3. Runs

| run | instance | shows |
|---|---|---|
| `watcher` | an auto-cancelling OCO of a trailing stop and a stop that one bid may cross together, beside a stop that every bid crosses; one crash; fairness | the nine properties of the watcher below |
| `watcher_both_legs` | an OCO of two stops | violation of `ExactlyOneLeg` |
| `watcher_flat` | an auto-cancelling stop with the exchange's client | violation of `AutoCancelWhenFlat` |
| `exit_jobs` | six job configurations, three orders, two crashes | the six properties of the exit runner |
| `exit_preflight` | an IOC job with preflight, one crash | violation of `SoldWithinSizeResumed` |
| `exit_tail` | an IOC job with preflight and tail order, one crash | violation of `NeverShort` |
| `workflow_events` | two instances, each of stop-then-rotate or of a definition that sets a variable and guards on it, three events, two calls at once, one failed action | the seven properties of the workflow engine |
| `workflow_vars` | one instance of any of ten definitions, the eight templates among them, two events | violation of `VarsReplayed` |
| `strategies` | one job of any of the sixteen kinds, against a market that fills, expires and loses answers, with fairness; or one backtest of any adapter over recorded books | the nine properties of the strategies below |
| `strategies_leg_error` | the same jobs | violation of `PairReports` |
| `services` | one call, one buy job, one feed, two processes with a job slot and guard-rails, two desks, syncs of three days of recordings, or a recorder of two tickers | the nine properties of the services below |
| `micro_midnight` | the same services | violation of `CapThroughMidnight` |

The watcher's properties:

- `TypeOK`: the type invariant.
- `MemoryMatchesJournal`: once the issued lines are written, replay rebuilds the
  statuses and evaluator states in memory. The one exception is a synthetic whose
  hook is awaited and that was canceled after the snapshot.
- `ExitsBounded`: a synthetic sells at most once per life of the process. It does
  sell twice if the process is killed between the sale and the `fired` line.
- `NoExitAfterOutcome`: once a `fired` or `fire_failed` line is on file, nothing is sold
  for the synthetic and no later line revives it.
- `OneLegUnlessCanceled`: without a crash, both legs of a composite sell only if
  the composite was canceled while its first leg was selling.
- `StopNeverLoosens`: the peak on file never falls, not across a restart either.
- `LifecycleSpec`: the statuses on file refine `SyntheticLifecycle`.
- `StopResolves`: a stop whose trigger no bid clears does not stay armed.
- `AutoCancelWhenFlat`: once a position is gone for good no auto-cancelling
  synthetic on it stays armed.

The exit runner's properties:

- `TypeOK`: the type invariant.
- `RemainingAccurate`: what the loop takes for the remainder is what the exchange has
  left of it. Every fill is credited once, whichever of poll, cancel and (second)
  resume reports it.
- `SoldWithinSize`: the job never sells more than its configured size.
- `LiveOrdersKnown`: no order of an unfinished job that may still fill is missing from
  the two lists of a resume.
- `AtMostOneUnsettled`: an order is settled before the next one is posted, also
  across crashes.
- `SubmittedBounded`: each life of the process keeps to `safetySubmittedMultiple`; the
  job as a whole may submit that much once per life.

The workflow engine's properties:

- `TypeOK`: the type invariant.
- `TransitionsBounded`: memory and file have the same count, which is within the
  definition's cap, although calls overlap and the cap is looked at before the awaits.
- `CapEndsInstance`: an instance at its cap is halted or ended by the transition that
  reached it; it does not wait for another event.
- `NoTransitionAfterEnd`: a call whose snapshot still holds a canceled or ended instance
  takes no transition of it. What is under way goes on: a cancel does not stop the
  actions of a transition, and a transition to TERMINAL then ends as `terminal`.
- `ReplayMatchesMemory`: with a serial caller a replay returns the status, state, count and
  history that are in memory whenever no event is being handled, also after a cancel in the
  middle of a transition. It returns the variables too, of an instance that has executed
  no `set_var`; with one it does not, which is `VarsReplayed`, a violation.
- `ActionsFollowHistory`: with a serial caller the journaled actions are those of the
  transitions and entered states of the history, once and in order, failed or not.
- `LifecycleSpec`: the journal refines `WorkflowLifecycle`.

The properties of the strategies:

- `PassiveContract`: a finished run of the passive runner comes to one of the outcomes
  its callers are modelled with, and unless an answer was lost it sells less than its
  size and one chunk. It does sell more than its size: the chunk is computed before the walk.
- `RestingWithinSize`: whatever fails, what a resting strategy has sold, has on the book
  and has left behind stays within its size.
- `ReportTrue`: no strategy believes to have sold more than it has; without a lost answer
  or an error it reports exactly what it has sold.
- `NothingLeftOnBook`: a job that ends well leaves no order behind.
- `InventoryKept`: the market maker's own inventory stays within its cap, and differs from the true one by no more than the fills it has not read.
- `PairReportExact`: a pair reports what it has traded, and never more, although a halt
  settles legs that go on trading.
- `JobEnds`: the strategies that bound their own work end, whatever the market does. A pair
  ends, or an error of one of its legs has ended the process; that it comes to a result in
  spite of it is `PairReports`, a violation.
- `QueueHonoured`: under the queue-aware model an order that rests in a backtest is filled
  only after its level has been seen empty since it was posted, whatever joined behind it.
- `SoldWithinHoldings`: a backtest sells no more than the position it was given, unless
  it was asked to sell more, or the auto adapter has changed its mind.

The properties of the services:

- `ClientContract`: a call of `createOrder` places at most one order, a call that returns
  was carried out and reports the fill, a `createOrder` that throws has left no order,
  all but for `doubt`.
- `BoughtWithinSize`: over all its runs, kills and resumes a buy job buys no more than
  its size, but for `unsure`.
- `BookFollows`: the tracker's book is the exchange's, or the tracker has seen a gap.
- `BookRepaired`: while the connection stays up, a wrong book does not last, even if the
  market falls silent after the dropped message.
- `SlotTruthful`: the exit job at work in a server is the one `/stop` and `/status` reach,
  unless two requests overlapped between the check of the slot and the end of the body.
- `ForbiddenRefused`: the file of the guard-rails can always be read and lists every
  ticker whose addition was acknowledged, and no exit job or passive run starts on one,
  in any process, whatever dies, unless two processes were writing at once.
- `DailyCapKept`: the trials of a day stay within the daily cap, through sweeps, declined
  trials, deaths and midnights, unless the line of another trial was written after the
  journals were read (`raced`), or midnight came between the two readings of the clock
  (`misdated`). That the cap does not hold with the latter is `CapThroughMidnight`, a violation.
- `RecordingsKept`: every recorded line is on the machine or in a local directory wherever syncs
  are killed; and what was deleted from the machine is in the local directory itself,
  unless a sync stopped inside the swap (`upset`).
- `LinesInOwnFiles`: however polls, midnight and connections are interleaved, a line is in
  the file of its own ticker and day, until `openSync` has thrown or the recorder is stopped.

*The exemptions* `lost`, `doubt`, `unsure`, `overlap`, `mixed`, `raced`, `misdated`, `upset`
and `openFailed` are history variables that record when the code gives up a guarantee: an
answer it treats as "not there", or a check and an act with an await, another process, a
midnight or an error in between. Section 4 names
what may then happen; the properties say that nothing *else* goes wrong.

*Bounds of the watcher runs.* One composite with its two legs is the largest family that the code
lets interact (legs are not composites and not shared); a fourth, unrelated
synthetic shows that a family does not disturb others in the snapshot. Two bids
suffice to raise a peak and to cross every stop at once; every bid crosses the fourth
synthetic, as `StopResolves` demands. One crash covers every place of a crash and the
replay after it; a second adds a further sale per synthetic and nothing else,
which `ExitsAreBounded` proves for any number. One ticker: the tick treats
tickers independently except that one failing fetch rejects all, which
`FetchFails` allows at any time.

*Bounds of the exit runs.* `Ids` bounds the orders of a job over all its lives: three
let one life break the cap if it were not there (two orders within it, a third
beyond) and let three lives have one order each. Two crashes are needed, because
only a second resume sees an order that a first resume has reconciled. The size is
3 with chunks of 2 and a sweep of 1, so a remainder of each kind occurs; one share
more is held than the job may sell, so selling too much is possible. The
configurations are IOC with and without tail order and preflight, FOK, GTC with a
tail order, and GTC with `cancelOnStale` off. Deadlock is not checked in these runs:
a job ends.

*Bounds of the workflow runs.* A snapshot of two instances is enough for one of them to
end while the other one's actions are awaited. Two calls overlap in every way that
three events allow; a third call adds nothing to the pair. Three events reach the cap of
2 and find the instance at it; with the cap, a self-loop, a state with entry actions,
one without, TERMINAL, a `set_var` and a guard on its variable all occur in the small
definition. One failing action is enough, as no failure changes the course of a transition.

*Bounds of the strategies run.* Sizes up to 4 and chunks of 1, 2 and 5 give full, partial,
last and oversized chunks; seven walks and a cap of three times the size let either end a
passive job. A leg can reduce by 3, less than the largest size. Two ladders, one of them unordered with rungs that round to
nothing; two and three slices; two polls of a scale-out, so that a rung can fire in each.
Inventories of 0 and 1 with caps of 1 and 2 reach the cap on either side within four
quotes. A job is alone: strategies share nothing but the exchange. A recording of five
books, drawn from four, has room for the warm-up of two, a change of regime, and an order
that is posted, queued, partly filled and filled; with `Cents` = 4 there are three prices, and the
books have a spread, none, a crossed side or no bids. Three shares are held, and a request may
ask for fewer, for more, or for none.

*Bounds of the services run.* Four attempts are what `retry.ts` makes. A buy job of one
chunk has two order ids and three runs: a second resume must not forget what a first has
reconciled. Four numbered messages let two deltas be dropped around one that arrives. Two
processes and two files are enough for a writer to die and another to reuse its temporary
name; `Processing` adds nothing after two have been writing at once, as the property claims
nothing then. Two waiting requests overlap. Two desks and a second day reach each
side of a confirmation. Three days of two lines let a file be listed, grow, be deleted from
the machine after one sync and survive two more; a sync sees at most one midnight. Two tickers, two polls of each and two days let
a descriptor that one recorder frees be taken by the other, or by a connection. `Scanning` stops
where `LinesInOwnFiles` claims nothing more. The parts share no state, so `Init` chooses one of them.

*Fairness.* `FairSpec` is `Spec /\ WF(Loop) /\ SF(Fetch)`. `Loop` is what the
process does by itself: timers fire, an issued line reaches the file, an exit
ends (its orders and ticks are capped), a killed daemon is started again.
Strong fairness of `Fetch` says that the network does not reject every fetch for
ever. `Operator`, `PositionMoves`, `FetchFails` and `Crash` owe nothing. With the
exchange's client and a flat position `Fetch` is never enabled, and the strong
fairness asks nothing: that is the finding of `watcher_flat`.

`StrategyFairness` is weak fairness of the steps of a runner: a call that was
awaited answers or throws, and a timer fires. It owes nothing to the market, to `Stop`
or to the market maker. `FeedFairness` says that a message on its way is
received, that the exchange answers a subscription, and that the interval of
`checkStaleness` runs; the connection, `Emit` and the market owe nothing.

## 4. Findings

1. `watcher_both_legs`: the cascade is guarded by `parent.status === 'armed'`, and
   the loop never asks whether a member of its snapshot is still armed. Cancel the
   OCO while its first leg's exit is awaited, and the sibling is still evaluated
   and sells. `synthetics/oco.ts` promises "exactly one child fires per OCO".
2. `watcher_flat`: a flat position makes `getPosition` throw, the whole tick is
   rejected, and no synthetic of the watcher is evaluated or auto-canceled again.
   `mcp.ts` offers "Auto-cancel when position reaches zero (default true)".
3. `exit_preflight`: `resumeFromJournal` recomputes `remaining` from the fills, and
   then `preflight()` replaces it by the position still held whenever that is below
   the configured size. A job of 3 shares out of 4, killed after selling 2, goes on
   to sell both that are left.
4. `exit_tail`: the tail order has no intent line, and its `tail_gtc_posted` line is read
   by no resume. Killed while the order is posted, the job is resumed, sells the
   remainder once more, and the resting order, which is not `reduce_only`, then
   takes the position short.
5. `workflow_vars`: `set_var` assigns to the variables in memory, and no line after that of the
   registration holds them, so a replay returns the variables of the registration. A comment
   in `workflows/journal.ts` says that they "are re-applied via vars snapshot stored in
   transition data", and `test/workflows/journal.test.ts` writes by hand the line that the engine
   never writes, under the title "reconstructs active instance currentState and vars".
6. `strategies_leg_error`: a leg that throws while the loop of the coordinator sleeps or reads
   a book rejects a promise that nobody handles. Node ends the process: no report, no
   journal line, and the other leg's order stays on the book. `multiLeg.ts` says of the promise that it
   "resolves when the leg's runner finishes (or errors)".
7. `micro_midnight`: a trial takes its `startedAt` before midnight and is gated after it, on the
   sum of a day that has spent nothing; it is counted on the day before, which may be at its cap
   already. `types.ts` promises a "Cap on total trial notional spent in a UTC day ($)".

Smaller things met on the way, without a run.

- *Rungs.* Every successful fire sets the status `fired`, so a take-profit with several rungs never
  fires its second; the plan under `docs/` and `takeProfit.ts` expect it to go on.
- *Workflows.* `register()` does not execute the entry actions of the initial state. All eight
  templates arm their first synthetic there ("Register a trailing stop on the initial
  position"), so each waits for an event of a synthetic that was never registered. The guard of
  `continuous-trailing` and `scale-out-then-rearm` names the field `remainingContracts` without
  a root, so `resolveField` never finds it and the branch to TERMINAL is never taken. A failed
  `register_synthetic` leaves an older synthetic as `last_registered`.
- *Reachability.* Only `kea watch start` makes a watcher, in a daemon that serves nothing,
  and nothing makes a workflow or policy engine. Every surface answers "not initialized",
  or an empty list, even while the daemon runs. `action: notify` is set in the memory
  of the caller, never journaled, and the daemon passes no `notifyDeps`, so an alert would
  end as `fire_failed` or, after a restart, as a real exit. `GET /workflows/templates` is
  shadowed by `/workflows/:id`.
- *Step trails.* `sStepTrail.ts:25` refuses a step that is not positive; the parameters of
  a step-trail that is registered through `mcp.ts` are not looked at, and with a negative step its
  peak, and with it its trigger, would fall.
- *Forbidden tickers.* Strategies other than those on the passive runner start in spite of
  the list, though `mcp.ts:366` says "The engine will refuse to run against it". `/start`
  answers 202 although the check then rejects. Each surface sets `confirmedX: true` itself.
- *Slot and files.* Two overlapping `/start` run two jobs, of which `/stop` reaches one. A
  disk error in the first journal lines of a job leaves the slot taken for good. Two processes
  that write `safety.json` at once can lose an update or expose a torn file. Nothing
  keeps a second process from resuming a job that is running.
- *Client.* After a failed lookup an exchange that refuses the id makes `createOrder` throw
  although the order is live; a DELETE repeated after a lost answer throws although the order
  is canceled.
- *Buy runner.* A finished job buys again when it is run again, if anything was left. Its
  "top ask" is the lowest resting bid of the book side.
- *Exit runner.* The realized loss is always 0, so exits never feed the daily loss limit.
- *Strategies.* The passive runner oversells by up to a chunk less one. A time emergency that
  starts 60 or 30 minutes before the end runs into a scale-out with a rung of price 0, which
  is rejected, and never comes to its sweeps. The buys of roll and stop-and-reverse
  are `reduce_only` and cannot open a position. Basis arbitrage sells where it should
  buy. Pausing a leg has no effect, and halted legs go on trading. Cash raise
  counts 0 when the bid cannot be fetched. A stopped iceberg misses fills since its last
  poll, and polls for ever when the exchange cancels its slice. The market maker's
  true inventory exceeds its cap by fills it has not read. A backtest drops the fills of
  an order that it cancels for a tight spread, and leaves its order when a guard is hit.
- *Backtests.* The passive adapter takes a partial fill off twice, once through the harness and once
  when it replaces the order, and so sells less than it should. Each slice of the TWAP adapter
  leaves its order behind, so that several rest at one level, though `replayClient.ts:60` counts on
  one. The auto adapter leaves the order of the inner adapter that it drops, and then
  sells more than the position, for a `fill_rate` above the "(0-1)" of `backtest/types.ts:219`; so does a
  `params.size` above the position. Without an `initialPosition` the client holds nothing,
  and the synthetics of the watcher adapters are canceled on the first tick.
- *Feed.* `stop()` clears neither the timer nor a connection attempt, so a recorder stopped while
  connecting comes up. A failed reconnect is not repeated. After a reconnect the old
  book is written until the snapshot arrives. A ticker whose snapshot is lost is never
  looked at again. `subscribe()` does not settle when the socket closes. Sequence numbers of
  a subscription are compared per ticker, which reports gaps that are none.
- *Micro harness.* Two trials confirmed at once may pass the daily cap together; the cap of a trial is not tied to its size.
- *Recordings.* A sync killed between its two renames leaves no local directory, and the next one
  does not look for `.prev-<ts>`: nothing is lost, but files that the machine no longer has are not
  in the directory that is read. `atomicSwap` promises "If any rename fails, restore prior", which
  the renames of the merge do not do. A file that grows between list and extraction fails the sync,
  so syncs of a busy recorder fail until it pauses.
- *Recorder.* `rotate()` sets `currentDate` before it opens the new file. When `openSync` throws, the
  recorder keeps the number of the file that it has closed, and writes its lines to, and at the next midnight closes, whatever file
  or connection has been given that number since. `stopAll` has the same effect on polls
  that are under way. Timers start polls without a bound, and of two polls of one ticker the later
  one may write the older book.

## 5. Proofs

### The watcher

All theorems hold for every set of synthetics, every parameters that satisfy
`ParamsAssumption` (legs exist, are distinct, not composite, not shared, and
inherit ticker and auto-cancel; both come from `register`), every set of bids,
both clients and any number of crashes (`SwitchAssumption`).

`MemoryMatchesJournal` is not inductive. What keeps it true is how lines, snapshot
and hook relate, and that is the invariant `IInv` of `WatcherProofs`:

    IInv == TypeOK /\ FiringInv /\ QueueInv /\ PendingInv /\ MemoryMatchesJournal

- `FiringInv`: a hook is awaited exactly in the places `firing` and `settled`, one at
  a time, and only for a leaf that is armed or was canceled meanwhile.
- `QueueInv`: the snapshot lives only while a tick is under way; its members are in
  the map, the awaited one is no longer among them, and its leaves are armed or
  canceled: nothing but their own turn settles them.
- `PendingInv`: what a line still to be written says about the file and the lines
  before it (`LineInv`: a leg is registered before its composite, a composite fires
  after a leg, `canceled` finds the synthetic armed on file, ...), and no synthetic
  has two status lines pending.

`TypeCorrect` proves the type invariant, `InvariantHolds` that `IInv` is
inductive, `JournalRebuildsMemory` is its consequence.
`ExitInv` adds to it: a synthetic has sold at most `crashes` times, or
`crashes + 1` times if it is *spent*, that is, has its outcome or is about to get it
in this life of the process. `ExitsAreBounded` and `OutcomesAreFinal` follow.

Two more invariants are built on `IInv`.

- `OcoInv` is about lives without a crash. Its part `FamilyInv` says, composite by composite:
  legs are on file with their composite; while it is armed no leg has sold, unless that leg's
  hook has just returned and `FireDone` is about to fire the composite; a fired composite has a
  leg that has not sold and will not: neither leg is armed or being fired, and the tick that
  still holds one knows that its parent has fired. So only a composite that was
  canceled while a leg was selling can see its second leg sell: `OneLegSells`.
- `PeakInv`: the peak in memory is at least the one on file. `StopsNeverLoosen` follows by one
  step per action, a restart included. It has a hypothesis, `StepsAreNatural`: the step of a
  step-trail is not negative. `sStepTrail.ts` validates it, `mcp.ts` does not (section 4).

`WatcherImplementsLifecycle` proves `Spec => LifecycleSpec` under the mapping
`life <- jStatus`, `inFlight <- InFlight` (the rest of the snapshot, the awaited
hook, and leaves with an outcome line still pending). `WriteLineMaps` is the heart:
each pending line is one abstract step when it reaches the file. `OtherStepsMap`
shows that everything else stutters, takes a snapshot or drops from it.

### The exit runner

The theorems hold for any set of configurations of `ConfigType`, any holding, any
number of orders and of crashes (`ConfigAssumption`). `RemainingAccurate` is not
inductive: it says nothing about the time between a crash and the loop, when fills
and journal are apart. `IInv` of `ExitRunnerProofs` says what holds then:

    IInv == /\ TypeOK /\ OrdersSound /\ ProcessSound /\ NothingYet
            /\ ~ blind /\ PlainTail => Tracked
            /\ ~ blind /\ Plain => Budgeted

- `OrdersSound`: no order fills beyond its count, and only an order that arrived is on
  file as placed or has fills.
- `ProcessSound`: what the suspended function has in hand is on the right list of the
  journal; `NothingYet`: a job that was never killed starts from an empty journal.
- `Tracked`: at most one order is *open* (under way, resting, or with fills that the
  journal does not have); the process or one of the two pending lists has it
  (`Located`); and the position is what was held, less the journal's total, less
  what the journal lacks of the open order.
- `Budgeted`: the journal's total and the whole count of the open order fit into the
  size, and in the loop `remaining` is `initial` less the journal's total.

There is one lemma per kind of change (nothing, a settlement, a new order, a fill) and
one step per action that says which kind it is. `InvariantHolds` is their sum, and
`TypeCorrect`, `RemainderIsAccurate`, `SoldIsWithinSize`, `LiveOrdersAreKnown`,
`OrdersDoNotCompete` and `FinishedStaysFinal` are read off it.

`SubmissionsAreBounded` is about a sum over all orders and adds the hypothesis that `Ids` is
finite. `CapKept`, from which it follows, says how the sum is made up: what earlier lives have
asked for is within a cap for each crash, and this life adds no more than `submitted`, which is
within the cap computed from `initial`, which is at most the size.

### The workflow engine

The theorems hold for all definitions that `validateWorkflow` accepts
(`WorkflowAssumption`), any number of instances, events, overlapping calls and failing
actions. `ReplayMatchesMemory` says nothing of the time between a transition line and
the end of its actions; the invariant `IInv` of `WorkflowProofs` does:

    IInv == TypeOK /\ Agreement /\ WorkSound /\ CapEndsInstance /\ InStep /\ OneCall

- `Agreement`: file and memory have the same status, reason and count, within the cap.
- `WorkSound`: a call executes actions only of an instance that was registered and has
  been counted.
- `InStep`: with a serial caller, the file is ahead of memory by the transition whose
  actions are being executed, and else equal to it. `OneCall`: there is one such call.

Steps fall into kinds: nothing but calls change (`RecordsKept`), a status changes
(`StatusChanged`), a transition is taken (`TakeRecords`), one ends (`EndRecords`).
`TypeCorrect`, `CapHolds`, `CapEnds`, `ReplayCorrect` and `NoLateTransition` follow.
`ReplayCorrect` takes one conjunct more, `VarsKnown`: the replayed variables of an instance are
those in memory as long as its log has no `set_var`.

`ActionsFollow` needs two more conjuncts, `HistoryInv`:

- `HistoriesSound`: each entry of a history, and each transition in hand, is a move along
  the instance's definition, so its actions are a list of actions.
- `LogSound`: with a serial caller, what is logged of an instance, followed by what the call
  has still to execute, is the actions of the history, followed by those of the transition in
  hand that the history does not have yet. When no call is at work, log and history agree.

`ObeysLifecycle` proves `Spec => LifecycleSpec` with state, status and count taken from
the file: register starts, the transition line moves, the lines of cancel and of the cap
halt, the terminal line finishes, everything else stutters.

### The strategies

The theorems of `StrategiesProofs` hold for any sizes, chunks, ladders that `validateConfig`
accepts, targets, caps, and any number of walks, quotes and polls (the assumptions of
`Market`, `Passive`, `Resting`, `Phased`, `MultiLeg` and `MarketMaking`). Jobs differ in
what they may rely on, so `StrategyInv` is a disjunction with one invariant per group of
kinds, and no step changes the kind of a job (`OwnKinds`):

| invariant | jobs | what makes the property inductive |
|---|---|---|
| `PassiveInv` | passive | a chunk is posted only while less than the size is filled; what is credited, with what a finished wait has still to credit, has traded, and unless an answer was lost it is all that has; whatever may trade was submitted within the cap |
| `ReplayInv` | backtest | what is credited, with the fills of the order at work, has traded |
| `SweepingInv` | aggressive, iceberg, stealth, prepend | no order is sent for more than what is left, and none before the last one has ended |
| `LadderInv` | ladder | what was posted is at most the share of the rungs so far, rounded down |
| `SellingInv` | TWAP, time emergency, scale-out, arbitrage | no order stays behind a finished run; the slices and rungs so far asked for no more than their share |
| `PairedInv` | roll, stop-and-reverse | the second leg is not begun before the first has ended, and a roll's asks for no more than the first reported |
| `CashInv` | cash raise | no order stays on either book |
| `MultiInv` | pair, basis arbitrage | a leg that has not ended has filled nothing, one that has ended knows its fills, and only a halt settles one that has not |
| `MakerInv` | market maker | not even the fills of both quotes, read at once, lead beyond the cap; the inventory is off by the fills that were given up |

`PassiveRunnerContract`, `RestingStaysWithinSize`, `ReportsAreTrue`,
`MakerKeepsInventory`, `PairsReportExactly` and `NothingIsLeftOnBook` are read off
`StrategiesKeepInv`; so are two theorems that no run checks: `RollsAreCovered` (a roll opens no
more than it has closed) and `AskedStaysWithinSize` (slices and rungs add up to no more
than the size, and those of a completed TWAP to all of it).

### The buy runner

`BuysWithinSize` holds for any sizes, any finite number of orders, kills and resumes
(`BuyAssumption`). `BuyInv` of `BuyProofs` speaks of sums over orders:

- `OrderSound`: no order fills beyond its count, only an order that arrived has fills, and the
  journal credits it with no more than that.
- `AtWork`: the order in hand was sent, its last answer is not beyond its fills, and the
  journal has credited nothing of it yet.
- `Counts`: what was bought is the sum of the fills of all orders, the journal's total the sum
  of what it has credited, and a loop works with that total.
- unless `unsure`, the *worst case*, that is all fills together with all that live orders may
  still fill, fits into the size; and a *loose* order, one that is live or has fills that the
  journal lacks, is `Sought`: it is the one in hand, or the phases of a resume have still to
  come to it, and the loop does not begin before they have.

### Jobs and guard-rails

The theorems of `JobsProofs` hold for any processes and programs they may run, any
tickers, files and jobs (`InodesAssumption`, `JobsAssumption`), and any number of deaths.
`ForbiddenRefused` is about what jobs were admitted on, while a death leaves half-written
files behind; `SafetyInv` is what a writer keeps true until it is through:

    SafetyInv == SafetyTypeOK /\ (~mixed => Alone /\ Kept /\ Apart /\ \A p : Sound(p))

- `Alone`: one process writes at a time. `Kept`: the file can be read and keeps every promise.
- `Apart`: the temporary name never refers to the file itself, so nothing that is
  written, or left behind, is read before it is renamed.
- `Sound`: a writer's list has all that was promised when it began; a `remove` withdraws
  its promise there, and nobody else adds one meanwhile; once written, the file holds that list.

`JobsInv` adds to it the types, that a process without a program neither waits nor writes
(`Asleep`), that a server whose requests did not overlap has at most one request waiting, and
that with an empty slot (`SlottedAt`), and that no live job but a strategy is against a promise
(`Refused`). `ForbiddenIsKept`, `JobsTypeCorrect`, `SlotIsTruthful` and `ForbiddenIsRefused`
are read off these. `SurfacesImplementJobs` shows that what the routes, tools and commands
come to are steps of `JobsNext`, so the theorems hold of all surfaces together.

### The client and the micro harness

`ClientKeepsContract` holds for any number of attempts and any size (`ClientAssumption`).
`ClientInv` says what is true between two requests: without `doubt`, an order exists
before the call has returned only while a lookup is under way that will find it
(`NoneUnseen`); only a POST is looked up; only a cancel cancels, and nothing fills after
it. There is one lemma per action; `CarriedOutKeeps` says what a request does to the
exchange whenever it is carried out, which `RequestFails` and `ArrivesLate` share.

`DailyCapHolds` holds for any desks, caps and days (`MicroAssumption`). A trial that waits
for its confirmation fits on top of the sum that its gate has *seen* (`Fits`); so it fits on
top of what was spent when it is counted, if that is still the same and of the same day: the
proof carries the day that a gated trial has summed beside the day it will be counted on, and needs `misdated`
exactly where the two may differ.

### The feed

`FeedFollows` holds for any sizes and any number of messages, drops, reconnects and gaps
(`FeedAssumption`). `BookFollows` only speaks of the moment when nothing is on its way.
`FeedInv` says the same of every book that the tracker will have on the way there: take the
tracker's book and apply the messages in transit one after another; each book of that course
has a number that is not beyond the exchange's, and if it saw no gap and has the
exchange's number, it has the exchange's size.

### The sync of recordings

`RecordingsAreKept` holds for any number of days, lines and syncs, killed anywhere
(`RecordingAssumption`). `SyncInv` says, file by file, why deleting from the machine is safe:

- `DeletedOld`: a deleted file was old and is on no later list, and what was recorded before
  the day of the list is listed as it is; with `OneMidnight`, whatever is old enough to be
  deleted was recorded before that day. `StagedListed`: what passed the verification is what
  was listed.
- `Placed`: what the new and the old directory have at each step of the swap. A file that only
  the old one has is never covered by a staged one, and a staged one is the listed one.
- `Somewhere`: which copy of a deleted file is whole at each step.

### The recorder of several tickers

`LinesAreInOwnFiles` holds for any number of tickers, polls and days (`PollAssumption`). Its
invariant adds `Opened`: while it runs and no `openSync` has thrown, the descriptor of each
recorder refers to the file of its ticker and of its `currentDate`. So no two recorders have
the same number, no connection is given one of theirs, and what a rotation frees is taken by
itself or by nobody.

### Sums, folds and concatenations

Induction over data cannot be had by citing an induction theorem, as those take an
operator as a parameter. What the proofs need of it is stated for sets: `SubsetInduction` of
`FiniteSums` is about a set of sets that has the empty one and grows by one element, and
`LeastOfSet` about a set of numbers. With these, `SumFunction` and the folds of the community
modules are unfolded by hand: a function that solves the recursion exists on every finite set
or length, two solutions agree, so the operator is the solution. That gives `SumWith`,
`SumChanged` and `SumMonotone` for the sums, the same for `FoldLeft` over the messages of the
feed, and for `FlattenSeq` over the history of a workflow.

### What is only model-checked

The liveness properties: `StopResolves` and `AutoCancelWhenFlat` of the watcher, `JobEnds` of
the strategies, `BookRepaired` of the feed. Liveness under fairness, and `ENABLED`, are out of
the prover's reach. So are, for now, `QueueHonoured` and `SoldWithinHoldings` of the
backtests. Every other property of a passing run is stated by a theorem, and a few theorems
state what no run checks (`FinishedStaysFinal` of the exit runner, and the two above). The
seven violations of section 4 are counterexamples, which only TLC shows.

The theorems are about the models with their bounds as parameters: an action that a bound
such as `MaxCrashes` or `MaxWalks` disables is proved about for every value of the bound.

## 6. Plan

Done: every module of section 2, and a theorem for every safety property that a run checks but
the two of the backtests. What is worth doing next:

1. Abstract specifications of the exit and buy runners (a job sells or buys, share by share, at
   most its size, and ends), and that `ExitRunner` and `BuyRunner` implement them.
2. Action properties of the strategies: what was traded only grows, and a report is not revised.
3. `QueueHonoured` and `SoldWithinHoldings` for any recording: an invariant of every adapter
   about its order on the book, by induction over the orders of a client.
4. Chunk and price selection of `pricing.ts` against a reference over small books.

## 7. Not modelled, and why

- Torn journal lines (a `kill -9` within one write leaves a line without newline
  and the next line is glued to it) (noted as a hazard), and disk
  write errors of the watcher, after which what it writes depends on the line that failed.
- `stop()` and the signal handler of the watcher, and `action: notify` of
  `invokeFire`, which `register` never sets.
- `dryRun`, fees, realized losses and `previewOnce` of the runners.
- Argument parsing, rendering, request signing and response parsing, sockets, alert channels.
- Of the workflow engine timestamps, `list`/`get`, and the module's singleton; policies,
  which nothing applies.
- Floating-point models (expected values, Kelly sizing, edge attribution), and prices wherever
  only their order matters.
- Of the guard-rails the limits that are compared once; the ledger of losses.
- Of backtests buys and `no` positions, several tickers, fees, prices of fills and the report;
  `replay.ts`, which replays a journal as text.
- Strategies that only build the arguments of a synthetic (trail, step trail, bracketed exit),
  and the conditional roll.
- The venue router, credentials and type declarations.
