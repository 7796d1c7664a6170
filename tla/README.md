# Verification of the trading platform

TLA+ modules, TLC configurations and TLAPS proofs for the trading bot of this
repository: a scheduled job that runs one trading cycle per execution, keeps
its ledger in PostgreSQL and trades on a simulator or on a testnet venue.

Paths below are relative to the repository; `tb/` stands for `src/trading_bot/`.

## The system

| part | code | state | operations |
|---|---|---|---|
| entry point | `tb/__main__.py` | none; one process per attempt | `main`: settings, one cycle, commit, exit code |
| trading cycle | `tb/cycle.py` | locals of one run | `TradingCycle.run`: fetch, signal, load account, decide, check, submit, record |
| risk policy | `tb/policy/` | none | `decide`: kill switch, loss limit, sizing |
| strategy | `tb/strategy/` | none | `evaluate`: crossover of two moving averages |
| gateways | `tb/exchange/` | simulator: none; venue: its orders | `fetch_snapshot`, `submit` |
| ledger | `tb/execution/`, `tb/domain/` | none | `apply_execution`, `Position.apply` |
| persistence | `tb/persistence/` | signals, orders, fills, positions, equity_snapshots | load account, find an order, record |
| configuration, wiring | `tb/config.py`, `tb/bootstrap.py` | settings, fixed per process | validation, construction |
| telemetry, logging | `tb/observability/` | buffers | record, flush |
| job platform | `infra/modules/container_apps` | executions, attempts | cron, one retry, timeout |
| deployment | `.github/workflows/cd.yml`, `migrations/` | applied plan, schema | apply twice, migrate, smoke test |
| alerts | `infra/modules/alerts` | log windows | three scheduled queries |
| cost guard | `infra/governance/runbooks` | servers | stop each tagged server |

The interactions that matter: the platform starts a process, by schedule or by
hand, and starts it again once if it exits with an error. The process reads the
kill switch (an environment variable resolved from a secret) and the clock once,
asks the exchange for candles, reads cash from the newest equity snapshot, the
position row, and the day's opening equity, and decides. If it trades, it looks
for an earlier order with the same client order id, submits, re-reads the
position row and adds everything to one transaction, which it then commits.
Nothing locks: two executions may overlap, because a manual start is not
excluded and because two attempts of `replica_timeout_in_seconds` (600 s) exceed
the 15-minute schedule.

Around the job: a push to main deploys in five steps (an apply that removes the
jobs, a build, an apply that creates them, the migration, a smoke test) while
the schedule of the deployed job goes on; three alerts read the log of the job;
a runbook stops the database servers when the budget is spent.

Hard behaviours: overlapping executions at READ COMMITTED; a process that dies
between the submission and the commit, or after the commit; lost, late or
partial answers of the venue; stale or still forming candles; the order of
snapshots by the start of their cycle; boundaries of sizing and of the loss
limit; accounts without equity; a log written before the commit it reports; a
strategy without memory over executions that may fail; deployments that fail
half-way, or lose what they started, while the schedule is live; migrations killed, retried or run twice;
alert windows that overlap late ingestion.

What makes each part correct:

- policy: an order is the largest one that the limits allow, a hold is forced;
- cycle and persistence: the ledger is the sum of the committed fills; a bar is
  traded once; a day has one opening equity; nothing is booked that the venue
  did not do; orders fit the ledger as it is when they are sent;
- gateways: execution cost always works against the bot;
- kill switch: it stops every execution that starts after it is engaged;
- platform: every execution ends, and its failure is reported;
- ledger: the average price is an average, and only sales realise profit;
- strategy: a crossing is signalled, on the bar it happens on, and one bar does
  not call for both sides without reason;
- timeframes: a bar has one id, and no closed bar of the simulator is stale;
- process: metrics and log tell what became of the transaction, and nothing
  that was recorded is lost by a process that exits;
- deployment: a green run means deployed and migrated, every run ends, and
  migrations exclude each other unless a run loses its own; the version row tells
  the schema;
- alerts: silence, failures and drawdowns are reported in time, transients not;
- cost guard: nothing of another project is touched, and done means that every
  server of the project was down at some moment since the listing.

The hazards, each at its line with the properties about it, are in
`PROJECT.json` under `hazards`.

## Modules

| module | models | extends |
|---|---|---|
| `RiskPolicy` | `tb/policy/engine.py`, `limits.py` as operators | |
| `Ledger` | `tb/execution/ledger.py`, `Position.apply` | |
| `Exchange` | `submit` of both gateways as sets of outcomes | `Ledger` |
| `TradingCycle` | executions, attempts, cycles, transactions, the venue's memory, the kill switch | `RiskPolicy`, `Exchange` |
| `AtomicLedger` | what the ledger promises: one order, one atomic booking (abstract) | `Ledger` |
| `LedgerRefinement` | the tables of `TradingCycle` as an `AtomicLedger` | `TradingCycle` |
| `PolicyEngine` | one question to `decide` and its answer, with a reference definition | `RiskPolicy` |
| `JobAttempt` | what an attempt of the job promises: booked before it succeeds (abstract) | |
| `Process` | one process: settings, telemetry, log, transaction, exit code | |
| `Portfolio` | executions of several fills, average price, the position's row | `Ledger` |
| `SmaCrossover` | the averages, the crossing and its strength over the simulator's repeated series and a venue's forming candles | |
| `Timeframes` | flooring, the newest bar and its age against two clock readings | |
| `Migration` | upgrade and downgrade, statement by statement, by several processes | |
| `Deployment` | the runs of the deploy job, their waits, the deployed jobs, the schedule, the switch | |
| `Alerts` | the log of the scheduled job and the three rules over it | |
| `CostGuard` | the runbook's loop over servers that change state | |
| `TradingCycleMC`, `PolicyEngineMC` | instances for TLC | |
| `Calculations` | `PolicyEngine`, `Portfolio`, `SmaCrossover` and `Timeframes` side by side | `PolicyEngineMC` |
| `Reporting` | `Process` and `Alerts` side by side | |
| `Operations` | `Deployment`, `Migration` and `CostGuard` side by side | |
| `RiskPolicyProofs`, `PolicyEngineProofs` | division, minimum and sizing lemmas; the theorems about the engine | `RiskPolicy`, `PolicyEngine` |
| `TradingCycleProofs` | type correctness of `TradingCycle` | `TradingCycle` |
| `OverlapProofs` | what executions keep although they overlap | `TradingCycleProofs`, `LedgerRefinement` |
| `SerialLedgerProofs` | what executions keep one after the other; the refinement of `AtomicLedger` | `OverlapProofs` |
| `CalculationsProofs` | timeframes, crossover, portfolio | `Calculations` |
| `ReportingProofs` | process, its refinement of `JobAttempt`, alerts | `Reporting` |
| `OperationsProofs` | cost guard, deployment, migration | `Operations` |

### How TradingCycle corresponds to the code

One action per statement that reads or writes something shared. `pc[e]` names
what the attempt is about to do, `cycle[e]` holds the locals of `_run`.

| action | code |
|---|---|
| `Launch`, `Retry` (`StartAttempt`) | cron or manual start, retry; `Settings()` and `now = self._clock()` |
| `Fetch`, `FetchStale` | `fetch_snapshot`, `is_stale`, the signal of the bar |
| `ReadCash`, `ReadPosition` | the first two reads of `load_account_state` |
| `DecideOrder`, `OpeningInvalid` | its third read, validation of `AccountState`, `decide` |
| `CheckDuplicate` | `already_executed` |
| `Submit` | `gateway.submit`, `record_execution`, `apply_execution` |
| `SavePosition` | `save_position` |
| `Commit`, `CommitConflict` | `session.commit()` |
| `Exit` | flush, dispose, exit code 0 |
| `Abort` | any exception, timeout or lost node, also after the commit |
| `GiveUp` | the platform reports the failed execution |
| `NewBar`, `Reprice`, `FlipKillSwitch` | the market, a deployment of other settings on the simulator, and the operator |

`book` is a history variable: the committed fills added up. It is compared with
what the code reads, and never read by an action.

### The abstract ledger

`AtomicLedger` knows one action, `Book`: an order not booked before is booked,
and cash and quantity change by its fill. `LedgerRefinement` maps `booked` to
the orders table, `cash` to the cash of the newest snapshot (what
`load_account_state` would read) and `held` to the position row. Every step of
`TradingCycle` other than the commit of an order is then a stutter; in
particular a hold, which writes a snapshot, and a rollback. `Book` takes its row
from `booked'` rather than from a set of all rows, so that TLC can evaluate it
as a property. The refinement is checked on the venue with partial,
lost and late answers, and proved (`CycleImplementsAtomicLedger`) for both
backends; it holds when executions do not overlap.

### The promise of an attempt

`JobAttempt` has five stages: idle, running, booked, succeeded, failed; success
comes only after booking, and a failed attempt may start again. Both detailed
modules implement it: `Process`, which models one process with everything it
logs and records (`ImplementsAttempt`), and each execution of `TradingCycle`
(`AttemptsKeepThePromise`, one instance per execution, in `LedgerRefinement`).
It is the joint between them: `TradingCycle` leaves logging and metrics out,
`Process` leaves the ledger out. Both refinements are proved.

### How the other modules correspond to the code

| module | state | actions |
|---|---|---|
| `Process` | environment, exporter, buffered and exported metrics, log, transaction, exit code | `LoadSettings`, `BuildTelemetry`, `RequireDatabaseUrl`, `BuildCycle`, then the parts of the cycle (`Fetch`, `Decide`, `Submit`, `BookExecution`, `Complete`), `Commit` (done, rolled back, or done although it raises), the two handlers (`Handle`), `Flush`, `Exit`; `Kill` anywhere |
| `Portfolio` | the row of `positions`; the last execution and the prices paid as history | `Book`: load, fold, save, commit; `Refuse`: a sale that does not fit rolls back |
| `SmaCrossover` | the backend, the closes a snapshot holds, whether an execution has evaluated them; the signals of the newest bar, the last one on a final close and the sides seen as history | `Execute`: an execution evaluates what the exchange shows; `Move`: the close of a forming candle moves; `NewBar`: the next candle opens, or the simulator shows its series again |
| `Timeframes` | settings, clock, the reading `now`, `as_of` | `ReadClock`, `FetchSnapshot`, `FetchFails`, `CheckAge`, `End`, and `TimePasses` between any two |
| `Migration` | committed tables, each migrator's open transaction, its plan and place in it | `Start`, `ReadVersion`, `EnsureVersionTable`, `Execute` one statement, `StatementFails`, `Kill`, `Commit` |
| `Deployment` | the step and the commit of each run, the changes its apply still has to make, the executions it started, the runs that lost a migration, the deployed jobs, registry, schema, switch | `Push` a new commit, `Dispatch` an old one again; one action per step of `cd.yml`, `StartExecution` with or without its answer; `Poll`, `GiveUp` of `wait-for-job.sh`; `StepFails` in the middle of any step or wait; `Repair` of the runbook; `CronFires`, `SetKillSwitch`, `Tick` |
| `Alerts` | executions running, several at once if they are slow, log lines with age and ingestion, firing alerts, the executions in a row that were not prompt | `Start`, `Finish` with any outcome of `Process`, `Ingest`, `Evaluate`, `Tick` |
| `CostGuard` | servers, the listing, the place in it; the servers that were down since the listing as history | `ListServers`, `Skip`, `Stop` (accepted, or the end of the run), `Done`, `ServerMoves`, starting again included |

### Abstractions, and why they are sound

- Quantities count increments of `QUANTITY_STEP`, prices are quote units per
  increment; rounding down is `\div`, `ROUND_HALF_UP` is `RoundHalfUp`. The
  columns are `Numeric(38, 18)`, so storing these does not round. An average
  price does round: `Portfolio` counts in the last digit of that column.
- A bar carries its close and the signal computed on it: `evaluate` is a
  function of the snapshot alone. The simulator seeds its generator from the
  configuration only, so all its calls show the same closes (`NextBars`); what
  changes them is a deployment of other settings (`Reprice`), and only then can
  what the simulator bought be sold on it.
- The simulator rounds a fee to 0.01 quote; `FeeStep` is that unit, in the unit of
  prices.
- `MarketSnapshot.as_of` and the clock are compared at the granularity of bars.
  A venue may answer with any bar it has shown that is not stale. `Timeframes`
  justifies the granularity: `AcceptedMissesFewBars` is the rule of
  `TradingCycle`, up to the very moment a bar opens.
- Reading `Settings()` and the clock is one step; each reading is a new instant,
  so `taken_at` differs between cycles. Clocks of different nodes agree.
- Rows become visible at the commit. PostgreSQL makes the second writer of a
  unique key wait for the first and then refuses it; refusing at the commit
  reaches the same tables. SQLAlchemy's identity map is weak and the loaded
  position record is not kept, so `save_position` selects it again; its UPDATE
  writes changed columns only.
- The signals table, reasons and audit checks are never read back and are left
  out; the average price is left out of `TradingCycle`, where nothing reads it.
- `Process` keeps sets of metrics and events: how often is not told apart.
- A venue's last candle forms: its close moves until the next one opens, and is
  final then (`SmaCrossover`). A venue has as many candles as there are, up to the
  limit, and drops none of them; a series that starts again or has holes is left
  out, and so is a deployment of other settings.
- `Process` does not take the check of the URLs for the truth: a client has a set
  of URLs, of test networks and of others, and one marker among them is enough.
  Hence no property says that only paper trading is possible; it would be false
  of a client with one test network among its URLs.
- The schemas of `Deployment` are ordered like the commits that brought them, and
  a commit needs its own or a later one.
- `SmaCrossover` compares averages by cross-multiplication; `Decimal` rounds
  them to 28 digits, which separates no two averages of prices with few digits.
- `Deployment` and `Alerts` count in units of five minutes, of which every
  timeout, window and cadence of the code is a multiple.
- A migration is a list of statements on tables with columns, keys and indexes.
  A statement waits for the open transaction that touched its table.
- A venue refuses a client order id it has executed. An order whose answer
  reports a fill does not grow afterwards (market orders). A venue price of 0,
  which needs slippage near 100%, is left out.
- A secret update is visible to the next process at once.

## Runs

Executions, bars, flips, commands, runs of the workflow or moments are bounded in every run
that expects no error, so each behaviour, or that of one of the components of
the run, ends: these runs disable the deadlock check. `Executions` are
interchangeable (symmetry), except in the liveness run.

`Calculations`, `Reporting` and `Operations` check components that share no
state in one run each. A behaviour belongs to the component named by its first
state; the variables of the others keep one initial value. The set of reachable
states is the disjoint union of the components' own, and a property of a
component holds in the run exactly if it holds of the component alone. The
instances are part of the modules' text and their constants get values in
`calculations.cfg`, `reporting.cfg` and `operations.cfg`, so the proofs are about
the same specifications, for all values.

| run | question | properties |
|---|---|---|
| `sim_serial` | simulator, three executions in a row on two days of one bar, prices and signals that move in between, so that what is bought is sold | `OneOpeningPerDay`, `ReplaysAreCaughtEarly`, `SimulatorNeverFlatters` |
| `ccxt_serial` | a venue with partial, lost, late and refused answers, kills, retries and old candles | `TypeOK`, `LedgerMatchesFills`, `VenueTradesBarOnce`, `OneOrderPerBar`, `OrdersFitTheBook`, `OrdersWithinLossBudget`, `ImplementsAtomicLedger` |
| `ccxt_forming` | overlap on bars that still change or are refused as stale | `OneOrderPerBarAndSide`, `BookedOnlyWhatVenueExecuted` |
| `liveness` | overlap, kills, retries, an account that goes broke, the switch flipped anywhere | `EveryExecutionEnds`, `EngagedSwitchStopsNewCycles`, `AttemptsKeepThePromise` |
| `calculations` | `PolicyEngine`: is the answer the reference's, at every boundary? | `OrdersAreTheLargestThatFit`, `HoldsAreForced` |
| | `Portfolio`: any number of executions of up to two fills | `AverageIsBetweenPrices`, `OnlySalesRealise` |
| | `SmaCrossover`: every bounded series, closes that move, executions at any moments or at none | `CrossingsAreSignalled`, `OppositeSignalsNeedATouch`, `SignalsAreSymmetric` |
| | `Timeframes`: clocks read at every boundary of the bars, time passing in between | `SimulatedBarsAreFinalAndFresh`, `OneIdPerBar`, `AcceptedMissesFewBars` |
| `reporting` | `Process`: every combination of settings, failures everywhere, a commit that takes effect and raises | `NothingRecordedIsLost`, `ReportsTellTheTransaction`, `FalseCompletionIsContradicted`, `TelemetryNeverPreventsTheCycle`, `ImplementsAttempt` |
| | `Alerts`: every outcome, skipped starts, executions up to two timeouts long, late lines | `SilenceIsReported`, `LinesAreReported`, `TransientsAreIgnored` |
| `operations` | `Deployment`: three runs, of a new commit or an old one again, failures in the middle of steps, lost runs, lost answers to starts, unanswered polls, repairs | `GreenMeansDeployed`, `SchemaLagsOnlyWhileDeploying`, `OnlyAbandonedMigrationsOverlap`, `PipelinesEnd` |
| | `Migration`: upgrades and downgrades by two processes, kills, lock waits | `VersionTellsTheSchema`, `OnlyRivalsMakeItFail` |
| | `CostGuard`: servers of any tag that stop and start under the loop | `StopsExactlyTheProject` |
| `overlap_ledger` | violated: overlapping executions lose a fill | `LedgerMatchesFills` |
| `forming_bar` | violated: a forming bar is bought and then sold | `OneOrderPerBar` |
| `drawdown` | violated: bought at 5, the limit reached at 4, and the loss twice the limit at 3 while the bot holds | `LossStopsAtLimit` |
| `venue_error` | violated: a transport error ends in success, without a retry | `VenueErrorsAreRetried` |
| `deploy_switch` | violated: a deployment clears an engaged kill switch | `SwitchIsHonoured` |

What the passing runs rely on is as important as what they show. The ledger
properties hold when executions do not overlap (`Overlap = FALSE`); the bar
properties hold under overlap, but for bars that do not change any more
(`BarsChange = FALSE`), which ccxt's `fetch_ohlcv` does not promise. That nothing else is
needed is proved: these two are the hypotheses of the theorems. The violated
runs `overlap_ledger` and `forming_bar` drop exactly these two conditions. Every
violated run has a finding in `PROJECT.json` that quotes the sentence of a
document, comment or test the code does not keep.

A few of the passing ones deserve a word. `NothingRecordedIsLost` and
`ReportsTellTheTransaction` hold because `flush` is in the `finally` of `main`,
after both handlers, and for every combination of settings around every
validator. `ReportsTellTheTransaction` does
not equate an error with a rollback: a COMMIT may take effect although
`session.commit()` raises, and then the log holds both `cycle.completed` and
`cycle.crashed`. `FalseCompletionIsContradicted` is about the opposite case.

`CrossingsAreSignalled` relates the signals of several executions to the whole
series although no execution remembers anything. It speaks of the bars whose final
close some execution evaluated, in a row; a bar without one starts it anew.
`OppositeSignalsNeedATouch` bounds what `forming_bar` finds: a bar is bought and sold
only if the averages were equal, exactly, on the bar before.

`SimulatorNeverFlatters` compares each cycle with the account the cycle before it
left, at the price the later one saw; so it covers purchases, sales and holds,
whatever the price did in between.

`PipelinesEnd` says that again and again no run is in progress. As a run begins once
and at most one is in progress, this is the end of each; it holds although no poll
need ever be answered.
`OnlyAbandonedMigrationsOverlap` needs both the concurrency group and a wait longer
than the timeout of the migration. That migrations never overlap is false: a run
that is lost, cancelled, or never learns the name of what it started leaves its
migration running, and the next run starts another. `VersionTellsTheSchema` still
holds then, because the statements of a migration share a transaction.

`StopsExactlyTheProject` says as much as the runbook can: that each server of the
project was down at some moment since the listing. One that was listed as stopped,
or has accepted to stop, may have been started by the time the run says done.

`OnlySalesRealise` is exact for sales and bounds the rounding
of a purchase by half a last digit on every unit held.

### Where the code and its documents differ

Met while modelling; the first five are the violated runs, with the sentences
quoted under `findings`. The others follow from a module by inspection and have
no run.

| code | document | difference |
|---|---|---|
| `tb/persistence/repository.py:84` | ADR-0005:18 | run `overlap_ledger` |
| `tb/exchange/ccxt_sandbox.py:70` | ADR-0006:40 | run `forming_bar` |
| `tb/policy/engine.py:68` | runbook:90 | run `drawdown` |
| `tb/exchange/ccxt_sandbox.py:89` | container_apps/main.tf:82 | run `venue_error` |
| `infra/envs/dev/main.tf:147` | runbook:102 | run `deploy_switch` |
| `tb/__main__.py:45` | ADR-0012:62, "Telemetry must never be able to stop the bot" | `flush` is unguarded: when it raises after the commit, a booked cycle exits as a failure and is run again (`Flush`) |
| `tb/__main__.py:21` | alerts/main.tf:31, "A failed execution, said by the bot" | refused settings end the process before the handlers, and no failure is logged (`LoadSettings`) |
| `tb/cycle.py:205` | ADR-0012:8, "a bot that has silently stopped trading" | the completion is logged before the commit: executions killed while they commit look completed (`killed_late` in `Alerts`) |
| `tb/observability/logging.py:67` | runbook:62, "log ingestion is broken, not the bot" | a log level above INFO drops `cycle.completed`, and the absence alert fires for good |
| `alerts/variables.tf:38` | ADR-0012:59, "three missed cycles, not one"; alerts/main.tf:73, "One missed cycle is a transient" | at the end of 45 minutes only two executions due need not have completed; one missed and one that takes long, next to it, fire the alert (`TransientsAreIgnored` counts both) |
| `alerts/main.tf:71` | runbook:166, "within forty-five minutes" | the window is 45 minutes, the evaluation every 15: up to an hour (`Latest` in `Alerts`) |
| `alerts/variables.tf:47` | ADR-0012:8, drawdown.kql:2 | the loss limit stops the bot at one percent, the alert fires beyond five |
| `.github/workflows/cd.yml:94` | ADR-0009:45, "migration job run and succeeded, then the trading job runs" | the schedule is live before the migration (`SchemaLagsOnlyWhileDeploying` says how far) |
| `.github/scripts/wait-for-job.sh:13` | wait-for-job.sh:6, "polls until the execution actually finishes" | it waits 900 s, two attempts may take 1200 s (`GiveUp`) |
| `tb/exchange/simulated.py:64` | sma_crossover.py:22, "not on every bar" | the simulator repeats its series, so a crossing on its last bar is signalled on every bar (`NextBars`) |
| `tb/strategy/sma_crossover.py:61` | runbook:45, "the next cron execution is the retry" | a crossing on the bar of a failed execution is seen by no later one (`CrossingsAreSignalled` starts anew after it) |
| `tb/__main__.py:37` | `tb/__main__.py:17`, "a non-zero exit is what makes a failed cycle visible" | when COMMIT takes effect and `session.commit()` raises, a booked cycle counts an error and is run again (`Commit`) |
| `stop-cost-drivers.ps1:56` | stop-cost-drivers.ps1:74, "Done" | a server listed as stopped and started since is passed over (`StopsExactlyTheProject` says what is left) |
| `.github/workflows/cd.yml:116` | ADR-0009:36, "Two concurrent job executions would race on the same migration" as the reason to migrate from the pipeline | the pipeline too starts a second migration beside one that a lost run has started (`StartExecution`, `StepFails`) |
| `stop-cost-drivers.ps1:67` | stop-cost-drivers.ps1:2, "Stops the PostgreSQL Flexible Servers" | the first refused request ends the loop (`Stop`) |

### Bounds

| bound | value | why it is enough |
|---|---|---|
| `Executions` | 2 or 3 | a conflict needs two; a day's opening, a later cycle and one after midnight need three |
| `MaxRetries` | 1 (the code's), or 0 | 0 only where the run does not depend on a retry |
| `MaxBars`, `BarsPerDay` | up to 3, and 1, 2 or 4 | a replay, a new bar and a midnight; days of one bar where the day matters and bars do not, days longer than the run in `drawdown` |
| `MaxSnapshotAge` | 1 or 2 (the code: 3) | with 2 a cycle may act on an old bar, with 1 an answer can be stale within two bars |
| `Prices`, `VenuePrices` | one or two of 2 and 3; 3 to 5 in `drawdown` | a gain, a loss, a price that does not divide the limit; a purchase, a fall to the loss limit and one past it |
| `FeeStep` | 1 or 2 | fees rounded coarser than prices, up and down |
| `MaxPositionQuote` etc. | below 20 | every minimum of the sizing, a loss of exactly the limit |
| `Strengths`, `StrengthUnit` | 1/2 and 1 | part of the position, and all of it |
| `MaxSwitches` | 2 | engaged and cleared again |
| `WindowSizes`, `Limits`, `LogLevels` (`Process`) | 1 to 3, 3 and 4, INFO and WARNING | windows below their least values, in and out of order, a limit equal to and above the slow one; lines of every event kept and dropped |
| `FastWindow`, `SlowWindow`, `Limit`, `Prices` (`SmaCrossover`) | 2, 3, 4 and 1 to 6 | crossings with and without a touch before, strengths below and at 1 |
| `Moments` (`Timeframes`) | 16 | both sides of every boundary of 1m, 15m, 1h, 15h, 1w within one week |
| `MaxLag` (`Timeframes`) | 4 | one bar more than the age check admits |
| `Quantities`, `Prices`, `MaxFills`, `MaxQuantity` (`Portfolio`) | up to 2, 3 prices, 2, 4 | averages that do not divide, a close in one or two fills, an oversale by the second fill; executions are unbounded |
| `Migrators`, `MaxCommands` (`Migration`) | 2, 4 | up and down and up again, each with a rival |
| `Runs` (`Deployment`) | 3; 2 in `deploy_switch` | a run over another one, running, lost, failed or superseded, of a new commit or an old one; with three, an old commit deployed over a newer schema, and a run that is superseded while another is in progress |
| `MaxDuration`, `MaxDelay` (`Alerts`) | 4 ticks of 5 minutes; 1 tick | two timeouts of 600 s, so executions overlap and end after the next evaluation; a line that misses the evaluation it was written before |
| the counter `missed` | 2 | beyond two nothing is told apart |
| `Count` (`CostGuard`) | 2 | a server before and one after the place of the loop |

The bounds on bars and flips are guards of `NewBar` and `FlipKillSwitch`,
`MaxFills` and `MaxQuantity` bound what `Portfolio` is given, `MaxCommands` is a
guard of `Start`; the proofs hold for every value of them, and of all the
constants of this table but `MaxDelay`.

### Fairness

`FairSpec` assumes weak fairness of `Attempt(e)`, a process that runs keeps
running, its calls return or raise or are ended by the replica timeout, and of
`Platform(e)`, the platform retries or reports a failed attempt. Launching,
failing, new bars and the operator are not fair. The number of failures is
bounded by the retry limit, as it is in the code.

`Deployment` assumes weak fairness of the runner of the run in progress (the next
step of a run that is not lost; the deadline of a wait), of the end of executions,
which Container Apps enforces, and of time. Failing, polls, pushes, approvals, cron and the operator
are not fair: that a run ends never rests on its failing.

## Proofs

`tlapm` checks every proof, for all values of the constants that satisfy the
named assumptions of the modules: `LimitsAssumption` (of `RiskLimits`),
`ExchangeAssumption` and `CycleAssumption` for the cycle, `AskedAssumption` for
the engine, and `CalculationsAssumption`, `ReportingAssumption` and
`OperationsAssumption`, which collect those of the components. Every invariant and
every action property of a passing run is the statement of a theorem; the two
liveness properties are not. Most theorems are named after their property, with
`Always` at the end; the refinements are `CycleImplementsAtomicLedger`,
`AttemptsKeepThePromiseAlways` and `ProcessImplementsAttempt`.

| hypothesis beyond the assumptions | theorems that need it |
|---|---|
| `~Overlap` | all of `SerialLedgerProofs`, `SimulatorNeverFlattersAlways` among them |
| `~BarsChange` | `OneOrderPerBarAlways`, `VenueTradesBarOnceAlways`, also under overlap |
| `Backend # "simulated"` | `BookedOnlyWhatVenueExecutedAlways`: the simulator remembers no order to compare with |
| `MaxSnapshotAgeFactor >= 2` | `SimulatedBarsAreFinalAndFreshAlways`: the code's factor is 3 (`tb/cycle.py:27`); with 1 the age limit is the length of a bar, and a bar is as old when it closes |
| `MaxDelay <= 1` | `LinesAreReportedAlways`, `TransientsAreIgnoredAlways` |

The inductive invariants below were given to TLC before they were proved. A
proof has one lemma per action or per group of actions that do the same to the
invariant, and each theorem follows from invariants by temporal logic alone.

### The cycle

- `TypeCorrect` (`TradingCycleProofs`). `TypeOK` is not inductive: that a sale does
  not make the quantity negative depends on the order having been sized on the
  quantity its cycle still holds. `TypeInv` adds that approved orders fit the
  cycle's own quantity. Overlap is allowed.
- `OverlapProofs` starts with the shapes of a step (`EveryStep`): which attempt
  moves, what it takes along, what of the tables and the venue changes. Each
  invariant then only has to ask for the shape.
  - `RowsInv`, for `OneOrderPerBarAndSide`: the key of a row of the table or of the
    venue names its bar and side, so the two unique keys are enough even while
    bars form.
  - `BarInv`, for `OneOrderPerBar` and `VenueTradesBarOnce`: two orders of one bar with
    different sides have to be excluded too. The id of every row, and of every
    cycle that has its market data, is a function of the bar.
  - `FillsInv`, for `BookedOnlyWhatVenueExecuted`: a cycle that was told of a fill
    holds the fill the venue remembers, through lost answers, repeated requests
    and aborted attempts, until it commits it or dies.
  - `SwitchInv`, for `EngagedSwitchStopsNewCycles`: an attempt that found the switch
    clear while it is engaged began before it was engaged, and only such an attempt
    gets to the duplicate check.
  - `DatesInv`, for `AttemptsKeepThePromise`: snapshots carry the instants of attempts
    that have begun, and no two cycles share one; hence "has committed" is a
    matter of where the attempt is, and every step is one of `JobAttempt`.
- `SerialLedgerProofs`. `SerialInv` says that at most one attempt is active
  (`Alone`), that snapshots have instants of their own, that the tables agree with
  the history `book`, and that what the active attempt holds in its locals is
  `OnTrack`: the cash, quantity and opening it has read are still those of the
  tables, its order was decided on them, and after `Submit` what it would write is
  the ledger plus its fill. From it follow
  `LedgerMatchesFills`, `ReplaysAreCaughtEarly`, `OrdersFitTheBook`,
  `OrdersWithinLossBudget` and the refinement of `AtomicLedger`. Two more invariants
  build on it: `DayInv`, that a running cycle looks back to the last midnight
  unless it began before it, and `CostInv`, that the newest snapshot holds what is
  booked and that a fill on the simulator, valued at the price of its cycle, never
  gains. It rests on `SlippageWorksAgainst`: rounding half up never carries a slipped
  price past the price shown, up for a purchase and down for a sale.

### The calculations

- `PolicyEngineProofs`: the engine answers with the reference's quantity. The
  argument is in `RiskPolicyProofs`: a floor division is the largest integer whose
  product fits, and the minimum of three floors is the largest quantity within
  three bounds.
- Timeframes: `TimeInv` keeps what an execution knows of its bar (`Given`): it is the
  simulator's last closed bar at the fetch, or one a lagging venue may show, and
  the two clock readings are in order. The rest is the arithmetic of multiples.
- `SmaCrossover`: `SmaInv` says that when the newest closed bar left the fast average
  strictly on one side, either the last signal on a final close was that side or
  the average has never been on the other, and that a bar is bought only from
  below and sold only from above. The lemmas say that the spread of the window
  before is the spread of the bar before at its final close (`SameSpread`), although
  the series has dropped its oldest close, and that mirrored closes have the
  negative spread.
- `Portfolio`: `PortfolioInv` says that the loaded average is between two prices
  paid, and 0 when nothing is held. A purchase keeps this fill by fill with
  exact fractions (`BuyKeepsBetween`), and `StoredBounds` that rounding to the column
  keeps whole bounds. For `OnlySalesRealise`, the purchases of an execution keep
  quantity times average equal to what was held and spent (`BuyingCosts`), and sales
  leave the average until nothing is left (`SellingKeepsAverage`).

Sums and folds are recursive functions. The library's induction takes an
operator, so the proofs use a set instead: a set that contains 0 and with each
number the next contains all numbers up to a bound (`UpTo`), since a least number
outside would have a predecessor (`WFMin`, `NatLessThanWellFounded`). With it the
functions are shown to exist (`SumsExist`, `FoldsExist`) and everything needed of
them.

### Reporting and operations

- `ProcessInv`: what the settings were validated to, the stage of the transaction
  (a rollback or a commit behind a crash),
  and the metrics, events and exit code that go with each place in `main`. It is
  inductive for every environment, exception and kill.
- `Alerts`: `SilenceInv` bounds the silence when the absence rule was last evaluated,
  `LinesInv` says by its age whether a line is ingested and reported; for
  `TransientsAreIgnored`, `ScheduleInv` ties prompt executions to the clock, and
  `NewestInv` says that until two in a row were not prompt a completed line is
  ingested and young enough, or the one before it still is.
- `CostGuardInv`: the tags are those listed; servers listed as stopped, and those of
  the project behind the loop, were down since the listing.
- `DeploymentInv`: `Turns` (runs begin in their order, one at a time), `Images` (which
  images the jobs and the registry hold in which step), `Waits` (a migration whose
  run did not lose it runs only while the run waits for it, and the wait is longer
  than it may last), `Schemas` (past its migration a run has at least its schema,
  which never goes back).
- `MigrationInv`: a process that is under way in its script holds the table the
  script begins with (`Progress`, `Locks`), so no second one of its kind is; one of
  the other kind cannot be, since the committed version says which of the two is
  planned (`AsPlanned`). So at most one is under way (`OnlyOneUnderWay`), and the tables
  it sees are those of its place in the script. `UpgradeDoes` and
  `DowngradeDoes` go through the two scripts of the migration, statement by
  statement.

### Only model-checked

`EveryExecutionEnds` and `PipelinesEnd` are liveness properties under fairness, which
is beyond the prover, as is ENABLED and with it the absence of deadlock. The five
violations are counterexamples that TLC finds in instances.

## Not modelled

- Cloud resources (network, registry, database, key vault, identities):
  declarations without behaviour of their own.
- The text of reasons, log lines and audit checks, redaction, and the bodies of
  the metric instruments: nothing reads them back.
- The random walk of the simulator (any series stands for it), the ordering
  checks of a snapshot, the 28 digits of `Decimal`, timezones other than UTC
  (no caller passes one), the types of columns.
- Logins, secrets, the CI workflow before a deployment, a listing of servers
  that needs a second page, an Azure that loses an accepted request.

## Plan

Done: the modules above with their runs; every invariant and action property of
the passing runs proved, and the three refinements. Left, each first for TLC and
then for the prover: what overlapping executions can lose at most
(`overlap_ledger` shows that they lose something); the alerts' properties with
windows that grow with `MaxDelay`; settings that are deployed while the crossover
runs.
