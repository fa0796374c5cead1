# ducklake-metrics-daemon in TLA+

The daemon connects to one DuckLake catalog (Postgres) per tenant, runs a list
of SQL queries against each of them on a fixed cycle, and serves the rows as
Prometheus gauges on `/metrics`, with `/-/healthy` and `/-/ready` beside it.
These modules model what is concurrent in it: the schedulers and their cycle
goroutines, the inbox they share, the single writer of the gauges, the clockwork
of the tickers and the health probe, and the life of the process from the
command line to exit. TLC checks them on small instances; TLAPS proves their
safety properties and refinements for all instances.

## The system

| Part | Code | State it keeps | Operations |
|---|---|---|---|
| Publisher actor | `internal/publisher/publisher.go` | `lastLabels` (tuples of the last applied result per tenant and query), empty-acquire baselines; it is the only writer of the per-query gauges | `Run`, `safeApply`, `applyQuery`, `applyPoolStat`, `bumpEmptyAcquireCounter` |
| Scheduler and cycles | `internal/runner/runner.go` | the cancel function of the last cycle, `lastRun` of queries with an interval, `Liveness.lastFire`; per cycle its context and its place | `Run`, `fire`, `runCycle`, `dueQueries`, `stagger` |
| Process | `cmd/ducklake-metrics-daemon/main.go` | root context, inbox (1024), WaitGroup of the tenant goroutines, readiness flags, `Up`, HTTP error | `main`, `runTenant`, `connectWithBackoff`, the outer recovers |
| Health and readiness | `internal/server/server.go` | none of its own | `LivenessStatus`, `handleHealthy`, `handleReady`, `ListenAndServe`, `Shutdown` |
| Catalog | `internal/catalog/catalog.go` | a pgx pool of 4 connections per tenant and its counters | `Open`, `Query` (timeout, row cap), `Stat`, `Close` |
| Configuration, query library, metric registration | `internal/config`, `internal/queries`, `internal/metrics` | immutable after startup | `Load`, `LoadTenants`, `Merge`, `validate`, `Register` |

How they interact:

- `main` starts the HTTP server, the publisher and one goroutine per tenant.
  A tenant goroutine connects (for ever, with backoff), sets `Up`, marks itself
  ready and becomes the scheduler (`runner.Run`).
- A scheduler *fires*: it cancels the cycle before, without waiting for it, and
  starts the next in a goroutine that nobody joins. Cycles of one tenant may
  overlap.
- A cycle runs its due queries one by one and sends a result after each, then
  the pool statistics. A send is a `select` between the shared inbox and the
  cycle's context; when both are ready Go picks either.
- The publisher takes results one at a time. Scrapes read the gauges at any
  moment, also between two calls of one apply.
- Shutdown: root context, `wg.Wait` (tenant goroutines only), `close(inbox)`,
  the publisher or a timeout, `srv.Shutdown`, exit code.

What is hard in it: overlapping cycles and their late results; cancellation that
propagates from a parent context in several steps; a channel that is closed
while cycle goroutines may still send into it; a diff that must survive errors,
empty results and panics; timers that are late; a health answer that compares a
clock with a timestamp written by somebody else. `PROJECT.json` lists these
hazards with the line at which each bites.

What makes each part correct:

- *Publisher*: a result takes effect as a whole in between two results; no
  tuple that leaves the catalog stays on the page; no series leaves the page
  before the new snapshot is complete; error counts are exact.
- *Scheduler and cycles*: only the newest cycle of a tenant is not canceled; a
  canceled one ends whatever the publisher does, and sends little; every query
  of a cycle is attempted and shown at most once; older rows
  replace newer ones only through such late sends; the pool counter misses
  nothing.
- *Catalog*: no part of a result passes for the whole; the cap is exact; nothing
  leaks on an early return; every call comes back.
- *Startup*: the daemon serves with all its tenants and queries or not at all;
  the library is what the two lists and the disabled names say; `/-/ready` never
  takes back a 200.
- *Process*: the inbox is closed under no blocked sender; no connection is used
  after its pool has been closed; shutdown always completes, with the right code.
- *Schedule and health*: no drift; cadences kept within one delay, of every
  interval a duration can hold, through overruns as far down the list as a cycle is sure to reach; a dead scheduler is
  reported and a living one is not.

## Modules

| Module | Models | State and actions |
|---|---|---|
| `QueryResults` | the data of a result: rows, label tuples, cells | `Written`, `LabelsOf`, `Poisonous` (a row the client library refuses) |
| `Board` | the abstract promise of the publisher | `Apply` replaces a query's snapshot at once; `Spoil` is a panic part of the way |
| `Publisher` | `applyQuery`, one client-library call per step | `Lookup` (`WithLabelValues`, creates a series at zero), `Store` (`Set`), `DeleteSeries`, `SkipNull`, `Panic`, `RejectResult`, `Finish` (`lastLabels`) |
| `Runner` | schedulers, cycles, inbox; the publisher with one step per result | `Fire`, `ReturnFromStagger`, `ReturnFromLoop`; `CheckKilled` to `Unwind` are the places of `runCycle`; `Receive`, `PublisherReturns`; `CancelRoot`, `Propagate` |
| `Pipeline` | the abstract promise of schedulers, cycles, inbox and publisher | `Start` begins a cycle with its attempts; each attempt is one `Show` or is lost (`Lose`) |
| `Daemon` | `main` and `runTenant` over `Runner` | `OpenFails` to `EndClose` are `runTenant`; `SchedulerPanics` is the outer recover; `SeeDone` to `Exit` are `main` after `<-ctx.Done()` |
| `Durations` | seconds as a `time.Duration` | `Wrap`, `InSeconds` |
| `Schedule` | tickers, due queries and `/-/healthy` in discrete time | `FirstFire`, `TakeTick`, `Advance` (the clock and the tickers), `Die`, `BeginProbe`, `Answer` |
| `Overrun` | `Schedule` with cycles that take time | `FireFirst`, `FireOnTick` kill and start; `QueryReturns` is one query of the newest cycle; `TimePasses` stops at `QueryTimeout` |
| `CatalogQuery` | `Catalog.Open` and `Catalog.Query`, row by row | `CreatePool`, `PingFails`; `Call`, `Begin`, `NextRow`, the ways out of the loop; `Expire` is the context; `Publish` the page, `Change` the table |
| `Startup` | `main` up to the server, `internal/config`, `internal/queries`, `metrics.Register`, `handleReady` | `LoadSettings` to `Validate` are `config.Load`; `LoadLibrary`, `MergeEntry`, `FilterDisabled`; `RegisterGauge`; `MarkReady`, `ReadFlag` |
| `PublisherProofs`, `CatalogQueryProofs`, `ScheduleProofs`, `OverrunProofs`, `RunnerProofs`, `PipelineProofs`, `DaemonProofs`, `StartupProofs` | theorems about the module of that name (`PipelineProofs`: that `Runner` implements `Pipeline`) | |

The modules named `MC...` give the constants their values for TLC. `Daemon`
EXTENDS `Runner` and composes the actions of its goroutines with those of
`main`; `Schedule` and `Startup` EXTEND `Durations`; `Overrun` EXTENDS `Schedule` and composes fires with the progress of the
cycles they start. `Runner` is shown to implement `Pipeline` under
`started <- fires`, `shown <- applied`, `pending <- Pending`: the cycles that
still have the query to send or have it in the inbox (`ImplementsPipeline`).
`Runner` and `Daemon` do not use `Publisher`: they need of an apply only which
cycle's rows the gauges show, and `Publisher` shows that, between results, an
apply is one step. `Publisher` receives results
in any order and with any content; what is really sent is the matter of
`Runner`.

Correspondence that is not obvious:

- *A Go select.* `Send` and `Abort` are both enabled when the inbox has room and
  the context is done: either may happen. `Park` is the goroutine blocking. A
  parked sender is served by a receive (`Receive` moves its result into the
  slot), woken by its cancellation (`Cancel`), or panics when the channel is
  closed (`CloseInbox`).
- *Contexts.* Canceling the root (`CancelRoot`) closes the root's channel
  before the children are canceled, one by one (`Propagate`). A cycle started
  after that is born canceled.
- *Connections.* `Acquire` needs a free connection and an open pool;
  `AcquireFails` stands for a closed pool, a canceled context, `QueryTimeout` and
  a lost connection that the pool cannot replace; `QueryReturns` for rows, an SQL error, a decode error, the
  row cap and a column mismatch found later: what follows is the same, a failed
  result leaves the gauges alone.
- *A NULL and a value `toFloat` refuses* are the same cell, `Null`: both count
  an error and leave the gauge as it was.
- *A query that panics* (`QueryCrashes`) ends its cycle, which neither completes
  nor is killed. `Overrun` leaves such panics out, and the time a cycle waits for
  the publisher.
- *Rows* of `CatalogQuery` are collected in a set: the order of rows is nothing
  the cap or the timeout looks at. The publisher's handling of them is
  `Publisher`; here the page is the rows of the last good result.
- *Startup* is deterministic but for the order in which gauges are registered,
  which decides nothing but the name in the panic. A setting is what `Atoi`
  makes of the variable. The word of `Wrap` is small and `Second` a power of two
  in it; 10^9 in 2^64 reaches negative, zero and tiny durations alike. Names
  are sequences of words, so that `a_b` + `c` and `a` + `b_c` are the same name.
- *Intervals of queries* (`Pause`) are products that wrap, like the settings of
  `Startup`: `validate` refuses only negative numbers of seconds. `Length` is the
  time they mean.
- *Clocks.* `Schedule` has one clock. The tickers and the `time.Now().Sub` of
  `dueQueries` are monotonic, but `Liveness` keeps a wall-clock `UnixNano`: what
  `NoFalseAlarm` and `DeathIsReported` say holds while nobody sets that clock. A
  tick that the ticker drops, `MaxLate` not below `Interval`, is outside of the
  model too, and with it the single missed tick of `AGENT.md:134`. Twice an
  interval of 147 years, which would wrap in `LivenessStatus`, is left out.
- *Auxiliary variables* (`gaugeBefore`, `errorsBefore`, `late`, `firstSeen`,
  `firstFire`, `fires` and `runs` of `Schedule`, `diedAt`, `answered`,
  `answeredAt`, `snapshot`, `before`) record history for
  properties; no guard of a code action reads them except `fires`, whose guard
  is the bound.
- Definitions marked *Faulty* state a plausible slip in the definition that
  follows; no specification uses them. Each is there to show that a property
  notices it.

## Runs

| Run | Instance | Shows |
|---|---|---|
| `publisher` | 2 tenants, 1 query, 2 value columns, 3 label tuples (one refused by the client library), 6 result sets, 4 results | `NoOrphanSeries`, `NoBlankWindow`, `ErrorsCountNullCells`, `ApplyProgress`, refinement `BoardSpec` |
| `runner` | 1 tenant, 2 queries (one with an interval), inbox of 2, 1 connection, 2 fires | `OnlyNewestRuns`, `FewLateSends`, `StaleOnlyFromKilled`, `SerialWithinCycle`, `EmptyCounterExact`, `EmptyCounterMissesNothing`, refinement `ImplementsPipeline`, liveness `KilledCyclesEnd` |
| `daemon` | 1 tenant, 1 query, inbox of 1, 2 fires, 1 connect failure | `ClosedUnderNobody`, `NoConnAfterClose`, `ServedTenantsAreUp`, `ServesUntilDrained`, `ExitIsOrderly`, liveness `ShutdownCompletes` |
| `daemon_tenants` | 2 tenants, 1 fire each | `ClosedUnderNobody`, `ExitIsOrderly`: the properties that depend on who is waited for |
| `schedule` | 2 tenants, 4 queries (every cycle, an interval within a cycle, one of two cycles, and the least that wraps), a word of 15, 2 units to the second, interval 3, lateness 1, 12 instants | `NoDrift`, `NotStarved`, `NeverEarly`, `NoFalseAlarm`, `DeathIsReported` |
| `overrun` | 1 tenant, 3 queries (the second every two cycles), interval 6, timeout 2, lateness 1, 32 instants | `KilledOnlyPastReach`, `FreshWithinReach` |
| `catalog` | 2 callers, 1 connection, table of up to 2 rows that changes once, caps 0 to 2, 1 failed `Open` | `CapIsExact`, `NothingLeaks`, `ShowsWholeSnapshots`, liveness `CallsReturn` |
| `startup` | 441 environments, varied one part at a time: settings, tenants, query files and disabled names | `ResolvedLibrary`, `AllOrNothing`, `WindowUnlessWrapped`, `ReadyIsHonest` |

Bounds. Results of different owners touch disjoint series, so two owners show
the isolation; a diff needs two results of one owner, a third after an error or
a panic, and a fourth for the other owner. The overlap of cycles needs two fires
(the property of a third cycle is that of the second); an inbox of one or two is
full with one cycle. `MaxEmpty` and `MaxFailures` bound counters that are only
compared and counted. The schedule's twelve instants hold four fires: a late
dispatch, the tick that misses its window by that delay, the one after it, and a
probe more than two intervals after a death. Of its intervals one ends exactly
where an early tick after a late one comes, one is a whole number of cycles, and
one wraps to a negative duration. The 32 instants of `overrun` hold five
intervals, so two windows of the slow query with kills and a late fire in each;
two of its three queries are within reach (`Reach` = 2) and the third is what
gets killed. In `catalog` two callers and one connection exhaust the pool, and
the caps lie below, at and above the size of the table. In `startup` settings
take the values on either side of each comparison and those whose product with
`Second` wraps to the least duration, a negative one, zero and one second;
tenants files have up to two entries and query files up to two, which is what a
collision takes. `daemon_tenants` and `schedule` use the
symmetry of the tenants, which no action or property tells apart; no liveness is
checked there. Deadlock is checked in every run: the only states without a real
successor are the ends (`Returned`, `Quiescent`, `ProcessGone`, `TimeIsUp`, `Exhausted`, `Stopped`).

Fairness. `FairCycles` assumes of each cycle goroutine that it is scheduled and
that a query comes back, which the timeout of its context guarantees; nothing of
the publisher, the ticker or the root. `DaemonFair` adds main and the tenant
goroutines (an `Open` and a `Close` come back; a select with a done context and
a bounded number of ticks leaves through the context). The publisher, the
scheduler's panic, the HTTP server and the signal are not fair. `FairTimeouts`
of `CatalogQuery` assumes only that the timer of a call's context expires and
that pgx, which watches the context while it waits for a connection or a row,
notices; the server, the publisher and the other caller may stop for good.

### Runs that end in a violation

Each states what the documents say, and TLC shows a behaviour of the code that
does otherwise (`findings` in `PROJECT.json` quotes the lines).

- `runner_order`: a killed cycle's rows may overwrite newer ones.
- `runner_pool_counter`: a late pool snapshot makes
  `pool_empty_acquire_total` count the same growth twice.
- `daemon_panic`: a canceled cycle may panic on the closed inbox, and be counted
  in `query_panics_total`.
- `overrun_slow`: a query with an interval is killed by the next fire within its
  own timeout, because the queries before it took up the cycle; its window is
  lost.

Other places where a document and the code part, seen while modelling and read
off the code without a run:

- `AGENT.md:58`: an apply is not atomic to a scraper; one gauge call after the
  other, a new series first at zero.
- `metrics.go:65`, `AGENT.md:83`, `AGENT.md:138`: `Up` does not go to 0 during a
  reconnect. It is set to 1 after the first connection and to 0 when `runTenant`
  returns (`main.go:325-326`); a pool that lost its connections makes queries
  fail, and `Up` stays 1. `ServedTenantsAreUp` states what the code does.
- `AGENT.md:83`, `AGENT.md:161`: no `Up` series exists while the first connection
  fails.
- `AGENT.md:95` (`CycleCompletedTotal`): a cycle that is killed after its last
  query may still send the pool statistics and count as completed.
- `AGENT.md:105`: an alert on a last success four cycles old is about failing
  queries, but a healthy query with an hourly interval (`builtin.yaml:258`)
  sets it off.
- `AGENT.md:153`: there is a per-query interval.
- `AGENT.md:168`: of a result that panics the rows before the panic are written,
  and their new tuples are tracked by nobody.
- `AGENT.md:169`: a scheduler's panic is counted in `tenant_restarts_total`; and
  the 503 it promises comes only if the scheduler had fired (`AGENT.md:128`).
- `README.md:25`: `--list-queries` accepts a library that `Register` panics on.
- `main.go:244`: the publisher may leave the inbox undrained, for its context is
  done by then.
- `queries.go:44`: an `interval_seconds` of 9223372037 or more, of which only the
  sign is validated, wraps at `runner.go:263`, and the query may then run in
  every cycle instead of being skipped. `Schedule` models it (`Pause`);
  `NotStarved` holds all the same, `NeverEarly` only of the others (`Fits`).
- `queries.go:52`: an interval of exactly k cycles may run after k + 1, for both
  of its ends are late moments.
- `config.go:151`: the comment speaks of `LivenessTimeout`, the check is against
  `CycleInterval`.
- `tenants.go:33`: the single tenant of the environment may have any id.
- The header of `server.go` describes `currentQueryStart` and `restarting`,
  which do not exist.
- The help text of `ducklake_config`: the sample of an unreadable value is not
  dropped when its series exists; the old value stays.

## Proofs

TLAPS proves, for every value of the constants the assumptions admit, the type
invariants, safety invariants, action properties and refinements that the
passing runs check. Each component has a module of proofs; each theorem names
the property of a run (`theorems` in `PROJECT.json` lists them), so that the run
shows on a small instance what the theorem says of all.

Each proof has an inductive invariant: the property itself is seldom one. What
they add is the following.

- `PublisherProofs` (any tenants, queries, columns, labels, values and result
  sets). `ApplyProgress` describes every gauge in the middle of a result: the
  old board overwritten by the rows already passed and the columns already
  visited, and in the Delete loop the new snapshot without the tuples already
  deleted. A `Set` extends the prefix by one cell, and the last writer of the
  longer prefix is that cell. `NoOrphanSeries` and `NoBlankWindow` follow with
  it: in the Delete loop the whole snapshot is shown, and a gone tuple still on
  the page is still to be deleted. `ErrorsProgress` counts, in mid-result, the
  unreadable cells visited so far (`NullDone`); at the end these are all.
  `ImplementsBoard`: under `board <- gaugeBefore`, `tracked <- lastLabels`,
  `Finish` is `Apply`, `Panic` is `Spoil`, every other step stutters.
- `CatalogQueryProofs` (any table, caps, callers and connections). `Inv`: what a
  call has collected and what it has not read are disjoint and together one
  snapshot, it has collected no more than its cap, and as many connections are
  held as calls stream. `CapIsExact` needs both halves: a call that meets the cap
  has collected as many rows as it allows and sees one more.
- `ScheduleProofs` (any interval, lateness below it, queries and tenants). `Inv`
  says of each tenant that its last fire came in its slot, the nth one n - 1
  intervals after the first (`History`), that the next tick is for the next slot
  (`Ticking`), and of each query that its last run was in the slot of a fire
  since which fewer fires came than its interval takes (`Cadence`). The division
  in `CyclesIn` is reduced to multiples of the interval by `DivideUp` and
  `CyclesAtLeast`. A duration is never longer than its seconds, and as long if
  they fit (`PauseAtMost`): `NotStarved` needs the first, for intervals of any
  length, `NeverEarly` the second, and says nothing of an interval that wraps.
  `NoFalseAlarm` and `DeathIsReported` compare two slots with
  the window of a probe whose clock may be stale.
- `OverrunProofs`. By construction a step of `Overrun` is one of `Schedule` or
  leaves its variables alone, so that `Inv` is at hand. `CyclesInv`: a cycle
  not done has spent at most one timeout on each answer (`CycleInTime`), what is
  left of it lies further down the list than the answers it has got (`Left`) and
  was dispatched by the last fire, and a query within reach was answered in time
  before its last dispatch (`Served`). `Reach` timeouts end before the next tick
  (`WithinReach`), so that a kill leaves every query within reach answered:
  `KilledOnlyPastReach`, `FreshWithinReach`.
- `RunnerProofs` (any tenants, queries, fires, inbox and pool).
  `OnlyNewestRuns` is inductive with `TypeOK`. `FewLateSends` needs that only a
  canceled cycle has sent late. `SerialWithinCycle` needs `QueueInv`: a cycle has
  in hand its next query, or the statistics when none is left, and what it has
  sent ranks below all it has still to send. `EmptyCounterMissesNothing` needs
  that an unseen tenant has counted nothing. `EmptyCounterExact` needs
  `CounterInv`: while nothing of a tenant was sent late, the counts in the inbox,
  and after them the one in the hands of the only cycle that may still send, are
  ordered, between the baseline and the pool's own count; this rests on
  `OnlyNewestRuns` and `QueueInv`.
- `PipelineProofs`. `OrderInv`: the gauges of a tenant are behind each result in
  the inbox that was sent in time, and no result before it is newer.
  `StaleOnlyFromKilled` follows. For `ImplementsPipeline`, what a cycle owes
  (`Owed`) is what is left of its list and what it has in the inbox; sending a
  result moves it from the one to the other, which `Pipeline` does not see,
  receiving it is `Show` or `Lose`, and a cycle that ends loses what is left. The
  two parts never share a query, by `QueueInv`: that is why nothing is shown
  twice. `NothingIsShownTwice` says it without the abstract specification: the
  gauges change only to an attempt under way, and one that was shown or lost
  never is under way again.
- `DaemonProofs`. `RunnerInv` keeps the invariants of `Runner` under what the
  process adds: schedulers that panic, pools and an inbox that are closed.
  `LifeInv` ties the place of a tenant goroutine to its scheduler, its pool, its
  readiness and its gauge `Up`; `MainInv` the place of main to the inbox, the
  publisher and the server; `ConnInv` says who can still hold a connection.
  Neither half can do without the other: closing the inbox wakes nobody because
  every tenant goroutine is gone by then, a scheduler that is gone has canceled
  its cycle, and a canceled cycle is not parked (`NobodySends`). The properties
  of `Runner` and the refinement of `Pipeline` are proved again under
  `DaemonSpec`: the steps that are not steps of `Runner` only cancel, wake and
  unwind cycles (`Besides`), and show, send and count nothing.
- `StartupProofs` (any word size, any environments and files). `ReadyIsHonest`:
  a tenant ready when the request began is among those still to be asked
  (`ReadyInv`). `WindowUnlessWrapped`: what `Wrap` does to a product that fits
  and to one that does not (`WrapFits`, `ParsedSeconds`). `ResolvedLibrary`:
  after n entries the map holds the last entry of each name among them
  (`KeptOf`). `AllOrNothing`: the tenants file has been read without a fault up
  to the entry where `main` is (`ReadUpTo`), and every gauge registered so far
  belongs to a query and is alone in its name (`GaugesInv`).

What is assumed of the constants, where it is declared; TLC evaluates each in a
run of that module:

| Assumption | Says | Why the code justifies it |
|---|---|---|
| `DataAssumption`, `MaxResultsAssumption` | a result has finitely many columns; the result sets are sequences of rows; the special values are no numbers | rows and columns are slices |
| `CatalogAssumption` | the table is finite, a pool has a connection, caps are not negative | `validate` refuses a negative cap; `MaxConns` is 4 |
| `DurationAssumption` | a second is a number of the word | 10^9 is below 2^63 |
| `ScheduleAssumption` | the cycle interval is positive, lateness below one interval, the queries' intervals are numbers of seconds in the word and not negative | `validate` of the queries; a `CycleInterval` that wrapped to nothing or less is found by `Startup` (`WindowUnlessWrapped`), and `Run` would panic on it in `NewTicker`; a tick more than an interval late would be dropped by the ticker, which is outside of the model |
| `OverrunAssumption` | the list is finite and orders the queries; a query's timeout is shorter than the interval | the list is a slice; `validate` refuses the rest |
| `RunnerAssumption`, `DaemonAssumption` | bounds are numbers; inbox and pool have room for one | constants of the code |
| `StartupAssumption`, `FilesAssumption` | the defaults fit the word; what is read of a file is a list | constants of the code; what YAML is decoded into |

What a proof cannot say stays with TLC: the liveness properties
`KilledCyclesEnd`, `ShutdownCompletes` and `CallsReturn`, for they rest on
fairness, and the four runs that end in a violation, which are counterexamples.
That the running query of a cycle, or the next of its list, is the least one is
no induction over data here but a fact of well-founded finite intervals
(`LeastElement`, `LeastPlace`).

## Not modelled, and why

- `ResetTenantGauges`: called by nobody in this repository.
- Duration, last-success and pool gauges: written, never read; no property.
- `/metrics` rendering, logging and the output of `--list-queries`.
- DSN quoting and error classification: strings to strings. The doubling of the
  backoff delay: a sleep of any length in `Daemon`.
- YAML and regular expressions: an entry is sound or it is not.
- The double count of a canceled cycle that panics (`QueryPanicsTotal` and
  `CycleKilledTotal`): where a cycle ends stands for one counter.
- The content of the SQL.

## Plan

1. Done: `Publisher`; `Runner` and its refinement of `Pipeline`; `Daemon`;
   `Schedule` and `Overrun`; `CatalogQuery`; `Startup`.
2. Done: the proofs of every safety property, action property and refinement.
3. Left: what the liveness properties rest on and is not liveness, a rank that
   every step of a canceled cycle lowers; and how far above the pool's own count
   late results can take `PoolEmptyAcquireTotal`, which `CounterIsExact` excludes
   and `runner_pool_counter` only shows to happen.
