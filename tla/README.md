# A TLA+ verification of gozerai-telemetry

gozerai-telemetry is a Python library without dependencies: metrics, tracing,
health reports, and the patterns a service puts around its calls (circuit
breaker, retry, bulkhead, rate limiter, load shedder, hedged requests, buffers).
Most of its classes are small objects that many threads or coroutines share,
some behind a lock and some not. What is hard to test in them is the order in
which those callers interleave, and that is what these modules are about.

Paths below are relative to the package, `src/gozerai_telemetry/`.

## 1. Inventory

| Part | State | Operations | Hard behaviour | What makes it correct |
|---|---|---|---|---|
| `CircuitBreaker` (`resilience/_base.py`) | state, failure count, time of the last failure, totals; no lock | `state`, `allow_request`, `record_success`, `record_failure`, `reset` | reading the state changes it; verdicts of calls admitted long ago arrive in any state; threads switch inside the methods | only the documented transitions; a closed circuit is below its threshold; every call is recorded once |
| `resilient_request` (async, httpx) | loop variable, awaits | one call | retries, three kinds of exit, cancellation at every await | the verdict fits the result; every admitted call ends |
| `resilient_fetch` (sync, urllib) | the same, in threads | one call | shares the unlocked breaker with other threads | the same |
| breaker registry, `MetricsCollector`, `get_collector`, `BatchCollector`, `lazy.py` | dicts filled on demand, no lock | get or create | check-then-act | one object per name |
| `LoadShedder` | tokens, time of the refill, statistics; one lock | `check`, `try_acquire`, readers that refill, `reset` | fractions of the refill collected by different calls, costs of zero or above the bucket | rate bounded in every window, no needless shedding |
| `HedgedRequest` | winner, errors, finished count, event | `execute` | late and simultaneous answers, hanging backends, timeout | first success wins, fails early only if all failed, returns |
| `AdaptiveTimeout` | window of samples | record, compute | stamped before the lock, so the window is out of order; percentiles of what is young enough | rests on the newest young samples and covers them |
| `Bulkhead` (`patterns.py`) | semaphore, count under another lock | `acquire`, `release` | the two updates are not atomic together | permits conserved, count exact |
| `RateLimiter` | deque of stamps, lock | `allow`, `wait`, `get_stats` | the clock is read before the lock | no window over the limit; `wait` exact |
| `AsyncRateLimiter` | deque of stamps, asyncio lock | `allow`, `wait(timeout)` | waiters poll and compete; deadline against the last sleep | window limit, timeout neither early nor late |
| `Timeout`, `FallbackChain` | result box, event; list of functions | run | abandoned thread answers late | a late answer changes nothing |
| `Counter`, `Gauge`, `Histogram` (`metrics.py`) | value per label set, lock | `inc`, `observe`, export | cardinality limit; cumulative buckets | nothing lost but at the limit; exported buckets are the counts |
| `BatchCounter` | buffer, count, a `Counter` | `inc`, `flush`, readers | concurrent flushes; a reader between buffer and counter | increments conserved |
| `ExportBuffer` | buffer, totals, handlers | `record`, `flush` | handlers run outside the lock; unlocked total | each snapshot to each handler once |
| `BufferedExporter` | stop event, thread, buffer | `start`, `stop`, loop | join that times out, restart, last flush | one loop at a time, nothing left behind |
| `SpanPool` | deque of spans, `_in_use` marks | `acquire`, `release`, `span` | mark tested and cleared outside the lock, by a release that may come twice; overflow | no span serves two operations unless one of them was released twice |
| `OfflineMetricBuffer` (`autonomy/`) | bounded deque, marks, totals | record, `flush_sync`, `expire_old`, `clear` | eviction and expiry during an export; two flushes | every entry accounted for, exported once but by two flushes at the same time |
| `OfflineStorage` (`self_sufficiency/`) | buffer and files | store, store to disk, sync | failure, exception and crash between the buffer and the file | stored entries reach the sync function, or their loss has a name |
| `SelfHealingCollector` | record per collector | `run`, `reset`, `register`, `unregister` | a record replaced or reset while it runs | status and failure count fit the last run |
| `CircuitBreakerTuner` (`autonomy/`) | failures, open trips, a bounded list of recovery times | record, recommend, apply | reading the breaker changes it; settings change while it counts | no trip lost, the circuit still opens |
| `HealthThresholdTuner`, `RetryOptimizer` | bounded histories | record, recommend | ranks at the ends of a window | thresholds ordered, recommendations cover the usual case |
| `AnomalyDetector` | windows, running sums | `record`, `reset` | sums slide with the window | verdict is that of the window's own values |
| `Tracer` (`tracing.py`) | context variable, list of spans | `span`, `clear` | tasks copy contexts; the list is trimmed without a lock | spans nest, newest are kept |
| `CorrelationContext` (`correlation.py`) | context variable, a token per object | enter, exit, middleware | an object entered twice or left elsewhere | the identifier before the scope is restored |
| `HealthReporter` (`health.py`) | dict of checks | register, `check_all` | late checks; the dict changes under the loop | complete report, worst status |
| `IntervalTuner`, SLO | an interval; two counters | record, read | floating point; torn reads | not modelled, see section 8 |
| formats, dashboard, docs, log format | none | formatting | – | not modelled |

The parts meet in few places: both request functions call the breaker;
`BatchCounter` flushes into a `Counter`; `BufferedExporter` drives an
`ExportBuffer` whose handlers are the user's; spans of a `SpanPool` go through
the context variable of `tracing.py`. The hazards found in each part are listed,
at their lines, in `PROJECT.json`.

## 2. What counts as a step

*Threads.* CPython lets another thread run when the running one makes a call,
takes a lock or goes round a loop. So a statement such as `self._active += 1`,
which contains no call, is part of a larger step; `self._total += len(batch)`
is two (the total is read before the call of `len`); `time.time()`, the logger,
a handler and a callback are places where others run. A block under a lock is
one step with respect to everything else that runs under that lock. Two steps
of one thread are merged only if the first touches nothing another can see.

*Coroutines.* Code between two awaits is one step. An uncontended
`asyncio.Lock` does not suspend, and the locks here are never held across an
await.

*Time.* Clocks are natural numbers that tick; the tick is coarser than the
code's floats and any two readings may fall into one. The httpx and urllib
responses, the handlers, the export function and the backends are the
environment: they answer in any of the ways the code tells apart, or not at all.

## 3. The modules

| Module | Models | State and actions |
|---|---|---|
| `CircuitBreaker` | the breaker as a value | one operator per method; `CountFailure` and `Trip` are `record_failure` before and after its `time.time()` |
| `ResilientRequest` | coroutines in `resilient_request` | `Start` (admission up to the first await), `Respond…`, `RetryLater`, `GiveUp` (what each response leads to), `Wake`, `Exit`, `ExitGarbage` (the end of `async with`), `Cancel`, `ReadState`, `Reset` |
| `ResilientFetch` | threads in `resilient_fetch` | `Start`, `Expire`, `ReadBack` are the three parts of the `state` property; `Fail`, `TripBreaker` the halves of `record_failure` |
| `CircuitTuner` | the breaker's tuner | `Call` and `Ask` are the breaker's callers, `TellFailure` and `TellSuccess` their reports to the tuner, later and with the clock read before its lock; `Bounded` is what a deque with a `maxlen` does; `Recommend` computes from `Bursts`, `Threshold`, `Timeout` what `Apply` sets |
| `LoadShedder` | the token bucket | `Check` = `Shed`, `Admit` or `Degrade`; `Read`, `Reset`; `OpenWindow` belongs to an observer |
| `HedgedRequest` | one `execute` | the caller's `Launch`, `Resume`, `Awake`, `Expire`, `Check`, `CountFailure`; a backend's `Answer`, `Win`, `Lose`, `Fail` |
| `TimedCalls` | a `FallbackChain` of `Timeout`s | the caller's `Begin`, `Take`, `Expire`; a worker's `Finish` and `SetCompleted`, which may come after it was left behind |
| `HealthReporter` | `check_all` beside `register_check` and `unregister_check` | `CheckAll`, then a `Step` per entry of the dict, `Report` or `LoopFails` (`Changed` is what the iterator of a dict notices); a removed entry leaves a gap in the order of insertion, as in a dict |
| `SelfHealing` | threads in `run` of one name | `Begin` looks the record up, `Attempt`, `Succeed`, `Fail`, `MarkFailed`, `Recover`, `GiveUp` work on it; `Register`, `Unregister`, `Reset` |
| `SlidingWindow` | the deque and its pruning, for both limiters | `log` is never shortened; `first` is where the deque begins, so what was pruned can still be counted |
| `RateLimiter` | threads | `ReadClock`, then `Allow` or `Look` under the lock |
| `AsyncRateLimiter` | coroutines | `Allow`; `Attempt` is one turn of the loop in `wait` |
| `Bulkhead` | semaphore and count | `TryPermit`, `NoPermit`, `Wait`, `GetPermit`, `TimeOut`, `CountIn`, `CountRejected`; `CountOut`, `ReturnPermit` |
| `SpanPool` | pool and spans | `Acquire`, `ResetSpan`; `Release` (the test of the mark, in `ReleaseOnce` or `ReleaseAgain`), `Record`, `Unmark`, `Return` are the parts of `release` |
| `Registry` | get-or-create without a lock, one name | `Begin` (the test), `Make` (the store), `Return` (the read), `Clear` |
| `LazyInstrument` | the double-checked creation in `lazy.py` | `Begin`, `Ensure` (under the lock), `Mark` (`_initialized`), `Use` |
| `BatchCounter` | buffer, flush, `Counter.inc` | `Inc`, `Swap`, `Apply` per label set |
| `ExportBuffer` | buffer, flush, handlers | `Record`, `Drop`, `Swap`, `Hand`, `ReadFlushed`, `StoreFlushed`; `Continue` is what a thread does until its `record` or `flush` returns |
| `BufferedExporter` | EXTENDS `ExportBuffer`; owner and background threads | `Start`, `Stop`, `Join` or `JoinTimesOut`, `FlushRest`, `FlushGoesOn`, `Stopped`; `TestLoop`, `EndWait`, `Capture`, `CountAndFlush`, `Flushed` |
| `Lists` | list comprehensions with a condition, and `sorted` | `Keeping`, `Ascending` |
| `OfflineBuffer` | the offline metric buffer | `ReadClock`, `Store`, `Expire`, `Clear`; `Choose`, `Accept`/`Refuse`, `Mark`, `ReadTotal`, `StoreTotal`, `Purge` are `flush_sync` |
| `OfflineStorage` | list, files, `sync`, crashes | `Store`; `TakeAll`, then `Write`, `WriteFails` (an OSError that is caught) or `WriteRaises` (what is not) are `store_to_disk`; `Copy`, `Load`, `Send`, `ClearMemory`, `ClearDiskFiles` are `sync`; `Clear`; `Crash` ends every call and keeps the files |
| `Tracing` | spans of several tasks | `Open`, `End` (`reset` of the variable), `Record` (append), `Check` (length and copy), `Trim` (the assignment of the shortened copy), `Clear`, `Start` of a task |
| `Correlation` | the identifier and its scopes | `Enter`, `Exit`, `Receive`, `Inject`, `Start` of a task; an object has one slot for its token |
| `Percentiles` | the percentile formulas of three files | `Interpolated`, `Weighted`; `PercentilesAgree` is the reference they are compared with |
| `Histogram`, `EfficientHistogram` | the two histograms | `Observe`, `Reset`; `BucketLine` is a line of the export. `EfficientHistogram` is shown to implement `Histogram` under the refinement mapping `Plain` |
| `AnomalyDetector` | `record` | `Classify` against the running sums, then `Evict` and `Push` |
| `AdaptiveTimeout` | the window of latencies | `Make` (stamps), `Record` (appends under the lock), `Timeout` is `get_timeout` |
| `HealthTuner`, `RetryOptimizer` | learnt thresholds and retries | `RecordCheck`, `RecordOutcome`; `DegradedAt`, `UnhealthyAt`, `MaxRetries` are what they answer |

Six modules compose the components for the runs. Their first variable is chosen at
the start and says which component moves; the state of the others rests. Those in
one module share a resource or an interface (the breaker, the sliding window, the
export buffer), or belong to one concern and do not touch each other in the code
either; they are put side by side so that the same threads, bounds and properties
serve them all.

| Module | Extends | Instantiates |
|---|---|---|
| `MCBreakers` | `ResilientRequest` | `ResilientFetch`, `CircuitTuner`: the three users of `CircuitBreaker` |
| `MCResilience` | `LoadShedder` | `HedgedRequest`, `TimedCalls`, `HealthReporter`, `SelfHealing`: what stands between a caller and what may fail or hang |
| `MCRateLimiters` | `RateLimiter` | `AsyncRateLimiter`, on the same `log`, `first` and `now` of `SlidingWindow` |
| `MCShared` | `Bulkhead` | `SpanPool`, `Registry`, `LazyInstrument`: what the threads of a service share |
| `MCExporters` | `BufferedExporter` (and so `ExportBuffer`, also used directly by threads) | `BatchCounter`: what is flushed in batches |
| `MCTelemetry` | `OfflineBuffer` | `OfflineStorage`, `Tracing`, `Correlation`, `Histogram`, `EfficientHistogram`, `AnomalyDetector`, `AdaptiveTimeout`, `HealthTuner`, `RetryOptimizer`: what is kept, and what is learnt from it |

`MCResilientRequest` adds the symmetry of the calls for the two runs that only look
for a safety counterexample; runs with liveness use none. Definitions with an
underscore in their names (`Trips_OffByOne`, marked *Faulty*) are deliberately
wrong variants of the definition below them. No specification uses them. Put in
its place they must make TLC find the property named in `PROJECT.json`
violated, which shows that the property depends on that code.

History variables (`failRun`, `probes`, `booked`, `log[i].at`, `spent`, `handed`,
`ended`, `doubled`, `mixed`, `recovered`, `accepted`, `shared`, `torn`, `swept`, `unsaved`,
`alone`, `seen`, …) record what happened and are never
read by an action to decide what it does.

### Abstractions worth knowing

- A response is one of: data, garbage (2xx but not JSON), error (a final
  status), retryable, exception. Delays and jitter are sleeps of any length.
- The exit of `async with` is taken not to raise; the exit after a retried
  status is part of the wake-up that follows it.
- Negative `max_retries`, zero thresholds and empty windows are excluded by the
  assumptions on the constants.
- `LoadShedder` works on whole tokens; rounding of floats is out of scope.
- `BatchCounter.inc` has amount 1. The interval that triggers a flush may be
  over at any time. Export handlers that raise count as called, as in the code.
- `SpanPool`: an operation stands for the identifiers and attributes in a span.
- `SpanPool`: only the thread of an operation releases its span, any number of times
  until it forgets it, as `with pool.span()` does it when the body calls `release`.
- `BatchCounter` has no readers, as these change nothing.
- `BufferedExporter` has one owner; its clearing of the event and starting of the
  thread are one step, as nothing but the old thread, which sees the same either
  way, can observe the difference.
- `CircuitTuner`: a tick is ten seconds, the unit of the limits on a recommended
  timeout. The two reads of the history inside one recommendation are one step.
- `TimedCalls`: a chain is a chain of functions that are each wrapped in a `Timeout`;
  the code leaves it to the caller to compose the two.
- `HealthReporter`: a check that answers False, raises, or is late gives the same
  status; a check that is registered again under its name changes no size and no
  order, so it is no step. The dict is one CPython does not rebuild during the loop,
  as it may when many checks come and go.
- `SelfHealing`: one name; `run_all` and `reset_all` are loops over names.
- `OfflineStorage`: opening a file, writing it and closing it are one step in which any
  part may fail. Reading may fail at any line of a file. Entries are numbers, so of
  the JSON only its errors are left.
- `Tracing`, `Correlation`: a task starts with a copy of its maker's context, a thread
  of the tracer also with an empty one, as the library `contextvars` does it.
- Statistics are whole numbers: percentages, multipliers and z-thresholds are taken
  whole, thresholds and percentiles in hundredths, and `|v - mean| / stddev >= z` is
  squared and multiplied out, so that nothing is rounded.

## 4. The runs

| Run | Bounds | What it shows |
|---|---|---|
| `breakers` | 3 calls or threads, 1 retry, threshold 2, recovery 1 tick, clock 1 to 3; or 4 calls that report to a tuner that remembers 3 failures and 1 recovery, over 3 ticks of ten seconds | `RequestInv`, `DocumentedTransitions`, `VerdictMatchesResult` (the breaker's last verdict fits the result of each call); `FetchInv`: threads inside the breaker's methods still trip it in time and count each call once; `TuningInv`; `AdmittedCallsEnd` |
| `resilience` | bucket of 4, 2 tokens a tick, costs default, 3 and 5, 5 checks; 5 backends of which 4 are used; 3 functions; 3 checks, one critical, in 4 entries; 3 runs of 1 retry by 2 threads on 2 records with a reset | the rate in every window and the rested bucket; first success wins; the first function in time is the answer; a report is complete and no better than its worst check; a record tells how its last run ended; every call returns though others hang |
| `rate_limiters` | 2 requests per window of 3 ticks, 6 ticks; 3 threads late by a tick at most; 2 tasks that poll every 2 ticks, timeouts 0, 1, 3 or none | limit over the window less the lag (threads) and over the window (tasks); `wait` exact for threads; a timeout exactly at the deadline |
| `shared` | 3 threads; 2 permits; a pool of 1 span, 3 operations released any number of times, 2 kept records; 4 objects and 1 clearing of a registry; 2 increments and any number of reads | permits and count; `acquire` returns; a span serves one operation, which is recorded once with its own data, but for what a second release shares; callers of one name agree unless somebody is about to make an object; one lazy counter with every increment |
| `exporters` | 3 threads or 2 starts with joins that time out; 2 handlers, buffer of 2, 4 snapshots; or 3 threads, 2 label sets and room for one, batches of 2, 5 increments | each snapshot once to each handler; a joined `stop` leaves nothing behind; a thread that `stop` forgot ends; every increment in one place; a full buffer or batch is flushed |
| `telemetry` | 2 threads on a buffer of 2 with 3 entries, both flushing; 2 threads, a list of 2, 2 files, one crash; 2 tasks, 4 spans over a list of 1; 2 objects, depth 2, 2 identifiers; 4 values on, between and beyond 2 bounds, 4 observations; windows of 3 or 4 with one value more | accounting through eviction, failure and crash; an entry is exported twice only by two flushes that hold it at once; nesting of spans and scopes; exact histograms, of which the efficient one refines the plain one; sums, verdicts and recommendations that fit their window |
| `request_one_probe`, `request_fail_run`, `rate_limiter_window`, `registry_singleton`, `histogram_export`, `storage_replay` | as small as shows it | counterexamples, see section 6 |

The exact values are in the `.cfg` files. The bounds are chosen so that every action
fires, every limit (threshold, capacity, cardinality, window, age) is reached and
passed, and at least one actor is left over to interfere while two others are in the
middle of an operation. The properties are about pairs of actors or of operations and
about one limit at a time; the third actor is there to disturb a pair, a fourth adds
no new kind of interference. Where the code is sequential under a lock (histograms,
detector, tuners) the actors do not matter, and the values are: they lie on a bound,
between two bounds and beyond the last, and there is one more of them than a window
holds. The offline buffer needs no more than two flushers and three
entries to export an entry twice, to lose a count and to evict what is being exported.
`CHECK_DEADLOCK FALSE` stands only where the model really ends: a bounded clock
that every call has used up, a bounded number of operations, or a completed
`execute`.

### Fairness

Weak fairness is given to what the program itself carries on: a thread that is in
a method, a coroutine whose sleep is over, a wait with a timeout. httpx and
urlopen are called with a timeout, so `Respond` is fair. Nothing makes a caller
call, cancel, leave the bulkhead, flush by hand or make a backend answer; those
actions have no fairness. A function of a chain or a health check need not end, so
only their callers are fair; the function of a collector's `run` has no timeout in the
code and is taken to return. `Tick` is fair only where a liveness property waits for
the clock. The fairness is stated in the composing modules, on each thread's steps.

## 5. Proofs

A module ends in `_proof` when it holds the theorems about the composing module it
extends; `CollectionLemmas` holds what they need of sets, sequences and sums.

| Module | Theorem | Argument |
|---|---|---|
| `Breakers_proof` | `RequestInvariant`, `TypeCorrect`, `ClosedSafety`, `HalfOpenSafety`, `TransitionSafety` | `RequestInv`: the last failure is not in the future; a closed circuit's failure count is below the threshold *and at most the run of failed calls*; a half-open circuit is rested; sleepers have an attempt left. The second half of the second conjunct is what makes the transition CLOSED to OPEN follow from a run of failures. Lemmas say what each operator of `CircuitBreaker` keeps; an action only has to be matched with its operator. |
| | `VerdictsMatch` | `VerdictsSoFar`: what a call has booked at the breaker is settled by where the call is, so that at its end it fits the result. |
| | `ThreadsAreCounted` | `FetchStrong`: the counted failures cover the run of failed calls, and reach the threshold in a closed circuit only while a thread is inside `record_failure`; each total of the statistics is the cardinality of a set of calls. |
| | `TuningIsSound` | `TuningStrong`: every open report is a trip that waits or one of all the recoveries, and the list is the end of these, since appending and then dropping the head keeps the latest. The threshold in use is at most the highest so far, which the counted failures of a closed circuit stay below. A burst is known by the failure it starts with, so the bursts up to a failure are numbered by the starts up to it, and their sizes add up to the history by the classes of a finite set. |
| `Resilience_proof` | `BucketInvariant`, `RateIsBounded`, `RestIsRewarded` | `BucketInv`: what a window has spent plus what the bucket holds *or is owed* is at most a full bucket and the refill of the window. `WindowBound` alone is not inductive: it does not say that the tokens in the bucket are paid for. |
| | `HedgeIsRight`, `WinnerStays` | `HedgeStrong`, which is `HedgeInv` and how far the caller is: while it launches, a backend is left; it has a result exactly when it is done; it checks only after the event or the timeout, and fails without the timeout only after as many errors as backends. |
| | `FirstAnswerInTime` | `ChainStrong`: functions are begun in order and those before the awaited one have failed or were late; an answer is that of the one that is awaited. |
| | `ReportsAreRight` | `HealthStrong`: the entries the loop has passed are in the results, each healthy or with the status its check has when it fails; the checks that were there from the start are in the dict. |
| | `RecordsTell` | `HealingStrong`: a thread alone on its record has counted one failure for each attempt that failed since it began. |
| `Shared_proof` | `BulkheadInvariant`, `TypeCorrect`, `PermitsAreConserved`, `ActiveCountIsExact` | permits and the threads that hold one add up to the limit, and the count is the number of threads inside, by the cardinality lemmas for one thread more or less. |
| | `InstancesAgree` | `RegistryStrong`: a thread that is about to read finds an entry unless the registry was cleared, and the one it expects unless somebody is about to make another. `LazyStrong`: a lazy counter is made once, under the lock, and holds every increment. |
| | `SpansAreSafe`, `SpansKeepTheirData` | `PoolStrong`: a span is in the pool or with one holder, its mark agrees with that, and what was recorded of an operation is its own data, *for spans that are not in `doubled` and operations that are not in `mixed`*. Only `ReleaseAgain` adds to these sets, and only when the mark it finds is that of a later operation; an operation that has a span in `doubled` is in `mixed`, so that what happens to such spans stays with these operations. |
| `RateLimiter_proof` | `LimiterInvariant`, `DequeIsBounded`, `LaggedLimitHolds` | `LimiterInv`: a stamp is at most `MaxLag` old when it is stored, so whatever was pruned has left the window shortened by `MaxLag`; the admissions left in it are in the deque, which is bounded. |
| | `WindowsHold`, `GivesUpAtItsDeadline` | `TasksInv`: a task's stamp is the time of its admission, so the lag is none; a sleeper wakes no later than its deadline, unless that has not been set. `TimesOutOnTime` is an action property. |
| `Exporters_proof` | `SnapshotsGoOut` | `BufferStrong`: the batches and the buffer share no snapshot, a handler that was given one is not on the way of another, and the total lags by the batches being counted. |
| | `StopIsClean` | at most one background thread is the exporter's own; one that was joined has ended, and what it left is in the owner's hands or in the buffer. |
| | `IncrementsAreConserved` | `BatchStrong`: for each label set the increments are in the buffer, in a batch, in the counter or dropped at the cardinality limit; sums over threads change by what one step moves. |
| `Telemetry_proof` | `ScopesRestore` | `ScopesHoldTokens`: an open scope that was not entered again has its token in its object's slot, and of a task's scopes on one object only the innermost can be such a scope. |
| | `SpansFormTrees` | `SpansNest`: a task's current span is its innermost open one, or what it inherited; a span is ended by its owner, and appended once, and the list and its copies are in order of ending unless two tasks were in it. |
| | `VerdictsFit` | `AnomalyInv` is inductive: the running sums are the sums over the window, and with them `n` times the sum of the squares less the square of the sum is the sum of the squared deviations, which turns the code's test into the mean and the variance of the window. By sums over sequences that are cut at the head and extended at the end. |
| | `HistogramsAreExact` | `SimpleStrong`, `FastStrong`, `FastExact`: a key is there once it was observed; the recent values are the latest of all; a bucket's count is the number of observed values it covers, which one value more changes where the code adds one. A percentile is read off the values in order, and the number of those at or below it is its rank. |
| | `EfficientIsHistogram` | a step of `EfficientHistogram` is, seen through `Plainly`, a step of `Histogram` that stays below its cardinality limit: what the binary search finds is what the scan counts from. |
| | `TunersCover` | `AdaptStrong`: the samples are the latest of all that threads added. The rest is what a percentile of a window is: it grows with the percentage, lies within the numbers, and has its share of them at or below it; the interpolated one lies between its neighbours. |
| `Buffers_proof` | `EntriesAreAccounted` | every entry is in the deque, exported, expired, evicted or cleared, *for any number of flushing threads* (`BufferStrong`). |
| | `FlushesAreCounted`, `DeliveredOnce` | for any number of flushing threads. `DeliveryStrong`: an unmarked entry that was accepted is about to be marked by the flush that has it; were another flush to choose it then, it would be in `shared`. `CountStrong`: the total, and what a thread has read of it, lag behind the deliveries by at least the batches that are still to be counted; with `torn` empty the total lags by just these. |
| | `EntriesSurvive` | `StorageStrong`: every stored entry is in the list, in a file, with a writer or accepted, or in one of the sets that name a loss (`lost`, `swept`, `unsaved`), and each call that is under way holds what it is going to write, send or delete. It covers crashes, exceptions, and any number of threads. |
| `CollectionLemmas` | lemmas only | least numbers; cardinalities; induction on finite sets stated with a set in place of a predicate; the fold that the community modules define a sum by, as a function on the subsets; sequences that are filtered, joined, cut and flattened; a window as the end of all there was; percentiles, their order and their share of the numbers. |

The assumptions are the named `ASSUME`s on the constants, which TLC evaluates in the
runs: positive thresholds, limits, windows and sizes; finite sets of threads, tasks,
label sets, bounds, checks and objects, as a process has; a marker such as `Gap` or
`None` that is none of the things it stands beside. The bounds of the runs are constants of the
theorems: they hold for every number of calls, retries, records and ticks.

Induction is by a least counterexample (`LeastNat`, `NatSet`), since the induction
theorems of the library take an operator. For the same reason recursion in a module
that is reasoned about is a recursive function, or a fold whose function is written out.

Only model-checked is liveness (`AdmittedCallsEnd`, `EveryCallReturns`, `WaitEnds`,
`AcquireReturns`, `StopEndsThread`, `BufferDrains`), since the prover has no rules for
fairness and `ENABLED`.
Every other property of a passing run is stated by a theorem of the table, and the
properties of the six runs of section 6 are false.

`TypeCorrect`, `ClosedSafety`, `HalfOpenSafety`, `DequeIsBounded`, `BulkheadInvariant`
and `EntriesAreAccounted` have no property of their own in a run: the invariants that
are checked imply them.

## 6. Where code and words disagree

| Run | Disagreement |
|---|---|
| `request_one_probe` | the half-open circuit admits everybody, the class says one request (`_base.py:55`, `:99`) |
| `request_fail_run` | a 2xx body that is not JSON records a success and then a failure, so calls that always fail never trip the circuit (`_base.py:299`) |
| `rate_limiter_window` | the clock is read before the lock, and more requests than the limit carry stamps of one window (`patterns.py:104`) |
| `registry_singleton` | two threads that both miss a name each make a breaker, and may keep different ones (`_base.py:164`); the docstring promises a singleton |
| `histogram_export` | the export sums bucket counts that are cumulative already, so a bucket line exceeds the count (`metrics.py:229`); the module promises the Prometheus format. `EfficientHistogram` exports them as they are |
| `storage_replay` | a successful `sync` clears entries stored while its callback ran (`offline_storage.py:160`); the module promises to replay what it buffers |

Seen on the way, and no finding of a run; where the model has the case, its module is
named and the properties hold beside it:

- A thread between the test for OPEN and the assignment of HALF_OPEN turns a circuit
  that another has closed half-open (`_base.py:84`). `ResilientFetch` models this;
  `FetchInv` holds in spite of it.
- `get_including_buffer` reads the buffer under the lock and the counter after it
  (`batching.py:92`): a flush in between is counted twice.
- `start()` after a `stop()` whose join timed out clears the event before the old
  thread has seen it, and two exporters run (`export_buffer.py:125`).
  `BufferedExporter` models this; `StopLeavesNothing` is about stops that joined.
- `ExportBuffer._total_flushed` loses updates when two flushes end together
  (`export_buffer.py:75`), so the total is only shown not to run ahead.
- Two concurrent `flush_sync` calls choose the same entries and export them twice
  (`offline_buffer.py:165-177`), though the class is called thread-safe, and two that
  end together lose a count (`:180`). `OfflineBuffer` models both: `ExportedOnce` holds
  for all entries but the `shared` ones, and the total for runs in which no thread is
  `torn`; it is never too high.
- A second `release()` of a span that was handed to another operation meanwhile
  releases that operation's span, and two operations share it (`span_pool.py:150`,
  reached by a `release()` in the body of `with pool.span()` and the one of its exit,
  `:177`). `SpanPool` models this: such spans are `doubled`, the operations that had one
  then or since are `mixed`, and the properties hold for all others.
- `reset_all_breakers` between the store and the read of `get_circuit_breaker` makes
  it raise a KeyError (`_base.py:170`). `Registry` models this as an answer.
- Two spills within one millisecond write the same file, and the second replaces the
  first; an error of `mkdir`, outside the `try`, or one of `json.dumps` that is no
  OSError loses what was taken from the list and is not written; what could not be
  written for an OSError goes back beyond `max_entries`; a file that could not be read
  is deleted with the others (`offline_storage.py:106-117`, `:131`, `:163`).
  `OfflineStorage` models these and names them in `lost`, `unsaved` and `swept`.
- A span that another task ends while one trims the list is dropped, and a `clear()`
  at that moment is undone (`tracing.py:146`); `NewestAreKept` excludes that case.
- A `CorrelationContext` that is entered again before it is left restores the wrong
  identifier on the outer exit, or raises (`correlation.py:43`); `CorrelationInv`
  says that nothing else does.
- A check registered or removed during `check_all` ends the report with a
  RuntimeError (`health.py:77`); `HealthReporter` models this as `LoopFails`.
- A collector's good run leaves its status at RUNNING (`self_healing.py:69`).

## 7. Plan

1. Done: all components with state that several threads or tasks share, and the
   sequential statistics, in the modules above; six composing runs; the refinement of
   `Histogram` by `EfficientHistogram`; proofs of the safety of every component with
   concurrent callers.
2. Done: a proof of every invariant, action property and refinement that a passing run
   checks.
3. Abstract specifications that are worth a refinement mapping next: an atomic counter
   that `BatchCounter` implements, and a set of at most *n* holders that `Bulkhead`
   implements.

## 8. Not modelled

- `IntervalTuner`: the interval is an exponential of the volatility, in floating point,
  computed and clamped under the lock. Nothing interleaves with it, and TLC has no
  numbers in which the exponential is exact.
- `SLO`: two counters and their quotient, under a lock. Its report reads the quotient
  three times and may tell of an objective that is met with a budget overdrawn
  (`slo.py:71-78`); no operation decides anything by it, and no doc says it may not.
- The delays of the retry policy and of `RetryOptimizer`, the success rates of
  `HealthThresholdTuner`: averages and jitter in floating point.
- `Gauge`, whose locked update is that of `Counter`; `LazyGauge` and `LazyHistogram`,
  which repeat `LazyCounter`; the collectors, which are registries of instruments and
  loops over them.
- `get_including_buffer`, `get_stats` and other readers that change nothing.
- The statistics that several executions of one `HedgedRequest` share.
- Export formats, metric documents, the dashboard and the log format: formatting.
- Package files that only re-export names.
