# A TLA+ model of turboSH

turboSH is a reverse proxy written in Go that stands between clients and a
backend, and a forecasting pipeline written in Python that learns from the
telemetry the proxy writes.  This directory models the proxy's request path
(how it admits, filters, caches, forwards and logs requests, and what its
background goroutines do meanwhile) and the forecasting pipeline (how telemetry
is collected and stored, labelled, cut into windows and data sets, and what the
training and evaluation scripts make of it).  TLC checks each module on small
instances; TLAPS proves every safety property the passing runs check, for every
instance.

## The system

A request passes this chain of gin handlers (`core/proxy/middleware.go`,
`SetupMiddleware`), each of which runs the rest of the chain with `c.Next()`:

    dashboard recorder -> Prometheus metrics -> client identity -> scheduler
      -> traffic logger -> rate limiter -> traffic rules -> ML protection
      -> cache -> reverse proxy

| component | state | operations | what is hard | what makes it correct |
|---|---|---|---|---|
| scheduler (`core/scheduler`) | a channel used as semaphore, a timer per request, a count of waiters | acquire, time out, release | timers that fire between any two statements, slots handed to parked requests, panics | no slot leaks or is shared, nobody is stuck in the gate |
| LRU cache (`core/cache/lru_cache.go`, `ttl_manager.go`) | map, recency list, byte count, counters | Get, Set, Delete, the TTL scan | five paths that maintain the same structures by hand, two limits, expiry | structures agree, the coldest entries leave, a lookup never returns anything stale or foreign |
| cache middleware (`cache_middleware.go`, `stampede.go`) | the cache, singleflight's calls | lookup, coalesce, forward, admit, serve | requests that join, finish and panic in any order | one call per key, the right response to everyone, everyone ends |
| reverse proxy (`core/proxy/proxy.go`) | none | forward, answer an error | backends that fail or break off | |
| rate limiter (`core/security/rate_limiter.go`) | a token bucket per client | Allow, Cleanup | lazy refill over any gap, buckets that are dropped and start anew | the configured rate over every window |
| traffic rules (`core/security/traffic_rules.go`) | timestamps per client and per client and path | the two checks, Cleanup | two critical sections per request | exact windows, thresholds kept |
| traffic logger (`pipeline/logging/traffic_logger.go`) | a buffered writer, a file, a flusher goroutine | write, flush, Close | Close against the flusher, torn lines, failing writes, restarts | the log has no holes, Close loses nothing and returns |
| state exporter (`core/inference/state_export.go`) | a bounded channel, a worker, a buffered writer | export, Close | a full channel, exports during Close | order and content kept, Close drains |
| ML protection, decision engine (`core/inference`, `core/decision`) | ring buffers per client, thresholds | score, decide, feed back | feedback after the fact, engine closed while in use | verdicts follow the thresholds |
| forecaster, risk advisor (`core/forecasting`) | a sliding buffer, a cached forecast | add, predict, fuse | stale forecasts | fusing never weakens an action |
| dashboard (`monitoring`) | slots per second, an event ring, counters | record, snapshot | snapshots read piece by piece | consistent figures |
| life cycle (`cmd/turbosh`, `NewComponents`, `Close`) | all of the above | start, shut down | error paths of start-up, closing while requests run | everything started is stopped, in an order that loses nothing |
| state store (`forecasting/state_store.py`) | a ring of states, a ring per client, states not yet saved, a SQLite table | append, flush, load | locks released between memory and database, failing inserts | a state is in one place, the rings agree |
| telemetry collector (`telemetry_collector.py`) | an open file, what `fstat` said of it | run, ingest_file, stop | a file written, cut, rotated, removed and truncated between any two calls | no line of the file is overlooked, none stored twice |
| labeller, Markov chain, HMM, progression, MITRE table (`forecasting`, `models`) | labels, transition counts | label, fit, forecast, decode | marking back, index order of matrices and pointers | agreement with a definition over all paths |
| feature extraction, data set builder (`pipeline`) | the log of a client | windows, rows, labels | gaps skipped, a sub-window counted | no request falls between windows |
| data loader (`models/data_loader.py`) | sequences, splits, scaler | split, cut, fit | rounding with few sequences | no leak between the splits |
| evaluation (`evaluation`) | predictions, episodes | match warnings, count alarms | scans that run into earlier attacks | warnings and false alarms as defined |
| training and exports (`train_*.py`, `export`) | weights, best weights, files in one directory | train, save, evaluate, export, report | NaN and empty validation, exceptions and kills between files | the best weights are saved, the report is true |

Components interact in four ways: handlers call the next one in the chain and
resume when it returns; the goroutines of the flusher, the exporter's worker,
the TTL manager and the two cleanup managers share a component's state with the
requests under its mutex; requests wait for each other in the scheduler's
channel and in singleflight's calls; and the programs of the Python side, each
a process of its own, hand one another files.

`PROJECT.json` lists every component, with the ones not modelled and the
reason, and under `hazards` what is hard to test, at the line where it bites.

## Modules

| module | models | composed from |
|---|---|---|
| `Scheduler` | the gate, statement by statement | |
| `SchedulerProofs` | its theorems | `Scheduler` |
| `ResponseStore` | what the middleware relies on: a store that may forget, and never invents | |
| `LRUCache` | the cache, one action per operation under its mutex | implements `ResponseStore` |
| `LRUCacheProofs` | its theorems | `LRUCache`, `DataTheorems` |
| `CacheMiddleware` | the middleware, singleflight and the proxy for concurrent requests | uses a store that forgets, as `ResponseStore` |
| `CacheMiddlewareProofs` | its theorems | `CacheMiddleware` |
| `Pipeline` | the handler chain | `Scheduler`, `CacheMiddleware` |
| `PipelineProofs` | its theorems | `Pipeline`, and `SchedulerProofs` and `CacheMiddlewareProofs` by `INSTANCE` |
| `RateLimiter` | the token buckets | |
| `TrafficRules` | the two sliding windows | `Filtering` |
| `SecurityProofs` | the theorems of these two | `MCSecurity`, `DataTheorems` |
| `TrafficLogger` | the log writer, flusher, Close, restarts | |
| `StateExporter` | the export channel, worker, Close | `Filtering` |
| `TelemetryProofs` | the theorems of these two | `MCTelemetry`, `DataTheorems` |
| `StateStore` | memory and table of the state store, for any threads | `Filtering` |
| `TelemetryCollector` | the collector, call by call, and the file it follows | extends `StateStore` |
| `Stages` | labels, Markov chain, HMM, adapters, severities | |
| `FeatureWindows` | feature rows over sliding windows, their labels | |
| `SequenceData` | splits, windows, the scaler's data | |
| `LeadTime` | episodes, lead times, false alarms, confusion matrix | |
| `Training` | the training and export scripts and their files | |
| `ForecastingProofs` | the theorems of the Python side: the store, the stages and their forecasts, the windows, the loaders, the evaluation and the training | `MCForecasting`, `DataTheorems` |
| `Filtering` | the elements of a list that stay when others are removed, in their order | |
| `DataTheorems` | lemmas about filtered lists, folds over sets and lists, counts and sums over sets, least and greatest numbers | `Filtering` |
| `MCxxx` | the instances TLC checks | |

An operator called `X_Y` (for example `Release_NotDeferred`) is a plausible
mistake in `X`.  It is used by no specification; putting it in the place of `X`
must make TLC find the property that `PROJECT.json` pairs it with violated.

### Scheduler

`pc` is where a request's goroutine is in `Middleware`; each statement that
another goroutine or the runtime's timer can come between is an action.
`semaphore` is the length of the channel and `sendq` the senders parked on it:
Go hands a freed place to the first parked sender, which `Release` does.
`timer` follows each `time.Timer`.  `asyncTimers` covers both semantics of
`Timer.Stop`: the module asks for Go 1.25, where a stopped timer never leaves a
value behind, and `GODEBUG=asynctimerchan=1` brings the older one back, under
which the receive in line 43 is reached.  A panic in a later handler runs the
deferred release, so `Finish` has two outcomes.

### LRUCache and ResponseStore

A response is a version, new for each `Set`, and a size; `entrySize` and the
deep copies are abstracted to that.  `order` holds keys, most recently used
first; `items` maps a key to its entry.  The two eviction loops of `Set` are
described by what they leave: the longest prefix of the list within both limits
(`Kept`).  An operation is one action, since each runs under `c.mu`.  The
refinement mapping to `ResponseStore` takes as visible what has not expired:
the passing of time may forget entries and nothing else.

### CacheMiddleware

A request goes through the places `lookup`, `enter` (singleflight), `check`
(the second lookup), `proxying`, `admit`, `finish` or `unwind` (a panic), and
`post`, where `shared` decides.  gin's rule matters: when the middleware
returns without `c.Next()` or `c.Abort()` having been called, gin itself runs
the remaining handlers, which is the place `direct`.  singleflight is external
and modelled from its use: a call object per leader, the number of callers that
joined it, its value, and `shared`, which it reports to every caller of a call
that had duplicates.  A cache key is a sequence of tokens, `?` among them,
because `URL.Path` is decoded.  A backend answer is a record with the target it
belongs to and its class: stored, refused by the admission rules, or the
ErrorHandler's.

### Pipeline

The gate of `Scheduler` and the cache of `CacheMiddleware` run unchanged, by
`INSTANCE`; a request enters the second when it is `downstream` in the first.
The filters are reduced to their verdict (their own modules check them).  The
logger's second half and the dashboard recorder run after `c.Next()` and are
skipped by a panic.

### RateLimiter and TrafficRules

Time is counted in ticks.  In `RateLimiter` a bucket's content is counted in
ticks of refill, a token being worth `TokenTicks` of them, so the arithmetic is
exact where the code uses `float64`.  `TrafficRules` keeps every timestamp ever
recorded as a history variable, to compare the pruned windows with.

### TrafficLogger and StateExporter

A log line is a run of cells ending in its newline, so that `bufio.Writer`'s
behaviour (a full buffer is topped up and written out, large data is written
past an empty one) cuts lines where it would.  A write to the file may fail
after any number of cells; the writer's error is sticky.  `Restart` ends the
process anywhere and opens the file again for appending.  The flusher's tick
and its `Flush` are two actions, since Close may run between them.
`StateExporter` keeps the worker's hand (a snapshot received and not yet
written) and leaves `bufio`'s own write-outs open to any amount; write errors,
which this code ignores, are left out.  Nobody closes its channel, so the
worker's `!ok` branches are unreachable and have no action.

### StateStore and TelemetryCollector

A state is known by the line of telemetry it was parsed from.  `append` is one
action, since it holds the lock throughout; `flush_to_sqlite` is two
(`TakeUnflushed` under the lock, then `InsertRows` or `InsertFails`) and so is
`load_from_sqlite` (`FetchRows`, then `AddLoaded` under the lock).  `appended`
and `lost` are history variables.

A line in the file is two cells, because the proxy's buffered writer may cut it.
`file_obj` is the file that is open, the offset the operating system is at, and
what was read ahead of `readline`, since the reader takes a chunk at a time
(here the whole rest of the file) and `tell()` counts only what it handed out.
`changed` says whether `os.stat(log_path).st_ctime` differs from the value at open.  On
POSIX each change of the file moves it, except within one tick of the file
system's clock; on Windows it is the time of creation.  `pc` names the next
call: `exists` and `open`, `stat` and `open`, `readline`, the two halves of a
flush, and the finally clause are steps of their own, and the writer, a rotation,
a truncation, `stop`, an interrupt or a kill may come between any two.  After
a `FileNotFoundError` in the second `open` the closed file stays in `file_obj`,
and the next `readline` raises `ValueError`, which ends `run` through its
finally clause: `ReadClosed`.  Modes: `follow` and `drain` are `run` with and
without `follow`, `once` is `ingest_file`.

The proxy does not stop writing.  The lines in `Logged` are followed; what it
writes behind them is left out, except that it touches the file: `WriteOn` may
move `st_ctime` between any two calls for ever.  It is bounded only by
`MaxAppends` states in the store, for the history of appends would otherwise
grow without end; a collector that stores nothing meets it without a bound.

### Stages

Scores are per cent and probabilities whole weights over a common sum, so that
sums and comparisons are exact where the code uses `float64`; Viterbi's sums of
logarithms become products.  `Emission`, the densities of the Gaussians, is a
constant: what the densities are does not matter to the decoding.  The chain
and the HMM have `n_states` states (5 in the code); labels beyond them are
skipped by the counting, as in `fit`.  `Observe` adds one state of one client
and does what `generate_labeled_dataset`, `from_state_store` and the HMM's
`fit` would make of its history.  The HMM's adapter forecasts from the stage it
decodes; the Markov chain's does so too if an HMM was attached to it, and
otherwise starts from stage 0, as the benchmark does without `hmm_model.json`.

### FeatureWindows and SequenceData

Entries of one `ip_hash` are read, then the loop of `extract_features` runs one
window at a time.  `window_size`, `Steps` and `SubWindow` stand for 60, the
`window_step` and the fixed 10 seconds; `WindowsAssumption` says what the
defaults satisfy, a step no longer than the sub-window (with a longer
`--step`, requests between two sub-windows are in no 10-second count).  Error
rates are exact fractions where the code rounds to four digits.  In
`SequenceData` the shuffled order is any permutation, and a value is known by
its sequence and step.

### LeadTime

A window of the test set is its true stage, the predicted one and whether the
probability reaches `min_confidence`.  `Lookback` stands for the 20 windows of
line 217.  Lead times are in windows; seconds, means and rates are left out.

### Training

One script runs at a time, as they do by hand, and all use one directory.
A file is known by the run that wrote it and, for weights, by the epoch.
Losses are a small set with NaN; a loader without windows gives loss 0.  A
script may be killed anywhere, which leaves the file it writes as it was or
torn; a torn report, which no reader of JSON accepts, is left out.  `Exception`s are modelled where they happen: no data set, an empty test
split, baseline files that do not load, an export that fails before or after
it wrote.

## Runs

| run | expected | instance | shows |
|---|---|---|---|
| `scheduler` | pass | 3 requests, 2 slots | `TypeOK`, `SlotAccounting`, `DrainNeverBlocks`, `EveryRequestDecided` |
| `lru_cache` | pass | 3 keys, capacity 2, sizes 1, 3 and 6 for a limit of 5 bytes, 4 operations, 3 instants | `IndexMatchesList`, `MemoryAccounting`, `EvictsJustEnough`, `ImplementsStore`, `ExpiredLeave` |
| `cache_middleware` | pass | 3 requests, 3 targets, 1 forgotten entry | `OneCallPerKey`, `StoresOnlyIntoGaps`, `RightResponse`, `AnsweredWhenDone`, `EveryRequestEnds` |
| `pipeline` | pass | 3 requests for a page and a form, 2 slots | `BackendWithinLimit`, `NothingLeftBehind`, `ServedAreLoggedOnce`, `EveryRequestLeaves` |
| `security` | pass | 2 clients with buckets of 2 tokens; 1 client, 2 paths, 4 requests | `WindowLimit`, `WindowExact`, `PassedWithinLimit`, `AbandonedDropped` |
| `telemetry` | pass | 4 lines, buffer of 4 cells, 1 restart; channel of 2, 4 snapshots; 2 closers | `NoHoles`, `ClosedMeansFlushed`, `Conserved`, `ClosedMeansExported`, `BothCloseReturn`, `EventuallyOnDisk` |
| `cache_leader_writes_twice` | violation | 2 requests | a leader with waiters writes its response twice |
| `cache_forwarded_again` | violation | 2 requests | a leader whose second lookup hits is forwarded to the backend by gin |
| `cache_key_collision` | violation | 2 requests, an escaped `?` | two resources share a cache key |
| `pipeline_panic_unlogged` | violation | 2 requests | an admitted request whose handler panics is not logged |
| `forecasting` | pass | collector: 2 lines of 2 cells, the first garbled, 2 faults; store: 3 lines of 2 clients, rings of 2, 2 threads, 3 appends; 5 states of a client; 3 log entries; 4 sequences; 5 test windows; 2 scripts of 4 epochs | `NothingForgotten`, `IndexFollowsBuffer`, `EveryLineIngested`, `LabelsExact`, `TrajectoryExact`, `ViterbiOptimal`, `EveryRequestCovered`, `NoLeakage`, `WarningsExact`, `AlarmsAccounted`, `BestWeightsReturned`, `HonestReport` |
| `collector_rereads` | violation | 2 lines, no fault, POSIX | an append makes the collector read the file from its start again |

Each property says in a comment above it what it means and which lines it is
about.  `security` and `telemetry` explore two components that share no state:
each behaviour follows one of them.  `forecasting` does the same with the parts
of the Python side: `followed` is chosen at the start, only that part moves,
and a property of a part is stated of the behaviours that follow it (`StateStore`
and `TelemetryCollector` are followed together, and the store also alone, with
two threads that append, flush and load).

**Bounds.**  Three requests and two slots are the least with which one request
parks while two hold slots, and in the cache a leader, a waiter and a latecomer
meet.  In `pipeline` either all three ask for the page, under the newer timer
semantics, or one does and two send the form, which the cache is not for, under
the older: a coalesced call and two direct forwards would all be at the backend
but for the gate.  `scheduler` has three requests under both semantics.

Three keys for two places make every insertion choose a victim, two
entries of the middle size exceed the byte limit and one of the largest exceeds
it alone, so an insertion evicts for either reason and may be left with nothing
but itself.  Four operations reach update, expiry, eviction and a lookup after
them.  In `security` the clock runs past a window and past the age at which
records are dropped.  In `telemetry` the lines have three and six cells so that
each branch of `bufio.Writer.Write` is taken.  In `forecasting` two faults
let any two of a rotation, a truncation and a restart follow one another, the
file is followed on both platforms, drained on one and read once on the other;
two lines let a readline meet a half line behind a whole one, and the first is
no JSON, so that a collector that reads it again and again stores nothing and
the state space has the endless repetition of it.  Two lines of one client and
one of another, in rings of two for three appends and a load, overflow both the
buffer and a client's ring, and rows loaded meet newer states of their client.  Five states reach a surge of three that begins
or ends inside the history, four scores lie on both sides of the outer
thresholds.  Three entries on six instants give gaps shorter and longer than
the window; four sequences round to every shape of split; five windows hold two
attacks and a warning that reaches over the first; four epochs with a patience
of two stop early in the middle and at the end; two scripts leave files of two
runs.  `CHECK_DEADLOCK FALSE` is set
where the bounded clock or number of operations ends a behaviour; `scheduler`,
`cache_middleware` and `pipeline` check deadlock, the last two with an explicit
step for the state in which every request has ended.

**Fairness.**  Weak fairness of a goroutine's steps: Go's scheduler runs
runnable goroutines.  An armed timer fires.  `EveryRequestDecided` assumes
nothing of the handlers behind the gate, which may hang.  `EveryRequestEnds`
and `EveryRequestLeaves` also assume that a backend call ends, which the code
leaves to the transport: no timeout in turboSH ends one.  A `select` with
several ready cases picks at random, so a case that is ready again and again is
picked in the end: strong fairness of the flusher's and the worker's cases.
The cleanup managers, the TTL manager and the flusher tick for ever.
`EveryLineIngested` assumes that the collector's thread keeps being scheduled
(`WF` of its next step).  Of the file's writer, the file system or whoever stops
the collector it assumes no fairness; the one thing it needs of the writer is
in its statement: for a line behind the first one, on POSIX, that `st_ctime`
stops moving at last.

## Disagreements found

* `core/cache/cache_middleware.go:190`: `shared` is also true for the leader,
  contrary to the comment above it; its client receives the body twice.
* `core/cache/cache_middleware.go:146`: a leader whose second lookup succeeds
  neither serves the entry nor aborts; without waiters, gin forwards it.
* `core/cache/cache_middleware.go:58`: `GET /a%3Fb` and `GET /a?b` have one key.
* `pipeline/logging/traffic_logger.go:113`: what follows `c.Next()` is not
  deferred, so a panic leaves an admitted request unlogged.
* `forecasting/telemetry_collector.py:110`: `st_ctime` is taken for the time of
  creation; on POSIX every append changes it, and the collector opens the file
  again at offset 0 and stores every state again.  A proxy that writes between
  any two reads of the collector makes it read the first line for ever and no
  line behind it (the run `forecasting` finds that behaviour when the premise of
  `EveryLineIngested` is left out).
* `core/cache/lru_cache.go:152` (no run of its own): replacing an entry by a
  larger one returns before the byte limit is enforced.  `EvictsJustEnough`
  shows that the next insertion restores the limit, and `StoresOnlyIntoGaps`
  that the middleware never replaces an entry.
* `core/proxy/middleware.go:91` (a hypothesis, not a run): buckets idle for ten
  minutes are dropped whatever the rate.  With a rate so low that a bucket needs
  longer to refill, a client gets tokens that were never refilled; the proofs
  and the run `security` assume `maxAge >= Full`.
* Without a run of their own: `models/data_loader.py:265` says an empty test
  split borrows "from val or train" and never borrows from train.
  `get_all_sequences(window_size=4, min_length=2)`, as `from_state_store` calls
  it, yields nothing for clients with two or three states and counts a
  transition inside a longer history up to three times.  `is_escalating` says
  "non-decreasing" and accepts a last step down by one.  The report's "identical unseen
  sequences" (`train_lstm.py:403`) are unseen by the LSTM only:
  `labeled_states.csv` is what the two baselines were trained on.

## Proofs

TLAPS checks every theorem to its leaves.  The constants are constrained only
by the named assumptions of the modules (finite sets of requests, keys and
threads, positive capacities, a step no longer than the sub-window), which TLC
evaluates on the instances; hypotheses beyond them are part of a theorem's
statement and named below.  Invariants are rarely inductive by themselves; each
proof module begins with the strengthening it needs.

**Data.**  `DataTheorems` has the lemmas the other modules share.  Induction is
by the least counterexample: the numbers for which a claim fails are a set of
naturals, and `LeastNumber` gives its first element.  In that way are proved
what filtering a list keeps, counts and preserves (`FilterIs`: a list read at
ascending places that take in every kept one is the filtered list), what sums
over a finite set of naturals do when an element or a part is taken out
(`SumFacts`, `SumSplit`), and that finite sets of numbers have a greatest one.
`Filter` of module `Filtering` is written without recursion for this purpose.

The library's folds are `CHOOSE g : g = [T \in SUBSET S |-> ...]`, so nothing
can be said of one before such a function is known to exist and to be unique.
`FoldExists` and `FoldUnique` show both, for any way of picking the next element;
`ScanExists` and `ScanUnique` are the case of `FoldLeft`, which picks the
greatest index, and then give the value at each prefix from the one before;
`ScanBackExists` and `ScanBackUnique` are `FoldRight`'s.  The step of the fold is
passed as a function from accumulator and index, since an operator cannot be
instantiated.  With that a loop of the code has a loop invariant, proved by one
step lemma and the least prefix at which it fails.  `FiniteInduction` (what
holds of `{}` and of a set when it holds without one of its elements holds of
every finite set) gives the rules of sums: a common factor (`SumScaled`), the two
orders of a double sum (`SumSwapped`), a sum by places (`SumByFibres`), and a
renaming (`SumMoved`).

**Scheduler**, for any finite set of requests and any configured limit:
`SchedulerTyped`, `SlotsConserved`, `ConcurrencyLimit`, `WaitersCounted`,
`GateWorkConserving`, `DrainSafe`.  `Release` hands the slot to the head of
`sendq`, so `SlotAccounting` needs to know that the head is a parked request
that holds none, and that it occurs once: `QueueMatchesParked`.  `FireTimer`
removes a request from the queue, so `WorkConserving` and the queue must be
known together.  `DrainNeverBlocks` needs the timer's state to agree with the
place.

**LRUCache**, for any finite set of keys, any limits, sizes and lifetimes:
`IndexAndList`, `BytesAreCounted`, the action property `Eviction`, and
`Refinement`, that the cache implements `ResponseStore`.  The list has no key
twice because it is ordered by the time of last use, which the history keeps.
The byte count is a sum over the map, so each removal subtracts what is in it.
`Eviction` in its first form was false: an entry larger than the byte limit is
evicted by its own insertion and takes everything else with it, so `kept = {}`
is one of the reasons to evict; the instance now has such a size.

**CacheMiddleware**, for any requests, any targets and however often the store
forgets: `SingleFlight`, `NeverOverwrites`, `AllAnswered`.  A store never
overwrites because a key has one leader and the leader's second lookup missed
(`FetchedIsMissing`); a shared result exists and fits because the state of a
call follows the place of its leader (`CallFollowsLeader`, `WaitersMatch`).
`SameKey`: what a request gets is for a target with its own cache key, whatever
the keys are.  `DistinctKeys` adds the hypothesis that no two targets share a
key and concludes `RightResponse`; the run `cache_key_collision` shows that the
hypothesis is what fails.

**Pipeline**, for any requests, limit and targets: `ChainTyped`, `BackendLimit`,
`LeavesNothing`, `ServedLogged`, `ChainImplements`.  The gate and the cache keep
the theorems proved of them alone: `SchedulerProofs` and
`CacheMiddlewareProofs` are instantiated, and each step of the chain is a step
of either or leaves it unchanged.  What is new is `Along`, which says where a
request may be in all three at once; with it the requests at the backend are
mapped into the holders of slots.

**RateLimiter**, for any clients, capacity and rate, under the hypothesis
`maxAge >= Full` that an idle bucket is full again before Cleanup may drop it:
`BucketsTyped`, `RateIsLimited`, `CleanupIsInvisible`.  `WindowLimit` speaks of
pairs of admissions in the past, which no step can re-establish from itself;
`Potential` bounds, for each past admission, the requests admitted since by
what has been refilled and what is still in the bucket.  Without the hypothesis
a bucket dropped half empty comes back full, and the bound fails.

**TrafficRules**, for any clients, paths, thresholds and windows:
`WindowsAreExact`, `RulesLimit`.  Pruned and complete lists agree inside the
window (`FilterTwice`: pruning twice is pruning once).  For the limit, requests
that are recorded and pass later, in another order, are compared with the
record from the end: the j-th latest that passed is no later than the j-th
latest recorded (`Behind`).  If one more than the threshold had passed within a
window, as many would have been recorded in it, and the check would have
refused the last (`FilterEnd` counts them).

**TrafficLogger**, for any lines, buffer, closers, failures and restarts:
`LogHasNoHoles`, `CloseFlushes`.  The file begins what was accepted, and while
no write failed the buffer is the rest.  `NoHoles` limits broken lines by the
restarts; the invariant counts one more (`Damage`): an unfinished last line is
broken by whatever is written next, so it must have had its restart already.

**StateExporter**, for any channel, snapshots and closers: `SnapshotsConserved`,
`CloseExportsAll`.  What was accepted is, in order, in the file, the writer, the
worker's hand and the channel; since exports go on during Close, the promise is
only about those before it, and a worker that has left the drain loop has put
that prefix into the writer.

**StateStore**, for any lines, threads and capacities, under the collector and
alone: `StatesConserved`, `RingsAgree`.  Every step of `TelemetryCollector` is a
step of the store or leaves it (`CollectorUsesStore`).  The states in the hands
of the threads are a sum over the threads, which one step changes in one place
(`HeldChange`).  `IndexFollowsBuffer` is not inductive: after an eviction the
two rings reach back differently far.  `EndsAlike` compares them from their
ends, as far as a client's ring can reach, and survives eviction on either side
(`AlikeStep`).

**Stages**, for any scores, history, smoothing, emission weights and horizon:
`SurgesLabelled`, `ForecastsLikeliest`, `TrajectoriesExact`.
* Labels: the second pass of `label_sequence` marks back, so a label already
  given may change.  The invariant of the pass (`PromoteStep`) tells the steps of
  a finished surge of three, those of the surge that is running, which are
  promoted once it reaches three, and the rest.
* Viterbi: the table's rows are known by their recurrence (`RowsAll`), the
  backtracking as a fold from the end whose pointers lead to the returned path
  (`BackwardsAll`), and a path's score by its beginnings (`ScoreAll`).  No
  beginning of any path scores more than the table says of its last state
  (`NoneBetter`), by `LargerProduct`: multiplying by a weight keeps the order.
  The path along the pointers attains the table's score (`Follows`).
* Trajectories: `PathSumStep` sorts the paths of k + 1 steps by their last state
  but one and drops their last step, a bijection onto the paths of k steps
  (`WaysMatch`), so one `Project` step adds up the paths that are one step longer
  (`AheadSums`).  Since `argmax` takes a greatest entry of that distribution,
  each step of a forecast is a likeliest stage over all ways there
  (`LikelyForecast`), from wherever an adapter starts.  `ProjectMass` swaps the
  double sum of a step, and needs that all rows of the fitted matrix have one
  sum: `Normalised` brings them to a common denominator (`NormalisedFacts`),
  which is what `ModelsInv` carries over every refit.

**SequenceData**, for any number and lengths of sequences, ratios and shuffle:
`LoadersApart`.  The three slices of the shuffled indices are pieces of a
permutation, cut at places that may coincide but do not cross (`SplitPieces`),
whichever way the small splits are rounded and borrowed.

**LeadTime**, for any test set, lookback and required run: `WarningsFound`,
`AlarmsExplained`.  `ScanStep` is the backward scan's invariant: the run of
alarms it is in, and the earliest start of a long enough one seen so far.
`ExtendStep` is that of the forward pass which joins attack windows to episodes:
the last episode ends where the last attack window was.  The confusion matrix
is a sum of cardinalities over the stages, compared with the windows it counts;
`LeadInv` says it holds exactly those drawn.

**FeatureWindows**, for any log and any sizes with a step no longer than the
sub-window: `NoRequestBetweenWindows`.  While the scan runs, what is not covered
is not older than a step before the next window's end (`CoverInv`).

**Training**, for any epochs, patience, losses and number of scripts:
`EarlyStopping` (the counter is the distance to the best epoch, and training has
not stalled before) and `ReportsAreHonest` (the running script owns the files it
has written, no report is of a later run, and a flag that is set vouches for the
graph on disk until the report repeats it).

The theorems of the Python side are stated of the components by themselves and of
`MCSpec`, which the run `forecasting` explores: it follows one part at a time, so
a behaviour of it is a behaviour of each part (`TrainingAlone`, `FeaturesAlone`,
`StagesAlone`, `StoreFollowed` and their like).

Only model-checked: everything about liveness and fairness (`EveryRequestDecided`,
`ExpiredLeave`, `EveryRequestEnds`, `EveryRequestLeaves`, `AbandonedDropped`,
`BothCloseReturn`, `EventuallyOnDisk`, `EveryLineIngested`), since the prover has
no rules for it.  The provers do not interpret `^`, so `TrajectoryExact` states
the mass of step k as the row sum times the mass of step k - 1, and not as a
power.

## Not modelled

Headers, bodies, hashing and address parsing; Prometheus; demo and load tools.
On the Python side: the forward passes, gradients and attributions of the
neural models and the anomaly model of `ml/` (floating-point numerics), the
Gaussian densities, entropy and variance, statistical tests and curves, report
and explanation texts, the benchmark runner (a sequence of calls to what is
modelled, and tables), the `scaler` a caller of `create_dataloaders` may pass in
(the runner passes none), the adapters' `predict_proba`, random data generation, and `get_time_range`,
`is_escalating` and `analyze_lead_times`, which read and change nothing.  On the
Go side ML protection, the decision engine, the forecaster with its advisor, the
dashboard and the life cycle are listed in `PROJECT.json` as not modelled and
are planned as follows.

## Plan

1. `MLProtection` and `Decision`: ring buffers fed back after the response,
   thresholds, the exported snapshot; with `Forecaster` and `RiskAdvisor`: the
   sliding buffer, the cached forecast, and that fusing verdicts never weakens
   an action.
2. `Lifecycle`: start-up with its error paths, shutdown with its deadline,
   composed with `TrafficLogger` and `StateExporter`.
3. `Dashboard`: slots per second, the event ring, snapshots taken piece by
   piece.
