# A verification project for prometheus-opentelemetry-comparison

The repository measures what instrumenting a service costs. Three apps do the
same simulated work: one instrumented with the Prometheus client, one with the
OpenTelemetry SDK, one not at all. A client sends all instances the same load
in lockstep. Collectors and agents forward the metrics to a receiver that
decodes, counts and drops them. The comparison is worth something only if the
load is equal, the instruments tell the truth under concurrency, the simulated
work is equal and the receiver's counts are right. These are the properties
stated, model-checked and proved here.

All line numbers below are of the files under `src/`.

## 1. Inventory

| Part | Source | State | Operations | Modelled in |
|---|---|---|---|---|
| load client | `cmd/client/main.go` | per worker: ticker, round, endpoint, WaitGroup; per target: two atomics; per host: two scraped counters; main: totals of the last report | `tickLoop` and its goroutines, `recordSent`, `recordFailed`, `logStatus`, the status loop, the signal | LoadClient, LockstepRounds |
| request instrumentation | `cmd/prometheus-app/main.go`, `cmd/otel-app/main.go` | gauge and atomic of in-flight requests, histogram, counters, last-duration gauge | `instrument`, `latencyBucketLabel`, `concurrencyLevelLabel`, `outcomeClassLabel` | RequestInstrument |
| simulated work | the three apps, the client's `endpoints` | the time each app spent | `handleAPI1` to `handleAPI50`, `simulateLatency`, the routes | Workload |
| noop receiver routes | `internal/receiver/` | per route: request, error, size and sample counters, the counter of `sampleEvery` | the four routes, `sampleEvery` | NoopReceiver |
| zstd encoder cache | `internal/zstd/zstd_pure.go` | the published map, the mutex | `getEncoder`, `newEncoder` | EncoderCache, EncoderMemo |
| background sampling | the apps' `simulateBackground`, `internal/procstats/` | last CPU time and GC count, queue depth | one tick every 2 s, a sample that may fail | BackgroundSampler |
| app start and shutdown | the apps' `main` | the process's next step, its server, its meter provider | jitter, listen, the signal, grace period, flush | ServerLifecycle |
| receiver start and shutdown | `cmd/metrics-noop-receiver/main.go` | the same with two servers | HTTP shutdown, wait for the context, `GracefulStop` | ServerLifecycle |
| receiver test clients | `cmd/metrics-noop-receiver/test_client/` | a server, a meter provider, a counter | `run` | ServerLifecycle |
| data point counts | `otlp_samples.go`, `remotewrite_datapoints.go` | none | pure functions | DataPoints |
| Remote Write 2.0 symbols | `internal/v2_hack/symbols.go` | the table's slice, its array, its map | `Symbolize`, `Symbols`, `Reset`, `desymbolizeLabels` | SymbolsTable, Codec |
| Remote Write 2.0 messages | `internal/v2_hack/types.pb.go` | none | `Size`, `Marshal` and `Unmarshal` of nine messages | WireFormat, WriteRequest |
| custom marshalling | `internal/v2_hack/custom.go` | the buffer that is given again | `OptimizedMarshal` | WriteRequest |
| conversions | `internal/v2_hack/codec.go` | none | between messages and Prometheus' types | Codec |
| cgo zstd, deployment | `zstd_cgo.go`, `deployment/` | none | | not modelled |

**How the parts interact.** The client and the apps meet over HTTP: a worker
sends one path to every app, each app serves it on a goroutine of its own
through `instrument`, and the worker waits for all of them. Inside the client,
workers, request goroutines and the status loop share only atomics and the
WaitGroup; the context joins them to the signal. Inside an app, the requests of
one path share the instruments and one atomic. The receiver's goroutines share
counters only, and `getEncoder`'s callers an atomic value and a mutex. Nothing
is persisted anywhere, so there is no recovery to model. Each server program has
one `main` that starts servers and the sampler's goroutine, waits for a signal
and takes things down in an order; the signal's context joins them. A request
of Remote Write 2.0 passes through the whole of `v2_hack`: strings become
references, messages become bytes, and both turn back at the other end, where
the receiver counts them.

**What is hard about it.**

* Concurrency without locks: every count is one atomic step, but a request is
  many counts, and each reader reads several of them one after the other
  (`logStatus`, `sampleEvery`, the scrape).
* Ordering: lockstep rests on every path through a goroutine reaching
  `wg.Done`; a level is drawn at the start of a request and counted at its end.
* Cancellation: the context ends requests in flight, rounds not yet spawned and
  the two selects, in any order, and main does not wait for the workers.
* Boundaries: hand-written buckets beside a library's histogram.
* Repetition by hand: 150 handlers and 150 routes that have to agree; `Size`, two
  marshallers and a decoder that have to agree on every field.
* Ends: signals during start-up, handlers that outlive a grace period, a flush
  that races what is still being recorded, a second signal.
* Shared arrays: a table that hands out its own slice and goes on appending, a
  buffer that still holds the request before.

**What makes each part correct.** Client: equal load for every target, every
request counted exactly once, reports that fit the counts, an end after a
signal. Instrumentation: an exact in-flight count, and manual counters that
agree with the histogram at every boundary. Workload: the same work in all
apps. Receiver: every request in exactly one outcome, every sample under its
exporter, exact picks for the log. Encoder cache: one encoder per level, the
same for every caller. Processes: a stop cuts off only what outlives its deadline, what was
answered before is exported, a signal always ends them. Sampler: counters equal to what was used.
Remote Write 2.0: a request arrives as it was sent, whichever marshaller wrote it
into whichever buffer, and is counted like the same metrics by OTLP.

## 2. Modules

| Module | What it is |
|---|---|
| `LockstepRounds` | abstract: per worker, a shape is chosen, every target is served once, and only then the next is chosen |
| `LoadClient` | the client; implements `LockstepRounds` |
| `RequestInstrument` | `instrument` for one path, every update a step |
| `NoopReceiver` | the four routes, every counter update a step |
| `EncoderMemo` | abstract: a level's encoder is made once and every call is answered with it |
| `EncoderCache` | `getEncoder` step by step; implements `EncoderMemo` |
| `Workload` | the endpoint and latency tables and the rounds over them |
| `BackgroundSampler` | `simulateBackground` and `procstats` |
| `ServerLifecycle` | `main` of the five server programs, from start to end, with `BackgroundSampler` in the apps |
| `SymbolsTable` | the table of strings, with the arrays behind Go's slices |
| `WireFormat` | varints, tags, sizes and the decoding loop |
| `WriteRequest` | the nine messages: `Size`, `Marshal`, `Unmarshal`, and `custom.go` |
| `Codec` | `codec.go` and `desymbolizeLabels` |
| `DataPoints` | the two counts of a request |
| `RemoteWrite` | composes the five modules above into a sender and a receiver of requests |
| `MC*` | instances for TLC, one `.cfg` for each run |
| `*Proofs` | theorems of the module they are named after; `AppProofs` has those of `RequestInstrument` and `Workload`, `WriteRequestProofs` also those of `WireFormat`, `RemoteWriteProofs` also those of `SymbolsTable` and `Codec` |
| `SumTheorems` | facts about sums over finite sets, for the proofs about counters and sizes |

Operators named *mutant* in their comment are plausible slips in the code. They
take the place of the definition they name when the strength of a property is
tested, and are part of no specification.

### LoadClient

The actions are the atomic steps of the code. A worker: `Tick` (the ticker's
channel holds one tick, 252), `StartRound` (258-259), `Spawn` (261-263, one
target at a time), `WaitReturns` (279), `WorkerStop` (255). The goroutine of a
request walks through `gpc`: `start`, then `inflight`, or straight to `done` if
the URL is malformed (`NewRequestFails`, 266-268), or straight to the counting
if the context is done (`SendCancelled`); `DoReturns` brings a response or an
error; `AddSent`, `IncSent`, `AddFailed`, `IncFailed` are the four increments
of 229-237; `DrainBody` and the deferred `WgDone` end it. main: `StatusTick`,
`ReadSent` and `ReadFailed` for each target in turn (200), `LogReport`,
`BreakLoop` (367), and the fatal error of the metrics server (332), which can
strike at any step. Main returning ends the process: every action but
`Exited` needs `Running`.

Abstracted: the response, the time (a tick may come at any moment), the
formatting of the lines, and the parsing of the flags.

### RequestInstrument

One path. `Enter` is the gauge's increment, `AddInflight` the atomic's, which
returns the level; `Serve` runs the handler and takes the elapsed time;
`Observe` to `CountClass` are the nine updates of 278-287 in the code's order,
`LeaveGauge` and `LeaveInflight` the deferred function. Both apps perform the
same updates in the same order (266-287 and 270-302). Times are whole
milliseconds, so a boundary can be met exactly. `CountsIn` is the external
histogram: a value counts in every bucket whose boundary it does not exceed,
which both libraries document. All instruments with a shard label hold every
shard from the start, where the libraries create them on first use; a counter
that is absent and one that is zero are the same to every property here.
`returned` is a history variable.

### NoopReceiver

`Receive` counts the request; `ReadFails`, `DecompressFails` and
`UnmarshalFails` are the early returns of each route, with what the route's
deferred calls still do (v1 adds its zero samples, v2 and OTLP do not);
`LoadCounter` and `AddCounter` are the two steps of `sampleEvery`; `AddSamples`
is the final addition. gRPC hands `Export` a decoded message, so that route
starts at `Size`. v1 takes every encoding but zstd for snappy, v2 refuses what
it does not know. `decoded` and `carried` are history variables. The number of
samples of a request is an input; the functions that count them are `DataPoints`.

### EncoderCache

`Call`, `Hit` and `Miss` are the look without the lock, `Lock`, `LookAgain`,
`newEncoder`, `Store` and `Unlock` the slow path. A published map is a function
from levels to encoders; `r1` is the copy a caller took under the lock, which
it writes back with one entry added. In this repository only `zstd_test.go`
calls `CompressLevel`.

### Workload

The tables are the code's numbers, one table per app, compared through the
routes each app registers. A round sends one path, every app answers after any
latency `simulateLatency` can draw, and the round ends.

### BackgroundSampler and ServerLifecycle

`ServerLifecycle` runs one of five programs. `Program` lists the steps of each
`main` in the code's order and `pc` is the next one; every step is an action
that needs `At`. `WaitEnds` is the return of `<-ctx.Done()` with the closing of the
listener that begins `srv.Shutdown`; `ShutdownReturns` and `ShutdownTimesOut` are its
two ways out (the receiver's second is `log.Fatal`). `Flush` is the last
collection of `mp.Shutdown`, `FlushReturns` its export. `DeadlineEnds` is the
receiver's `<-ctx.Done()` (main.go:35), which waits for the whole second after
a shutdown that was quicker, and logs it as 5. `ListenError` is the other case of
a test client's select, whose `return` runs the deferred flush.

Around `main`: `Listens` and `ListenFails` of the server's goroutine, the requests
(`Arrive`, `Record`, `Answer`), the periodic or scraped `Export`, the test clients'
`Add`, the sampler's goroutine (`Sample`, `SamplerEnds`), and `Signal`, which ends the process before
it is asked for and, in a test client, again after `stop()`. Ending a process
(`End`) cuts off what is still handled. A deadline may pass at any moment of a
step that has one (`Deadline`). `batch`, `late` and the sampler's `seen` are history
variables; `late` holds the requests that `ShutdownTimesOut` leaves behind, whose handlers
run on beside the flush in an app. A duration wraps at `Overflow` as an int64 of nanoseconds does.

`BackgroundSampler` splits a tick where it can fail: `TickRead` up to
`proc.Sample()`, then `SampleFails` or `SampleSucceeds`. Gauges that are set to what
was read are left out. A reading never decreases; the code's `delta > 0` is
modelled all the same.

### SymbolsTable, WireFormat, WriteRequest, Codec, DataPoints, RemoteWrite

A slice is an array's number and a length, so two slices can share an array:
`append` writes into the array while there is room and else copies it into one
of twice the length (`ArraysWith`), `Reset` shortens the slice and keeps the array,
and `View` is what a slice shows now.

Messages are records with the fields of the generated structs, bytes are
numbers below 256. The generated code writes from the end of a buffer of
`Size()` bytes; `*Marshal` gives those bytes in the order they end up in,
`*Size` is the separate computation of the length, and `WriteAtEnd`, `Marshal` and
`OptimizedMarshal` put the two together, with `Error` for a write out of range.
`Decode` is the loop of every `Unmarshal`: `Entries` splits the bytes, `Filled` takes
the turns, and `Turn` does in each what the message's table (`LabelFields` to
`RequestFields`) says of the field's number. The table is the switch as data, one
case for each number: which field, of what wire type, one value or many, and what is made of
the value that is read. An unknown number is kept in `unrecognized`, and
another wire type is an error. Integers stand for themselves in 64-bit
two's complement (`Int64`; TLC can hold 31 bits and a sign), with the ten bytes of a negative
number; a field of 32 bits is read like one of 64, and nothing wider is written into
it (`Int32`, `Uint32`). A float is its code, a number below 65536, of which the
first two bytes are used. The exception is the conversion of an integer histogram to a float one
(codec.go:132-133, 152-159), whose counts are given as the numbers the floats are:
`float64` rounds to the nearest one, and of two to the even one, each difference, each
sum and each count. `Exact` is the number up to which a float64 holds every integer, 2^53 in the
code, and `Spacing` the distance between floats of a size. What recurs (the groups of a varint, the decoding loop, the running
sum of deltas) is a recursive function, so that it can be reasoned about.
The packed fields' over-allocation and the nil checks are left out.

`RemoteWrite` symbolizes a metric's strings one by one (`SymbolizeNext`, so the
table grows between any two), adds its series, encodes with either marshaller
(the optimised one into its last buffer), receives, and resets the table for the
next request. A reference has 32 bits and a size is an int, so no string is symbolized
past the first and no request encoded past the second (guards of `SymbolizeNext`, `Encode` and
`EncodeOptimized`). What a caller can send is external and stated as assumptions: labels are
sorted by name without repetitions (`Labels`), fields have their Go types (`Series`,
`Histograms`), a scrape makes a sample of each line of a data point's exposition
(`ScrapeAssumption`), and native histograms are as `Validate` of Prometheus wants them
(`HistogramsAssumption`): as many buckets as the spans say, and for integers,
unless a NaN was observed, as many observations as the count. The caller is external: in this repository only the tests of
`v2_hack` call it, and the receiver decodes with upstream's package, of which
`v2_hack` is a copy with the field `Labels` added.

## 3. Runs

| Run | Instance | What it shows |
|---|---|---|
| `load_workers` | 2 workers, 2 targets on one host, 1 round | counting is exact with two workers on shared counters |
| `load_rounds` | 1 worker, 2 targets on 2 hosts, 2 rounds, 2 endpoints, 1 status line and the final one | lockstep, parity, refinement of `LockstepRounds`; reports fit the counts |
| `load_live` | 1 worker, 2 targets, one malformed, 2 rounds, with fairness | rounds complete, a signal ends the process |
| `instrument_updates` | 3 requests, 2 shards, durations 100 and 101 ms | in-flight counts and levels are exact; buckets and sums agree with the histogram |
| `instrument_last_duration` | 2 requests | *violated*: the last-duration gauge may keep an earlier one |
| `receiver_requests` | 2 goroutines, 2 requests each, all routes and encodings, cap 1, rate 2 | each request and each sample is accounted for; picks and cap are exact |
| `encoder_cache` | 3 callers, 2 levels, 2 calls each, with fairness | one encoder per level, memo refinement, every call returns |
| `workload_rounds` | all 50 paths, 2 rounds, every 37th draw and the last | equal work, latencies within 11 to 411 ms |
| `lifecycle` | each program, 2 requests, 1 call, 2 signals, 2 units of usage, settings -1, 0, 5, 6 and 11, with fairness | only what outlives the shutdown is cut or missing from the export, counters track usage, only an overflow panics, a signal ends every process |
| `remote_write` | 3 metrics of 10 series in all, 5 strings, up to 3 metrics in up to 2 requests, both marshallers | symbols and slices stay, sizes are exact, what arrives is what was sent, both protocols count alike |
| `remote_write_inline` | the same | *violated*: a series with `Labels` does not survive `OptimizedMarshal` |

**Bounds.** `MaxRounds` and `MaxReports` bound the ticks; two rounds are what it
takes for a request to overtake into the next round, and two reports for one to
be compared with the one before. Two workers are what it takes for two
increments of one counter to interleave. The process may end by the
final report at any point of a round, so that report is one more reading. In `RequestInstrument`
a goroutine serves `MaxServed` requests, one in the runs: the properties count
requests, not goroutines. 100 ms is both a bucket boundary and a class
threshold, 101 ms the first duration past it; the other boundaries are covered
for every duration by the theorems `LabelsAgree` and `ClassesAreBuckets`. In
`NoopReceiver` the cap of 1000000 and the rate of 10000 become 1 and 2: of four
requests to a route the first and the third are picked, two calls can pass the
test of the cap together, and a fourth is refused. `Stride` thins the draws of `simulateLatency` and keeps
both ends, where the extremes are. In `ServerLifecycle` two requests are one that is
cut off, or recorded late, beside one that is not; 2 signals are the one that is
handled and the one that kills; with 6 units to a millisecond and a wrap at 32, the
setting 5 still fits, 6 wraps to a negative and 11 to a positive number. Two units of usage let
a failed sample skip one and the next catch up two, or one and one. The metrics
of `MCRemoteWrite` hold one of each thing that the code tells apart: zero and
absent values, numbers of one and two bytes and negative ones, lengths past
127, a two-byte tag, integer and float histograms, one without buckets, labels out of
order and one a prefix of another. `Exact` is 8 for 2^53: one histogram has 8 observations,
at the boundary, another 20 and bucket counts that round both ways and to even. Three metrics are what it takes to have a request
after an earlier and longer one, in its array and in its buffer. Permutation symmetry is used in the runs
that check only invariants. Deadlock is checked in every
run: `Exited`, `Ended` and `Quiet` are the only steps once the process or the
bounded input has ended, and a caller of `RemoteWrite` can always encode again.

**Fairness.** `LoadClient!FairSpec` has weak fairness for each goroutine's steps
(the Go scheduler is preemptive, and `client.Do` and the body reading return
within the client's timeout, 2000 ms unless configured away), and strong
fairness for the two receives from `ctx.Done()`: a select with several ready
cases picks one at random, so a case that stays ready is not passed over for
ever. No fairness is assumed of the signal, of the tickers or of the fatal
error. `EncoderCache!FairSpec` has weak fairness for the steps of a caller and
strong fairness for its `Lock`, since Go's mutex hands the lock over to a
waiter that has starved for a millisecond. `ServerLifecycle!Fairness` has weak
fairness for main's steps, for deadlines (timers fire), and for the handlers of
gRPC calls and of test clients, which wait for nothing: `GracefulStop` and the
test clients' `Shutdown` have no limit of their own. A handler of an app or of the
receiver's HTTP server may hang for ever, the pprof profile does for its
seconds; `StopsAfterSignal` holds all the same, by the deadlines. The export at the
end is bounded by the context in otel-app and by the exporter's own timeout in a test client.

## 4. Findings

A statement of a help text and one of a test do not hold of the
code; each has a run that shows it and an entry in `PROJECT.json`.

1. `http_request_last_duration_seconds` need not be the most recently completed
   request's (`cmd/prometheus-app/main.go:284`).
2. `OptimizedMarshal` (`internal/v2_hack/custom.go:32`) returns `dst[:n]`, the
   start of a buffer it filled from the end. The two coincide only if `Size`
   counts what is written, and the field `Labels` is counted (types.pb.go:1663)
   and never written: the result starts with bytes of no field and lacks its last ones.
   Returning the last n bytes, and writing the field, would mend both.

Smaller ones have no run. `sampleEvery` stops sampling after 1000000 requests
(`internal/receiver/sample_log.go:23`), and its comment names no end. A worker's select may take a
waiting tick after the context is done (`cmd/client/main.go:255`). The receiver logs
"timeout of 5 seconds" after one (`cmd/metrics-noop-receiver/main.go:37`).
The help of `http_requests_concurrency_level_total`
speaks of requests started (167), and `CountLevel` counts them when they end.
`logStatus` reads sent before failed (`cmd/client/main.go:200`), so a status
line can show `sent=0 failed=1`; its comment promises nothing about the two, and the
counters themselves never disagree (`FailedWithinSent`). Past 2^53 observations
`deltasToCounts` adds rounded numbers (`internal/v2_hack/codec.go:156`): the buckets need not add up to the
count, and an empty one after 2^53 + 1 and 2^53 + 3 comes out as -2.

## 5. Proofs

TLAPS checks the following for every value of the constants that satisfies the
named assumptions (finite sets of workers, hosts, goroutines and levels,
positive numbers of targets and of the rate, sentinels outside their sets, and for
requests `EmptyAssumption`, `StringsAssumption`, `MetricsAssumption`, `ExactAssumption`,
`ScrapeAssumption` and `HistogramsAssumption` of section 2). TLC evaluates every one of them
in a run, so they are not empty words.

* **LoadClientProofs.** `Lockstep` is not inductive: that a worker in its select
  has no live request follows from the WaitGroup's counter, which has to be
  related to the goroutines. `RoundsInv` adds that `wg[w]` is the number of w's
  live goroutines, that a goroutine at or beyond `next` does not exist while w
  spawns, and that only spawning and waiting workers have any. One lemma per
  group of actions shows that it is preserved (`RequestKeepsRounds`,
  `MainKeepsRounds`, `WorkerKeepsRounds`). `TypeCorrect` and `LockstepHolds` follow, and
  `RoundsImplemented`: a spawned goroutine's `wg.Done` is the abstract service
  of its target, `StartRound` the abstract choice, every other step a stutter.
  `FailuresCovered` rests on `OwedInv`: failures plus the requests that
  have been counted as sent and will still be counted as failed are no more
  than the sent count, for a target's atomics and for a host's counters.
  `MetricsFollow` (`MetricsTrackAtomics`) counts, for each host, the requests
  between their two additions. `RoundsAreCounted` (`RoundsCounted`) follows the set
  of requests of a target that are not counted yet: a round adds one for every
  target, an increment takes one away, and `Lockstep` says that there are none
  left when the next round begins. `LoadStaysLevel` (`LoadParity`) is arithmetic on
  it: every target's count lies between the rounds ended and the rounds begun.
  `ReportsStayWithinCounts` needs `ReportInv`, what main has read so far of
  each target: no more than the count is now, and no less than the last line said.
* **SumTheorems.** A sum over a set is a fold, and no induction theorem that takes
  an operator can be cited. `SumIsCardinality` needs none: a sum of natural numbers
  is the size of the set of its units, shown by solving the fold's recursion with an explicit
  function and taking a smallest counterexample (`WFMin`). The rest is
  cardinality: sums split (`SumSplits`), grow with their terms (`SumMonotone`) and
  differ by what differs (`SumsDiffer`, `CountsDiffer`).
* **AppProofs**, instruments. `CountersInv` relates the gauge and the atomic to
  the sets of goroutines between their increments and decrements;
  `InFlightAlwaysExact` follows. `LevelsInv` adds that at most n requests in flight
  have a level up to n: a request that joins has the size of the set it joins
  for its level, and whoever leaves only makes room (`LevelsStayRanked`).
  `LabelsAgree` and `ClassesAreBuckets` are about the classifications alone, for
  every duration: the label is the histogram's bucket, and a class is a union of
  buckets but for a duration exactly on a threshold.
  `SumsAgree` (`SumsMatchHistogram`) and `BucketsAgree` (`BucketsMatchHistogram`) are
  shown with `SumsInv` and `BucketInv`: at any moment a counter and the histogram
  differ by the requests between the two updates, which `SumsDiffer` moves by one with
  every update. `BucketsAgree` holds for every duration by `LabelsAgree`.
* **NoopReceiverProofs.** `RequestsAccounted` is inductive with the types, by
  moving one goroutine out of the undecided set with each outcome.
  `SamplesStayExact` is inductive with it: `AddSamples` moves one request's samples
  from what is carried to what is counted.
  `CounterStaysBounded` needs `CounterInv`: the counter and the goroutines that
  have passed the test together never exceed the cap by more than the
  goroutines there are. `PicksStayExact` rests on `RoundedUp`: the division
  rounded up grows exactly when the new number is the first of its block.
* **EncoderCacheProofs.** `NoWastedEncoder` needs that one caller at most is past
  `Lock` (`MutexInv`) and that its copy is still the published map (`ReadInv`).
  From the same invariant, `Store` changes one missing entry only
  (`PublishedStays`) and every return is the abstract answer
  (`MemoImplemented`).
* **AppProofs**, simulated work. `MeansOf` shows the three tables equal through the routes,
  `WithinATenth` that a draw stays within a tenth of its mean; with the
  invariant that an app that has answered has drawn from the round's mean, the
  sums keep the ratio of `EvenWork`.
* **WriteRequestProofs**, messages. That `Size` is what is written is shown for every message,
  not for the instances of a run. First, that the recursive functions exist: the
  function up to n is built from the one below n, and a smallest counterexample
  (`NatMin`) leaves none out (`Recursion`). `VarintSized`: a varint has the number of
  bytes that `sov` computes from the number of its bits. Then field by
  field: `Written(b, n)` says that b are bytes and n of them, each kind of field has
  a lemma that composes (`WrittenNext`, `RepeatedWritten`, `PackedWritten`), and each
  of the nine messages its own, up to `RequestWritten`: `Size` is the length of what
  `Marshal` writes, and of what `OptimizedMarshal` writes if no series has
  `Labels`; with `Labels` it is no less. That is why neither runs out of its buffer
  (`MarshalIsWhole`, `OptimizedIsWhole`), and why without `Labels` the prefix that
  `OptimizedMarshal` returns is the whole request and nothing of what the buffer
  held before; finding 2 is the other case.
* **RemoteWriteProofs**, the table and requests. Of the table, both properties rest on one invariant: the map
  leads to the cell of each of its strings, a returned reference is the map's,
  and a slice that was lent since the last `Reset` is a prefix of the table's
  slice or lies in an array that `append` has left behind. `append` writes past
  every such prefix, into the
  same array or a new one, which `IsAppended` states once for both cases.
  Of a request, `RequestInv` adds to it that the strings of the metric in the making
  are those that have a reference and those that are still to get one, that
  every reference in a series is a number, whence every message has its types, that
  there is one message for each series added, and that the buffer holds bytes; one
  lemma for each action. `TableUsed`: every step of a request is a step of `TableSpec`
  or none, so the theorems about the table hold of requests
  (`RequestRefsStand`, `RequestSymbolsStay`). `SizesAreWritten` (`SizeIsWritten`)
  and `RequestTyped` (`TypeOK`, with no marshaller out of range) are
  `RequestWritten` and `OptimizedIsWhole` at the requests that can be reached.
* **WriteRequestProofs**, the way back. That what is written is read goes from the
  bytes up, each step for any place in any sequence of bytes (`Stands(c, b, i)`: c is what b holds
  from i on). A recursion that runs from the end of an interval exists
  (`Backwards`, by a smallest counterexample again), which gives the value of a varint,
  the entries of a message and the skipping of one their equations. `VarintRead`: of ten
  groups of seven bits the value is put together as it was taken apart, and the tenth
  byte holds the sign (`ReadsBackLast`, `ReadsBackNext`); `ZigzagBack` for the zigzag numbers.
  Then, of each kind of field, that its entry is found where it stands, that the loop comes to
  the next one, and that its turn puts back what was written: one, many, packed, merged or
  left out because it is zero. Fields compose by `Done`: what is read so far has the fields
  written so far, the others are still those of the empty message. Each of the nine messages is
  a composition of its fields, in the order of its marshaller, which differs for `OptimizedMarshal`,
  up to `RequestBack` and `OptimizedRequestBack`: `Unmarshal` undoes either of them.
* **RemoteWriteProofs**, what is delivered. `DeliveryInv` says of a request that the references
  the caller holds are the table's (`RefsInv`), that the message of every series that was added
  is still what that series makes with today's references (`MessagesInv`: later
  symbols do not change it), that what is on the way is what one of the marshallers wrote of
  the request there is (`WireInv`), and that what arrived is that request (`GotInv`). With `RequestInv`
  it is inductive, one lemma for each action, and `Receive` is where `RequestBack` is needed.
  `RequestsAreDelivered` (`DeliveredIsSent`) follows because the conversions undo each other:
  references lead to their strings by `Inv` of the table; sorting what is sorted
  changes nothing (`Sorted` is a permutation by rank, and the rank of a label
  in a sorted sequence is its place); a histogram goes through its oneofs and its pair of fields and
  comes back, whichever its kind. `FloatViewsAddUp` (`FloatViewAddsUp`): for every valid histogram there are as many
  buckets as the spans say; and when its count is a number that a float64 holds, up to
  `Exact`, so is every difference of its counts and every sum of differences, nothing is
  rounded (`FloatIs`, `DeltasAre`), and the running sum gives the counts that
  `HistogramsAssumption` says there are, which add up.
  `PointsAgreeHolds` (`PointsAgree`) counts both sides as sums over the series: the samples by
  `ScrapeAssumption` and the size of each exposition, the native histograms by the lengths of
  their spans, which are the buckets there are.
* **ServerLifecycleProofs.** `Shape` has the types, and that nothing is being
  handled once the process has ended; `ServerInv` says which servers take requests
  at which step of main; `CutInv` that only `late` requests are being handled once `Shutdown`
  has returned; `FlushInv` that otel-app's provider is up until the
  flush, that what was handled is recorded and what was answered is in the last
  batch, but for the `late` ones. The last three need the order of the steps, which is why the proof goes
  through the steps of `Program` one at a time. `OnlyLateCut` follows from `CutInv`
  and `FlushComplete` from `FlushInv`; `PanicsOnOverflow` is inductive as it
  stands. `SamplerInv` (the counter is the last reading and never ahead of the
  usage) gives `CountersTrack`.
* `TypesHold` in NoopReceiverProofs, EncoderCacheProofs, AppProofs and
  ServerLifecycleProofs is the type invariant of each, from the same invariants.

**Model-checked only.** The liveness properties: `RoundsComplete`, `SignalExits`,
`CallsReturn` and `StopsAfterSignal`. TLAPS does not handle fairness. Every invariant and
every other action property or refinement that a passing run checks is the statement of a theorem.
`StringsAssumption` and its companions are assumptions about callers and libraries outside
this repository; TLC evaluates them on the instance only. That floats keep their value
on the wire rests on their codes: the six bytes of a float that are always 0 here are written and read like the
other two.

## 6. Plan

The parts that keep state are modelled. What is left, in this order:

1. `Bench`: the client composed with an app, an app's in-flight requests bounded
   by the workers, the client's counts against the app's counts over a shutdown.
2. A request of Remote Write from other versions: unknown fields of every wire
   type, kept through a round trip. `RequestBack` is for requests of known fields.

**Not modelled.** `zstd_cgo.go` (two foreign calls without state), the deployment
files (no program of this repository), the protobuf runtime's side of
`types.pb.go` (descriptors, registration, `XXX_` methods), the pprof routes, flags
and log wording.
