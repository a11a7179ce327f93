-------------------------- MODULE RequestInstrument --------------------------
(* The instrument wrapper of cmd/prometheus-app and cmd/otel-app, for one    *)
(* path.  Every request runs it on a goroutine of its own: it enters the     *)
(* in-flight gauge and the atomic behind it, runs the handler, then updates  *)
(* nine instruments one after the other and leaves the gauge and the atomic. *)
(* Both apps make the same updates in the same order; each update is atomic  *)
(* in its client library.  Durations are whole milliseconds.                 *)
EXTENDS Integers, Sequences, FiniteSets, FiniteSetsExt

CONSTANTS
    Requests,   \* goroutines that can serve this path at the same time
    Shards,     \* the values of shardLabel
    Durations,  \* elapsed times a handler can take, in ms
    Sizes,      \* bytes a handler can get written
    MaxServed   \* bound: requests one goroutine serves

ASSUME RequestsAssumption == IsFiniteSet(Requests)
ASSUME ShardsAssumption == IsFiniteSet(Shards) /\ Shards # {}
ASSUME ValuesAssumption == Durations \subseteq Nat /\ Sizes \subseteq Nat
ASSUME BoundAssumption == MaxServed \in Nat

VARIABLES
    pc,        \* pc[r]: the next step of the goroutine
    served,    \* served[r]: requests it has started
    req,       \* req[r]: the locals shard, level, elapsed and rec.bytes
    requestsInFlight,  \* the gauge
    inflight,  \* the atomic the wrapper closes over
    m,         \* the other instruments of prometheusMetrics or otelMetrics
    returned   \* returned[s]: duration of the last handler of shard s to return

vars == <<pc, served, req, requestsInFlight, inflight, m, returned>>

-------------------------------------------------------------------------------
(* The classifications. *)

durationBuckets == <<10, 25, 50, 100, 150, 250, 350, 500>>

\* The le labels: the index of a boundary, one more for "+Inf".
Les == 1 .. Len(durationBuckets) + 1

\* The counts of the histogram are cumulative: v counts in every bucket whose
\* boundary it does not exceed.
CountsIn(v, le) == le = Len(durationBuckets) + 1 \/ v <= durationBuckets[le]

\* Mutant of latencyBucketLabel: a boundary taken as exclusive.
latencyBucketLabelExclusive(v) ==
    Min({i \in 1 .. Len(durationBuckets) : v < durationBuckets[i]}
          \cup {Len(durationBuckets) + 1})

latencyBucketLabel(v) ==
    Min({i \in 1 .. Len(durationBuckets) : v <= durationBuckets[i]}
          \cup {Len(durationBuckets) + 1})

Levels == {"low", "medium", "high", "saturated"}

concurrencyLevelLabel(n) ==
    CASE n <= 1 -> "low"
      [] n > 1 /\ n <= 3 -> "medium"
      [] n > 3 /\ n <= 6 -> "high"
      [] OTHER -> "saturated"

Classes == {"normal", "slow", "critical"}

outcomeClassLabel(v) ==
    CASE v < 100 -> "normal"
      [] v >= 100 /\ v < 250 -> "slow"
      [] OTHER -> "critical"

-------------------------------------------------------------------------------

PCs == {"idle", "add", "serve", "observe", "total", "sum", "count", "size",
        "last", "bucket", "level", "class", "dec", "sub"}

NoRequest == [shard |-> CHOOSE s \in Shards : TRUE,
              level |-> 0, elapsed |-> 0, bytes |-> 0]

RequestRecord == [shard : Shards, level : Nat, elapsed : Nat, bytes : Nat]

\* The vectors with a shard label hold a counter for every shard, here from the
\* start; the histogram's counts are cumulative.
Metrics == [requestDuration : [Les -> Nat], requestDurationSum : Nat,
            requestsTotal : Nat,
            durationSum : [Shards -> Nat], durationCount : [Shards -> Nat],
            responseSize : [Shards -> Nat], lastDuration : [Shards -> Nat],
            latencyBucket : [Shards -> [Les -> Nat]],
            concurrencyLevel : [Shards -> [Levels -> Nat]],
            outcomeClass : [Shards -> [Classes -> Nat]]]

newMetrics ==
    LET perShard(zero) == [s \in Shards |-> zero]
    IN  [requestDuration |-> [le \in Les |-> 0], requestDurationSum |-> 0,
         requestsTotal |-> 0,
         durationSum |-> perShard(0), durationCount |-> perShard(0),
         responseSize |-> perShard(0), lastDuration |-> perShard(0),
         latencyBucket |-> perShard([le \in Les |-> 0]),
         concurrencyLevel |-> perShard([l \in Levels |-> 0]),
         outcomeClass |-> perShard([c \in Classes |-> 0])]

TypeOK ==
    /\ pc \in [Requests -> PCs]
    /\ served \in [Requests -> Nat]
    /\ req \in [Requests -> RequestRecord]
    /\ requestsInFlight \in Nat
    /\ inflight \in Nat
    /\ m \in Metrics
    /\ returned \in [Shards -> Nat]

Init ==
    /\ pc = [r \in Requests |-> "idle"]
    /\ served = [r \in Requests |-> 0]
    /\ req = [r \in Requests |-> NoRequest]
    /\ requestsInFlight = 0
    /\ inflight = 0
    /\ m = newMetrics
    /\ returned = [s \in Shards |-> 0]

Goto(r, from, to) ==
    /\ pc[r] = from
    /\ pc' = [pc EXCEPT ![r] = to]

-------------------------------------------------------------------------------
(* Around the handler. *)

\* Mutant of Enter: the gauge is never raised.
EnterUncounted(r, s) ==
    /\ Goto(r, "idle", "add")
    /\ served[r] < MaxServed
    /\ served' = [served EXCEPT ![r] = @ + 1]
    /\ req' = [req EXCEPT ![r].shard = s]
    /\ UNCHANGED <<requestsInFlight, inflight, m, returned>>

\* The shard is drawn and the gauge goes up.
Enter(r, s) ==
    /\ Goto(r, "idle", "add")
    /\ served[r] < MaxServed
    /\ served' = [served EXCEPT ![r] = @ + 1]
    /\ req' = [req EXCEPT ![r].shard = s]
    /\ requestsInFlight' = requestsInFlight + 1
    /\ UNCHANGED <<inflight, m, returned>>

\* Mutant of AddInflight: the level is the count before this request.
AddInflightLevelBefore(r) ==
    /\ Goto(r, "add", "serve")
    /\ inflight' = inflight + 1
    /\ req' = [req EXCEPT ![r].level = inflight]
    /\ UNCHANGED <<served, requestsInFlight, m, returned>>

\* level := inflight.Add(1)
AddInflight(r) ==
    /\ Goto(r, "add", "serve")
    /\ inflight' = inflight + 1
    /\ req' = [req EXCEPT ![r].level = inflight + 1]
    /\ UNCHANGED <<served, requestsInFlight, m, returned>>

\* next(rec, r) and the reading of the clock.
Serve(r, v, n) ==
    /\ Goto(r, "serve", "observe")
    /\ req' = [req EXCEPT ![r].elapsed = v, ![r].bytes = n]
    /\ returned' = [returned EXCEPT ![req[r].shard] = v]
    /\ UNCHANGED <<served, requestsInFlight, inflight, m>>

\* The deferred function, on the way out.
LeaveGauge(r) ==
    /\ Goto(r, "dec", "sub")
    /\ requestsInFlight' = requestsInFlight - 1
    /\ UNCHANGED <<served, req, inflight, m, returned>>

\* Mutant of LeaveInflight: the atomic is left behind.
LeaveInflightForgotten(r) ==
    /\ Goto(r, "sub", "idle")
    /\ req' = [req EXCEPT ![r] = NoRequest]
    /\ UNCHANGED <<served, requestsInFlight, inflight, m, returned>>

LeaveInflight(r) ==
    /\ Goto(r, "sub", "idle")
    /\ inflight' = inflight - 1
    /\ req' = [req EXCEPT ![r] = NoRequest]
    /\ UNCHANGED <<served, requestsInFlight, m, returned>>

-------------------------------------------------------------------------------
(* The nine instruments, in the order of the code. *)

Observe(r) ==
    /\ Goto(r, "observe", "total")
    /\ LET v == req[r].elapsed
       IN  m' = [m EXCEPT
                   !.requestDuration =
                       [le \in Les |-> IF CountsIn(v, le) THEN @[le] + 1
                                                          ELSE @[le]],
                   !.requestDurationSum = @ + v]

CountTotal(r) ==
    /\ Goto(r, "total", "sum")
    /\ m' = [m EXCEPT !.requestsTotal = @ + 1]

\* Mutant of AddDuration: the duration is added to every shard.
AddDurationEverywhere(r) ==
    /\ Goto(r, "sum", "count")
    /\ m' = [m EXCEPT !.durationSum = [s \in Shards |-> @[s] + req[r].elapsed]]

AddDuration(r) ==
    /\ Goto(r, "sum", "count")
    /\ m' = [m EXCEPT !.durationSum[req[r].shard] = @ + req[r].elapsed]

CountDuration(r) ==
    /\ Goto(r, "count", "size")
    /\ m' = [m EXCEPT !.durationCount[req[r].shard] = @ + 1]

AddSize(r) ==
    /\ Goto(r, "size", "last")
    /\ m' = [m EXCEPT !.responseSize[req[r].shard] = @ + req[r].bytes]

SetLastDuration(r) ==
    /\ Goto(r, "last", "bucket")
    /\ m' = [m EXCEPT !.lastDuration[req[r].shard] = req[r].elapsed]

CountBucket(r) ==
    /\ Goto(r, "bucket", "level")
    /\ m' = [m EXCEPT
               !.latencyBucket[req[r].shard][latencyBucketLabel(req[r].elapsed)]
                   = @ + 1]

CountLevel(r) ==
    /\ Goto(r, "level", "class")
    /\ m' = [m EXCEPT
               !.concurrencyLevel[req[r].shard][concurrencyLevelLabel(req[r].level)]
                   = @ + 1]

CountClass(r) ==
    /\ Goto(r, "class", "dec")
    /\ m' = [m EXCEPT
               !.outcomeClass[req[r].shard][outcomeClassLabel(req[r].elapsed)]
                   = @ + 1]

Record(r) ==
    /\ \/ Observe(r) \/ CountTotal(r)
       \/ AddDuration(r) \/ CountDuration(r) \/ AddSize(r) \/ SetLastDuration(r)
       \/ CountBucket(r) \/ CountLevel(r) \/ CountClass(r)
    /\ UNCHANGED <<served, req, requestsInFlight, inflight, returned>>

-------------------------------------------------------------------------------

Arrive(r) == \E s \in Shards : Enter(r, s)

Finish(r) ==
    \/ AddInflight(r)
    \/ \E v \in Durations, n \in Sizes : Serve(r, v, n)
    \/ Record(r)
    \/ LeaveGauge(r)
    \/ LeaveInflight(r)

\* No further request comes (the bound is reached) and all are done.
Quiet ==
    /\ \A r \in Requests : pc[r] = "idle" /\ served[r] = MaxServed
    /\ UNCHANGED vars

Next == (\E r \in Requests : Arrive(r) \/ Finish(r)) \/ Quiet

Spec == Init /\ [][Next]_vars

-------------------------------------------------------------------------------
(* Properties. *)

\* Requests whose goroutine is about to take one of the steps P.
At(P) == {r \in Requests : pc[r] \in P}

AtRest == At(PCs \ {"idle"}) = {}

\* The gauge and the atomic behind it, which the wrapper moves one after the
\* other, each count exactly the requests between their own two steps, so they
\* never drift apart, go negative or stay up when the path is idle.
InFlightExact ==
    /\ requestsInFlight = Cardinality(At(PCs \ {"idle", "sub"}))
    /\ inflight = Cardinality(At(PCs \ {"idle", "add"}))

\* The manual counters and the histogram they stand beside tell the same
\* story, at every boundary, up to the requests between the two updates: the
\* counts of the buckets up to le, over the shards, are the histogram's
\* cumulative count, and the sums and the counts agree.
BucketsMatchHistogram ==
    LET before == {"total", "sum", "count", "size", "last", "bucket"}
    IN  \A le \in Les :
          m.requestDuration[le]
            = SumFunctionOnSet([s \in Shards |->
                SumFunctionOnSet(m.latencyBucket[s], 1 .. le)], Shards)
              + Cardinality({r \in At(before) : CountsIn(req[r].elapsed, le)})

SumsMatchHistogram ==
    /\ m.requestDurationSum
         = SumFunctionOnSet(m.durationSum, Shards)
           + SumFunctionOnSet([r \in Requests |-> req[r].elapsed],
                              At({"total", "sum"}))
    /\ m.requestDuration[Len(durationBuckets) + 1]
         = SumFunctionOnSet(m.durationCount, Shards)
           + Cardinality(At({"total", "sum", "count"}))

\* Requests the atomic counts whose level is n or lower.
UpToLevel(n) == {r \in At(PCs \ {"idle", "add"}) : req[r].level <= n}

\* The atomic orders the requests of a path: of those in flight at most n have
\* a level up to n, whatever order they leave in.  So at most one is "low"
\* and at most three are "low" or "medium" at a time.
LevelsByRank ==
    \A n \in 1 .. Cardinality(Requests) : Cardinality(UpToLevel(n)) <= n

-------------------------------------------------------------------------------
(* What the help texts say and the code does not do. *)

\* "Duration in seconds of the most recently completed HTTP request": at rest
\* the gauge shows the duration of the last handler that returned.
LastDurationIsLatest == AtRest => m.lastDuration = returned

===============================================================================
