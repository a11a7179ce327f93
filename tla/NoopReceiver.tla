----------------------------- MODULE NoopReceiver -----------------------------
(* internal/receiver: the four ingestion routes of the noop receiver, which  *)
(* decode what a collector or agent sends, count it and drop it.  Requests   *)
(* are served concurrently; every counter is an atomic of its own, and the   *)
(* requests logged as examples are picked by sampleEvery, which tests its    *)
(* counter and only then increments it.                                      *)
EXTENDS Integers, FiniteSets, Functions

CONSTANTS
    Handlers,       \* goroutines serving requests at the same time
    Traffic,        \* what is sent: pairs of a route and an encoding
    Counts,         \* numbers of samples a request can carry
    logSampleRate,  \* 10000 in the code
    LogCap,         \* 1000000 in the code: no more sampling beyond it
    MaxRequests     \* bound: requests one goroutine serves

ASSUME HandlersAssumption == IsFiniteSet(Handlers)
ASSUME CountsAssumption == Counts \subseteq Nat
ASSUME RateAssumption == logSampleRate \in Nat \ {0} /\ LogCap \in Nat
ASSUME BoundAssumption == MaxRequests \in Nat

\* The routes: Remote Write 1.0 and 2.0, OTLP over HTTP and over gRPC.
Routes == {"v1", "v2", "otlpHTTP", "otlpGRPC"}

\* Content-Encoding as the remote write routes tell it apart.
Encodings == {"snappy", "zstd", "other"}

ASSUME TrafficAssumption == Traffic \subseteq Routes \X Encodings

\* The series of sampled_total.
Exporters == {"prometheus-2", "vmagent", "prometheus-3", "prometheus-3-zstd",
              "otlp/export", "opentelemetry-collector"}

\* The series the samples of a request are added to.
ExporterOf(route, enc) ==
    IF route = "v1" THEN IF enc = "zstd" THEN "vmagent" ELSE "prometheus-2"
    ELSE IF route = "v2"
         THEN IF enc = "zstd" THEN "prometheus-3-zstd" ELSE "prometheus-3"
    ELSE IF route = "otlpHTTP" THEN "otlp/export"
    ELSE "opentelemetry-collector"

VARIABLES
    pc,             \* pc[h]: the next step of goroutine h
    req,            \* req[h]: its request's route, encoding and sample count
    taken,          \* taken[h]: requests it has taken (bounded by MaxRequests)
    requestTotal,   \* requests_total, per route
    readError,      \* read_error_total, per route
    decodeError,    \* decode_error_total, per route
    requestSize,    \* observations of request_size_bytes, per route
    sampledTotal,   \* sampled_total, per exporter
    sampleCounter,  \* the counter of sampleEvery, per route
    logs,           \* requests picked for the log, per route
    decoded,        \* requests decoded so far, per route
    carried         \* samples those requests carried, per exporter

counters == <<requestTotal, readError, decodeError, requestSize, sampledTotal>>
sampling == <<sampleCounter, logs>>
history  == <<decoded, carried>>
vars == <<pc, req, taken, counters, sampling, history>>

PCs == {"idle", "read", "decompress", "size", "unmarshal", "load", "add",
        "addSamples"}

NoRequest == [route |-> "v1", enc |-> "other", samples |-> 0]

TypeOK ==
    /\ pc \in [Handlers -> PCs]
    /\ req \in [Handlers -> [route : Routes, enc : Encodings, samples : Nat]]
    /\ taken \in [Handlers -> Nat]
    /\ requestTotal \in [Routes -> Nat]
    /\ readError \in [Routes -> Nat]
    /\ decodeError \in [Routes -> Nat]
    /\ requestSize \in [Routes -> Nat]
    /\ sampledTotal \in [Exporters -> Nat]
    /\ sampleCounter \in [Routes -> Nat]
    /\ logs \in [Routes -> Nat]
    /\ decoded \in [Routes -> Nat]
    /\ carried \in [Exporters -> Nat]
    /\ \A h \in Handlers :
          /\ pc[h] \in {"read", "unmarshal"} => req[h].route # "otlpGRPC"
          /\ pc[h] = "decompress" => req[h].route \in {"v1", "v2"}

Init ==
    /\ pc = [h \in Handlers |-> "idle"]
    /\ req = [h \in Handlers |-> NoRequest]
    /\ taken = [h \in Handlers |-> 0]
    /\ requestTotal = [r \in Routes |-> 0]
    /\ readError = [r \in Routes |-> 0]
    /\ decodeError = [r \in Routes |-> 0]
    /\ requestSize = [r \in Routes |-> 0]
    /\ sampledTotal = [x \in Exporters |-> 0]
    /\ sampleCounter = [r \in Routes |-> 0]
    /\ logs = [r \in Routes |-> 0]
    /\ decoded = [r \in Routes |-> 0]
    /\ carried = [x \in Exporters |-> 0]

ExporterFor(h) == ExporterOf(req[h].route, req[h].enc)

Goto(h, from, to) ==
    /\ pc[h] = from
    /\ pc' = [pc EXCEPT ![h] = to]

Bump(counter, key) == counter' = [counter EXCEPT ![key] = @ + 1]

-------------------------------------------------------------------------------
(* Taking a request apart. *)

\* gRPC hands Export a message that is already decoded.
Receive(h, route, enc) ==
    /\ Goto(h, "idle", IF route = "otlpGRPC" THEN "size" ELSE "read")
    /\ taken[h] < MaxRequests
    /\ taken' = [taken EXCEPT ![h] = @ + 1]
    /\ req' = [req EXCEPT ![h] = [route |-> route, enc |-> enc, samples |-> 0]]
    /\ Bump(requestTotal, route)
    /\ UNCHANGED <<readError, decodeError, requestSize, sampledTotal, sampling,
                   history>>

ReadFails(h) ==
    /\ Goto(h, "read", "idle")
    /\ Bump(readError, req[h].route)
    /\ req' = [req EXCEPT ![h] = NoRequest]
    /\ UNCHANGED <<taken, requestTotal, decodeError, requestSize, sampledTotal,
                   sampling, history>>

\* Mutant of Read: OTLP over HTTP decompressed like the others.
ReadThenDecompress(h) ==
    /\ Goto(h, "read", "decompress")
    /\ UNCHANGED <<req, taken, counters, sampling, history>>

Read(h) ==
    /\ Goto(h, "read", IF req[h].route = "otlpHTTP" THEN "size" ELSE "decompress")
    /\ UNCHANGED <<req, taken, counters, sampling, history>>

\* v1 has deferred the addition of its samples, none so far; v2 has not.
DecompressFails(h) ==
    /\ Goto(h, "decompress", IF req[h].route = "v1" THEN "addSamples" ELSE "idle")
    /\ Bump(decodeError, req[h].route)
    /\ UNCHANGED <<req, taken, requestTotal, readError, requestSize,
                   sampledTotal, sampling, history>>

\* v1 takes every encoding but zstd for snappy; v2 refuses the others.
Decompress(h) ==
    /\ Goto(h, "decompress", "size")
    /\ req[h].route = "v2" => req[h].enc # "other"
    /\ UNCHANGED <<req, taken, counters, sampling, history>>

\* The size is observed.  A gRPC request is decoded, with n samples.
Size(h, n) ==
    /\ Goto(h, "size", IF req[h].route = "otlpGRPC" THEN "load" ELSE "unmarshal")
    /\ Bump(requestSize, req[h].route)
    /\ IF req[h].route = "otlpGRPC"
       THEN /\ req' = [req EXCEPT ![h].samples = n]
            /\ Bump(decoded, req[h].route)
            /\ carried' = [carried EXCEPT ![ExporterFor(h)] = @ + n]
       ELSE UNCHANGED <<req, history>>
    /\ UNCHANGED <<taken, requestTotal, readError, decodeError, sampledTotal,
                   sampling>>

\* Mutant of UnmarshalFails: the error is logged and not counted.
UnmarshalFailsUncounted(h) ==
    /\ Goto(h, "unmarshal",
            IF req[h].route = "otlpHTTP" THEN "idle" ELSE "addSamples")
    /\ UNCHANGED <<req, taken, counters, sampling, history>>

\* Mutant of UnmarshalFails: the samples decoded before the error are counted.
UnmarshalFailsPartly(h) ==
    /\ Goto(h, "unmarshal",
            IF req[h].route = "otlpHTTP" THEN "idle" ELSE "addSamples")
    /\ Bump(decodeError, req[h].route)
    /\ req' = [req EXCEPT ![h].samples = 1]
    /\ UNCHANGED <<taken, requestTotal, readError, requestSize, sampledTotal,
                   sampling, history>>

UnmarshalFails(h) ==
    /\ Goto(h, "unmarshal",
            IF req[h].route = "otlpHTTP" THEN "idle" ELSE "addSamples")
    /\ Bump(decodeError, req[h].route)
    /\ UNCHANGED <<req, taken, requestTotal, readError, requestSize,
                   sampledTotal, sampling, history>>

Unmarshal(h, n) ==
    /\ Goto(h, "unmarshal", "load")
    /\ req' = [req EXCEPT ![h].samples = n]
    /\ Bump(decoded, req[h].route)
    /\ carried' = [carried EXCEPT ![ExporterFor(h)] = @ + n]
    /\ UNCHANGED <<taken, counters, sampling>>

-------------------------------------------------------------------------------
(* sampleEvery, and the count of the samples. *)

\* Mutant of LoadCounter: the test of the cap is dropped.
LoadCounterUncapped(h) ==
    /\ Goto(h, "load", "add")
    /\ UNCHANGED <<req, taken, counters, sampling, history>>

LoadCounter(h) ==
    /\ Goto(h, "load",
            IF sampleCounter[req[h].route] > LogCap THEN "addSamples" ELSE "add")
    /\ UNCHANGED <<req, taken, counters, sampling, history>>

\* Mutant of AddCounter: n % rate = 0, so the first request is not logged.
AddCounterLate(h) ==
    /\ Goto(h, "add", "addSamples")
    /\ LET route == req[h].route
           n == sampleCounter[route] + 1
       IN  /\ sampleCounter' = [sampleCounter EXCEPT ![route] = n]
           /\ logs' = [logs EXCEPT ![route] =
                          IF n % logSampleRate = 0 THEN @ + 1 ELSE @]
    /\ UNCHANGED <<req, taken, counters, history>>

\* n := counter.Add(1), and the request is logged when it is the first of its
\* logSampleRate.
AddCounter(h) ==
    /\ Goto(h, "add", "addSamples")
    /\ LET route == req[h].route
           n == sampleCounter[route] + 1
       IN  /\ sampleCounter' = [sampleCounter EXCEPT ![route] = n]
           /\ logs' = [logs EXCEPT ![route] =
                          IF (n - 1) % logSampleRate = 0 THEN @ + 1 ELSE @]
    /\ UNCHANGED <<req, taken, counters, history>>

AddSamples(h) ==
    /\ Goto(h, "addSamples", "idle")
    /\ sampledTotal' = [sampledTotal EXCEPT ![ExporterFor(h)] = @ + req[h].samples]
    /\ req' = [req EXCEPT ![h] = NoRequest]
    /\ UNCHANGED <<taken, requestTotal, readError, decodeError, requestSize,
                   sampling, history>>

-------------------------------------------------------------------------------

Serve(h) ==
    \/ ReadFails(h) \/ Read(h)
    \/ DecompressFails(h) \/ Decompress(h)
    \/ \E n \in Counts : Size(h, n)
    \/ UnmarshalFails(h)
    \/ \E n \in Counts : Unmarshal(h, n)
    \/ LoadCounter(h) \/ AddCounter(h)
    \/ AddSamples(h)

Arrive(h) == \E sent \in Traffic : Receive(h, sent[1], sent[2])

\* No further request comes (the bound is reached) and all are done.
Quiet ==
    /\ \A h \in Handlers : pc[h] = "idle" /\ taken[h] = MaxRequests
    /\ UNCHANGED vars

Next == (\E h \in Handlers : Arrive(h) \/ Serve(h)) \/ Quiet

Spec == Init /\ [][Next]_vars

-------------------------------------------------------------------------------
(* Properties. *)

\* Requests to the route at one of the pcs P.
At(route, P) == {h \in Handlers : req[h].route = route /\ pc[h] \in P}

Undecided == {"read", "decompress", "size", "unmarshal"}

\* Every request counted on a route ends up in exactly one of read error,
\* decode error and decoded, however the requests interleave.
RequestsAccounted ==
    \A route \in Routes :
        requestTotal[route]
          = readError[route] + decodeError[route] + decoded[route]
            + Cardinality(At(route, Undecided))

\* sampled_total of an exporter is the samples of the requests of that exporter
\* that were decoded, less those about to be added: none is lost, added twice
\* or added to the series of another exporter, and a request that fails adds
\* none.
SamplesExact ==
    \A x \in Exporters :
        sampledTotal[x]
          + SumFunctionOnSet([h \in Handlers |-> req[h].samples],
                             {h \in Handlers : ExporterFor(h) = x})
          = carried[x]

\* The requests picked for the log are the 1st and every logSampleRate-th after
\* it, of those that got a number: concurrent calls neither skip nor repeat one.
PicksExact ==
    \A route \in Routes :
        logs[route] =
          (sampleCounter[route] + logSampleRate - 1) \div logSampleRate

\* The cap is tested before the increment, not with it: the counter can pass
\* it, by at most one for every request served at the time.
CounterBounded ==
    \A route \in Routes :
        sampleCounter[route] <= LogCap + Cardinality(Handlers)
===============================================================================
