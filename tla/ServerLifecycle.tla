---------------------------- MODULE ServerLifecycle ----------------------------
(* main of the three apps, of cmd/metrics-noop-receiver and of its test      *)
(* clients: one process from start to end, with the requests its servers     *)
(* handle, what they record, the export of what was recorded, signals, and   *)
(* the deadlines of the contexts that Shutdown is given.                     *)
(*                                                                           *)
(* A handler records before its response is written out: the responses are   *)
(* shorter than the server's buffer, which is flushed when the handler has   *)
(* returned.  A duration is a number of time units, Milli of them in a       *)
(* millisecond, and wraps around at Overflow as an int64 does at 2^63.       *)
EXTENDS BackgroundSampler, Sequences, FiniteSets

CONSTANTS
    Requests,       \* HTTP requests a process may get
    Calls,          \* gRPC calls a receiver may get
    Tick,           \* an addition to the counter of a test client
    Settings,       \* values of OTEL_METRIC_EXPORT_INTERVAL, 0 when not a number
    Milli, Overflow, DefaultInterval,
    MaxSignals      \* bound on the signals sent

ASSUME RequestsAssumption == Requests \cap Calls = {}
ASSUME SettingsAssumption == Settings \subseteq Int
ASSUME DurationAssumption ==
    /\ Overflow \in Nat /\ Milli \in Nat \ {0}
    /\ DefaultInterval \in 1 .. (Overflow - 1)

VARIABLES
    kind,           \* which program the process runs
    setting,        \* its OTEL_METRIC_EXPORT_INTERVAL
    pc,             \* the index of its next step
    status,         \* "running", or how the process ended
    signals,        \* the signals it was sent
    done,           \* is the context (the channel quit) of the signal done?
    srv,            \* the HTTP server
    rpc,            \* the gRPC server: is it serving?
    handler,        \* handler[r]: how far the request is
    recorded,       \* what the instruments hold
    batch,          \* what the last collection before the end found
    exported,       \* what was last exported, or scraped
    provider,       \* the meter provider
    expired,        \* has the context of this step expired?
    late            \* what outlived srv.Shutdown: still handled at its deadline

mainVars == <<kind, setting, pc, status, signals, done, srv, rpc, handler, recorded,
              batch, exported, provider, expired, late>>
vars == <<samplerVars, mainVars>>

Apps == {"prometheus", "otel", "uninstrumented"}
Kinds == Apps \cup {"receiver", "testClient"}
Pushers == {"otel", "testClient"}
AllRequests == Requests \cup Calls

\* Mutant of Program: the provider is shut down before the server.
ProgramFlushFirst ==
    [prometheus |-> <<"reader", "notify", "background", "serve", "wait", "shutdown">>,
     otel |-> <<"notify", "exporter", "jitter", "provider", "reader", "background",
                "serve", "wait", "flush", "export", "shutdown">>,
     uninstrumented |-> <<"reader", "notify", "background", "serve", "wait", "shutdown">>,
     receiver |-> <<"serve", "serveRPC", "notify", "wait", "shutdown", "deadline",
                    "graceful">>,
     testClient |-> <<"notify", "exporter", "provider", "serve", "wait", "shutdown",
                      "flush", "export">>]

\* The steps of each main.
Program ==
    [prometheus |-> <<"reader", "notify", "background", "serve", "wait", "shutdown">>,
     otel |-> <<"notify", "exporter", "jitter", "provider", "reader", "background",
                "serve", "wait", "shutdown", "flush", "export">>,
     uninstrumented |-> <<"reader", "notify", "background", "serve", "wait", "shutdown">>,
     receiver |-> <<"serve", "serveRPC", "notify", "wait", "shutdown", "deadline",
                    "graceful">>,
     testClient |-> <<"notify", "exporter", "provider", "serve", "wait", "shutdown",
                      "flush", "export">>]

Running == status = "running"
At(step) == Running /\ Program[kind][pc] = step
Passed(step) == \E i \in 1..(pc - 1) : Program[kind][i] = step

\* Mutant of Limited: the apps' Shutdown has no deadline.
LimitedExport == At("export") /\ kind = "otel"

\* Steps that are given a context with a timeout.
Limited ==
    \/ At("shutdown") /\ kind # "testClient"
    \/ At("deadline")
    \/ At("export") /\ kind = "otel"

Active(r) == handler[r] \in {"running", "recorded"}
Idle(rs) == \A r \in rs : ~Active(r)

-------------------------------------------------------------------------------
(* OTEL_METRIC_EXPORT_INTERVAL *)

\* The int64 that arithmetic without a check makes of the number n.
Wrapped(n) ==
    LET m == n % (2 * Overflow) IN IF m < Overflow THEN m ELSE m - 2 * Overflow

\* Mutant of metricExportInterval: zero is taken for an interval.
metricExportIntervalOrZero ==
    IF setting < 0 THEN DefaultInterval ELSE Wrapped(setting * Milli)

metricExportInterval ==
    IF setting <= 0 THEN DefaultInterval ELSE Wrapped(setting * Milli)

-------------------------------------------------------------------------------
(* The end of the process, and its next step. *)

\* Mutant of End: the requests outlive the process.
EndAlone(how) == status' = how /\ sampling' = "off" /\ UNCHANGED handler

\* What is still being handled is cut off.
End(how) ==
    /\ status' = how
    /\ sampling' = "off"
    /\ handler' = [r \in AllRequests |-> IF Active(r) THEN "cut" ELSE handler[r]]

Continue ==
    /\ pc' = pc + 1
    /\ UNCHANGED <<status, sampling, handler>>

\* The step is over; after the last, main returns.
Proceed ==
    IF pc < Len(Program[kind]) THEN Continue
    ELSE End("exited") /\ UNCHANGED pc

SamplerRest == <<usage, last, counter, depth, seen>>
Setup == <<kind, setting>>
Servers == <<srv, rpc>>
Metrics == <<recorded, batch, exported, provider>>
Signals == <<signals, done>>
Deadlines == <<expired, late>>

Init ==
    /\ SamplerInit
    /\ kind \in Kinds
    /\ setting \in (IF kind = "otel" THEN Settings ELSE {0})
    /\ pc = 1 /\ status = "running"
    /\ signals = 0 /\ done = FALSE
    /\ srv = "new" /\ rpc = FALSE
    /\ handler = [r \in AllRequests |-> "none"]
    /\ recorded = {} /\ batch = {} /\ exported = {}
    /\ provider = "none"
    /\ expired = FALSE /\ late = {}

-------------------------------------------------------------------------------
(* The steps of main. *)

\* signal.NotifyContext, signal.Notify, procstats.NewReader, the exporter and
\* its resource.
SetUp ==
    /\ At("notify") \/ At("reader") \/ At("exporter")
    /\ Proceed
    /\ UNCHANGED <<SamplerRest, Setup, Servers, Metrics, Signals, Deadlines>>

\* log.Fatalf, which no deferred call outlives; a test client returns.
SetUpFails ==
    /\ At("reader") \/ At("exporter") \/ At("serveRPC")
    /\ End(IF kind = "testClient" THEN "exited" ELSE "fatal")
    /\ UNCHANGED <<SamplerRest, Setup, pc, Servers, Metrics, Signals, Deadlines>>

\* startupJitter: rand.Int64N panics unless its argument is positive.
Jitter ==
    /\ At("jitter")
    /\ IF metricExportInterval <= 0 THEN End("panicked") /\ UNCHANGED pc ELSE Proceed
    /\ UNCHANGED <<SamplerRest, Setup, Servers, Metrics, Signals, Deadlines>>

NewMeterProvider ==
    /\ At("provider")
    /\ provider' = "up"
    /\ Proceed
    /\ UNCHANGED <<SamplerRest, Setup, Servers, recorded, batch, exported, Signals, Deadlines>>

Background ==
    /\ At("background")
    /\ StartSampler
    /\ pc' = pc + 1
    /\ UNCHANGED <<Setup, status, handler, Servers, Metrics, Signals, Deadlines>>

\* The goroutine of ListenAndServe starts.
Serve ==
    /\ At("serve")
    /\ srv' = "starting"
    /\ Proceed
    /\ UNCHANGED <<SamplerRest, Setup, rpc, Metrics, Signals, Deadlines>>

ServeRPC ==
    /\ At("serveRPC")
    /\ rpc' = TRUE
    /\ Proceed
    /\ UNCHANGED <<SamplerRest, Setup, srv, Metrics, Signals, Deadlines>>

\* The signal's context is done; srv.Shutdown closes the listener, or keeps
\* the goroutine that is still to listen from it.
WaitEnds ==
    /\ At("wait") /\ done
    /\ srv' = "closed"
    /\ expired' = FALSE
    /\ Proceed
    /\ UNCHANGED <<SamplerRest, Setup, rpc, Metrics, Signals, late>>

\* A test client's select takes the error of its server, and run returns: its
\* deferred function is next.
ListenError ==
    /\ kind = "testClient" /\ At("wait") /\ srv = "failed"
    /\ pc' = pc + 2
    /\ UNCHANGED <<SamplerRest, sampling, Setup, status, handler, Servers, Metrics,
                   Signals, Deadlines>>

\* No request is active.
ShutdownReturns ==
    /\ At("shutdown") /\ Idle(Requests)
    /\ Proceed
    /\ UNCHANGED <<SamplerRest, Setup, Servers, Metrics, Signals, Deadlines>>

\* The apps log that and go on, the receiver logs it with log.Fatal.
ShutdownTimesOut ==
    /\ At("shutdown") /\ expired
    /\ late' = late \cup {r \in Requests : Active(r)}
    /\ IF kind = "receiver" THEN End("fatal") /\ UNCHANGED pc ELSE Proceed
    /\ UNCHANGED <<SamplerRest, Setup, Servers, Metrics, Signals, expired>>

\* mp.Shutdown collects for the last time.
Flush ==
    /\ At("flush")
    /\ batch' = recorded
    /\ provider' = "down"
    /\ expired' = FALSE
    /\ Proceed
    /\ UNCHANGED <<SamplerRest, Setup, Servers, recorded, exported, Signals, late>>

\* It exports what it collected, or fails to; main returns either way.
FlushReturns ==
    /\ At("export")
    /\ exported' \in {exported} \cup (IF expired THEN {} ELSE {batch})
    /\ Proceed
    /\ UNCHANGED <<SamplerRest, Setup, Servers, recorded, batch, provider, Signals, Deadlines>>

\* The receiver waits for the context it gave Shutdown, and GracefulStop closes
\* its listener.
DeadlineEnds ==
    /\ At("deadline") /\ expired
    /\ rpc' = FALSE
    /\ Proceed
    /\ UNCHANGED <<SamplerRest, Setup, srv, Metrics, Signals, Deadlines>>

\* Mutant of GracefulReturns: Stop() in the place of GracefulStop().
GracefulReturnsAtOnce ==
    /\ At("graceful")
    /\ Proceed
    /\ UNCHANGED <<SamplerRest, Setup, Servers, Metrics, Signals, Deadlines>>

\* GracefulStop waits for the calls, without a limit.
GracefulReturns ==
    /\ At("graceful") /\ Idle(Calls)
    /\ Proceed
    /\ UNCHANGED <<SamplerRest, Setup, Servers, Metrics, Signals, Deadlines>>

MainStep ==
    \/ SetUp \/ SetUpFails \/ Jitter \/ NewMeterProvider \/ Background
    \/ Serve \/ ServeRPC \/ WaitEnds \/ ListenError
    \/ ShutdownReturns \/ ShutdownTimesOut \/ Flush \/ FlushReturns
    \/ DeadlineEnds \/ GracefulReturns

-------------------------------------------------------------------------------
(* Everything else. *)

\* Before it is asked for, and in a test client again after stop(), a signal
\* ends the process.
Signal ==
    /\ Running /\ signals < MaxSignals
    /\ signals' = signals + 1
    /\ IF ~Passed("notify") \/ (kind = "testClient" /\ srv = "closed")
       THEN End("killed") /\ UNCHANGED done
       ELSE done' = TRUE /\ UNCHANGED <<status, sampling, handler>>
    /\ UNCHANGED <<SamplerRest, Setup, pc, Servers, Metrics, Deadlines>>

\* A timeout of the context that the step was given.
Deadline ==
    /\ Limited
    /\ expired' = TRUE
    /\ UNCHANGED <<samplerVars, Setup, pc, status, handler, Servers, Metrics, Signals, late>>

Listens ==
    /\ Running /\ srv = "starting"
    /\ srv' = "listening"
    /\ UNCHANGED <<samplerVars, Setup, pc, status, handler, rpc, Metrics, Signals, Deadlines>>

\* The address is taken: log.Fatalf in the goroutine, or the channel srvErr.
ListenFails ==
    /\ Running /\ srv = "starting"
    /\ srv' = "failed"
    /\ IF kind = "testClient" THEN UNCHANGED <<status, sampling, handler>> ELSE End("fatal")
    /\ UNCHANGED <<SamplerRest, Setup, pc, rpc, Metrics, Signals, Deadlines>>

Arrive(r) ==
    /\ Running /\ handler[r] = "none"
    /\ IF r \in Calls THEN rpc ELSE srv = "listening"
    /\ handler' = [handler EXCEPT ![r] = "running"]
    /\ UNCHANGED <<samplerVars, Setup, pc, status, Servers, Metrics, Signals, Deadlines>>

\* Instruments of a provider that was shut down record nothing.
Record(r) ==
    /\ Running /\ handler[r] = "running"
    /\ handler' = [handler EXCEPT ![r] = "recorded"]
    /\ recorded' = IF kind \in {"uninstrumented", "testClient"} \/ provider = "down"
                   THEN recorded ELSE recorded \cup {r}
    /\ UNCHANGED <<samplerVars, Setup, pc, status, Servers, batch, exported, provider,
                   Signals, Deadlines>>

Answer(r) ==
    /\ Running /\ handler[r] = "recorded"
    /\ handler' = [handler EXCEPT ![r] = "answered"]
    /\ UNCHANGED <<samplerVars, Setup, pc, status, Servers, Metrics, Signals, Deadlines>>

\* The goroutine of a test client that adds to its counter every 5 s.
Add ==
    /\ Running /\ kind = "testClient" /\ Passed("serve") /\ provider = "up"
    /\ recorded' = recorded \cup {Tick}
    /\ UNCHANGED <<samplerVars, Setup, pc, status, handler, Servers, batch, exported,
                   provider, Signals, Deadlines>>

\* The periodic reader exports, the endpoint /metrics is scraped.
Export ==
    /\ Running
    /\ IF kind \in Pushers THEN provider = "up"
       ELSE kind \in {"prometheus", "receiver"} /\ srv = "listening"
    /\ exported' = recorded
    /\ UNCHANGED <<samplerVars, Setup, pc, status, handler, Servers, recorded, batch,
                   provider, Signals, Deadlines>>

\* The goroutine of simulateBackground, until it takes the end of the context.
Sample == Running /\ SamplerStep /\ UNCHANGED mainVars
SamplerEnds == Running /\ done /\ StopSampler /\ UNCHANGED mainVars

\* The process has ended.
Ended == ~Running /\ UNCHANGED vars

Next ==
    \/ MainStep \/ Signal \/ Deadline \/ Listens \/ ListenFails
    \/ \E r \in AllRequests : Arrive(r) \/ Record(r) \/ Answer(r)
    \/ Add \/ Export \/ Sample \/ SamplerEnds \/ Ended

\* Steps of main are taken once they can be and deadlines pass.  A handler of an
\* app may hang; one of the receiver's gRPC server, and of a test client, does
\* nothing that waits.
Prompt(r) == r \in Calls \/ kind = "testClient"

Fairness ==
    /\ WF_vars(MainStep) /\ WF_vars(Deadline)
    /\ \A r \in AllRequests : WF_vars(Prompt(r) /\ (Record(r) \/ Answer(r)))

Spec == Init /\ [][Next]_vars /\ Fairness

-------------------------------------------------------------------------------
(* Properties. *)

Progress == {"none", "running", "recorded", "answered", "cut"}

TypeOK ==
    /\ SamplerTypeOK
    /\ kind \in Kinds /\ pc \in 1..Len(Program[kind])
    /\ status \in {"running", "exited", "fatal", "killed", "panicked"}
    /\ handler \in [AllRequests -> Progress]
    /\ ~Running => Idle(AllRequests)
    /\ recorded \cup batch \cup exported \subseteq AllRequests \cup {Tick}
    /\ provider = "none" => batch = {}

\* A process that ends by returning from main cuts off only what was still being
\* handled when the deadline of srv.Shutdown passed.  Everything else it took it
\* has answered: also the calls the receiver's gRPC server goes on taking while
\* the HTTP server is shut down, and those taken while main waited for its
\* deadline.
OnlyLateAreCut ==
    status = "exited" => \A r \in AllRequests : handler[r] = "cut" => r \in late

\* What an instance of otel-app answered, it exported, when its flush succeeds:
\* the server stops before the provider collects for the last time, and a
\* response leaves after its metrics are recorded.  A handler that outlives
\* Shutdown (main.go logs the error and flushes) may miss the last collection,
\* no other one does.
Flushed == status = "exited" /\ exported = batch
AnsweredIsExported ==
    (kind = "otel" /\ Flushed) =>
        \A r \in Requests : handler[r] = "answered" => r \in exported \cup late

\* otel-app's jitter never panics for a setting whose nanoseconds fit an int64:
\* not for zero, negative or malformed ones (metricExportInterval).
StartPanicsOnlyOnOverflow ==
    status = "panicked" => setting * Milli >= Overflow

\* Every process stops after a signal: the apps whatever their handlers do,
\* the receiver when its calls return, a test client when its requests do.
StopsAfterSignal == (signals > 0) ~> ~Running
================================================================================
