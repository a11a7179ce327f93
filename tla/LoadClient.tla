------------------------------ MODULE LoadClient ------------------------------
(* cmd/client/main.go: the load generator.  Every worker runs tickLoop: on a *)
(* tick it picks one endpoint, starts one goroutine per target and waits for *)
(* all of them.  The goroutines count what they send and what fails in       *)
(* atomics and in Prometheus counters, while main sums the atomics host by   *)
(* host for the periodic status line and, after a signal, for the final one. *)
EXTENDS Integers, FiniteSets, Functions

CONSTANTS
    Workers,     \* CLIENT_WORKERS goroutines running tickLoop
    NumTargets,  \* length of CLIENT_TARGETS
    Hosts,       \* the results of hostOf
    HostOf,      \* hosts[i], the host of target i
    Malformed,   \* targets whose URL http.NewRequest refuses
    Endpoints,   \* the endpoints table
    NoEndpoint,  \* no endpoint picked yet
    MaxRounds,   \* bound: ticks one worker receives
    MaxReports   \* bound: status ticks main receives

Targets == 1 .. NumTargets

ASSUME WorkersAssumption == IsFiniteSet(Workers)
ASSUME TargetsAssumption == NumTargets \in Nat \ {0}
ASSUME HostsAssumption == HostOf \in [Targets -> Hosts] /\ IsFiniteSet(Hosts)
ASSUME MalformedAssumption == Malformed \subseteq Targets
ASSUME EndpointsAssumption == NoEndpoint \notin Endpoints
ASSUME BoundsAssumption == MaxRounds \in Nat /\ MaxReports \in Nat

VARIABLES
    ctx,           \* "alive", or "done" once a signal has cancelled it
    tick,          \* tick[w]: ticks waiting in w's ticker channel
    wpc,           \* wpc[w]: where worker w is in tickLoop
    next,          \* next[w]: next target w spawns a goroutine for
    ep,            \* ep[w]: endpoint of w's current round
    round,         \* round[w]: rounds w has started
    wg,            \* wg[w]: the WaitGroup's counter
    gpc,           \* gpc[w][t]: where w's goroutine for target t is
    sentEp,        \* sentEp[w][t]: endpoint of the request it built
    err,           \* err[w][t]: what client.Do returned
    sentAtomic, failedAtomic,   \* per target, behind the status line
    sentMetric, failedMetric,   \* per host, scraped by Prometheus
    mpc,           \* where main is
    idx,           \* the target logStatus reads
    report,        \* the report main is at: "periodic" or "final"
    acc,           \* byHost of the logStatus call under way
    totalSent,     \* its running grand total
    prevSent,      \* grand total of the previous status line
    reports        \* status ticks taken (bounded by MaxReports)

workerVars  == <<tick, wpc, next, ep, round>>
requestVars == <<gpc, sentEp, err>>
counterVars == <<sentAtomic, failedAtomic, sentMetric, failedMetric>>
mainVars    == <<mpc, idx, report, acc, totalSent, prevSent, reports>>
vars == <<ctx, workerVars, wg, requestVars, counterVars, mainVars>>

WorkerPC  == {"select", "spawn", "wait", "stopped"}
RequestPC == {"none", "start", "inflight", "addSent", "incSent",
              "addFailed", "incFailed", "body", "done"}
ErrValue  == {"none", "nil", "error"}
MainPC    == {"select", "readSent", "readFailed", "log", "exited"}

NoCounts == [h \in Hosts |-> [sent |-> 0, failed |-> 0]]

WorkerTypeOK ==
    /\ ctx \in {"alive", "done"}
    /\ tick \in [Workers -> 0 .. 1]
    /\ wpc \in [Workers -> WorkerPC]
    /\ next \in [Workers -> 1 .. NumTargets + 1]
    /\ ep \in [Workers -> Endpoints \cup {NoEndpoint}]
    /\ round \in [Workers -> Nat]
    /\ wg \in [Workers -> Nat]

RequestTypeOK ==
    /\ gpc \in [Workers -> [Targets -> RequestPC]]
    /\ sentEp \in [Workers -> [Targets -> Endpoints \cup {NoEndpoint}]]
    /\ err \in [Workers -> [Targets -> ErrValue]]

CounterTypeOK ==
    /\ sentAtomic \in [Targets -> Nat]
    /\ failedAtomic \in [Targets -> Nat]
    /\ sentMetric \in [Hosts -> Nat]
    /\ failedMetric \in [Hosts -> Nat]

MainTypeOK ==
    /\ mpc \in MainPC
    /\ idx \in 1 .. NumTargets + 1
    /\ report \in {"periodic", "final"}
    /\ acc \in [Hosts -> [sent : Nat, failed : Nat]]
    /\ totalSent \in Nat
    /\ prevSent \in Nat
    /\ reports \in Nat

TypeOK == WorkerTypeOK /\ RequestTypeOK /\ CounterTypeOK /\ MainTypeOK

Init ==
    /\ ctx = "alive"
    /\ tick = [w \in Workers |-> 0]
    /\ wpc = [w \in Workers |-> "select"]
    /\ next = [w \in Workers |-> NumTargets + 1]
    /\ ep = [w \in Workers |-> NoEndpoint]
    /\ round = [w \in Workers |-> 0]
    /\ wg = [w \in Workers |-> 0]
    /\ gpc = [w \in Workers |-> [t \in Targets |-> "none"]]
    /\ sentEp = [w \in Workers |-> [t \in Targets |-> NoEndpoint]]
    /\ err = [w \in Workers |-> [t \in Targets |-> "none"]]
    /\ sentAtomic = [t \in Targets |-> 0]
    /\ failedAtomic = [t \in Targets |-> 0]
    /\ sentMetric = [h \in Hosts |-> 0]
    /\ failedMetric = [h \in Hosts |-> 0]
    /\ mpc = "select"
    /\ idx = 1
    /\ report = "periodic"
    /\ acc = NoCounts
    /\ totalSent = 0
    /\ prevSent = 0
    /\ reports = 0

\* main returning ends the process, whatever the other goroutines are doing.
Running == mpc # "exited"

-------------------------------------------------------------------------------
(* The signal and the tickers. *)

Signal ==
    /\ Running
    /\ ctx = "alive"
    /\ ctx' = "done"
    /\ UNCHANGED <<workerVars, wg, requestVars, counterVars, mainVars>>

\* A ticker's channel holds one tick; a tick that finds it full is dropped.
Tick(w) ==
    /\ Running
    /\ round[w] < MaxRounds
    /\ tick[w] = 0
    /\ tick' = [tick EXCEPT ![w] = 1]
    /\ UNCHANGED <<ctx, wpc, next, ep, round, wg, requestVars,
                   counterVars, mainVars>>

-------------------------------------------------------------------------------
(* tickLoop. *)

WorkerStop(w) ==
    /\ Running
    /\ wpc[w] = "select" /\ ctx = "done"
    /\ wpc' = [wpc EXCEPT ![w] = "stopped"]
    /\ UNCHANGED <<ctx, tick, next, ep, round, wg, requestVars,
                   counterVars, mainVars>>

\* select takes any ready case: with a tick waiting, a round can start after
\* the context is done.
StartRound(w, e) ==
    /\ Running
    /\ wpc[w] = "select" /\ tick[w] = 1
    /\ tick' = [tick EXCEPT ![w] = 0]
    /\ wpc' = [wpc EXCEPT ![w] = "spawn"]
    /\ next' = [next EXCEPT ![w] = 1]
    /\ ep' = [ep EXCEPT ![w] = e]
    /\ round' = [round EXCEPT ![w] = @ + 1]
    /\ UNCHANGED <<ctx, wg, requestVars, counterVars, mainVars>>

\* Mutant of Spawn: no wg.Add.
SpawnWithoutAdd(w) ==
    /\ Running
    /\ wpc[w] = "spawn"
    /\ gpc' = [gpc EXCEPT ![w][next[w]] = "start"]
    /\ next' = [next EXCEPT ![w] = @ + 1]
    /\ wpc' = [wpc EXCEPT ![w] = IF next[w] = NumTargets THEN "wait" ELSE @]
    /\ UNCHANGED <<ctx, tick, ep, round, wg, sentEp, err, counterVars,
                   mainVars>>

\* wg.Add(1) and the go statement for one target; after the last, wg.Wait.
Spawn(w) ==
    /\ Running
    /\ wpc[w] = "spawn"
    /\ wg' = [wg EXCEPT ![w] = @ + 1]
    /\ gpc' = [gpc EXCEPT ![w][next[w]] = "start"]
    /\ next' = [next EXCEPT ![w] = @ + 1]
    /\ wpc' = [wpc EXCEPT ![w] = IF next[w] = NumTargets THEN "wait" ELSE @]
    /\ UNCHANGED <<ctx, tick, ep, round, sentEp, err, counterVars, mainVars>>

\* Mutant of WaitReturns: no wg.Wait.
WaitReturnsAtOnce(w) ==
    /\ Running
    /\ wpc[w] = "wait"
    /\ wpc' = [wpc EXCEPT ![w] = "select"]
    /\ UNCHANGED <<ctx, tick, next, ep, round, wg, requestVars,
                   counterVars, mainVars>>

WaitReturns(w) ==
    /\ Running
    /\ wpc[w] = "wait" /\ wg[w] = 0
    /\ wpc' = [wpc EXCEPT ![w] = "select"]
    /\ UNCHANGED <<ctx, tick, next, ep, round, wg, requestVars,
                   counterVars, mainVars>>

-------------------------------------------------------------------------------
(* The goroutine of one request. *)

Goto(w, t, from, to) ==
    /\ Running
    /\ gpc[w][t] = from
    /\ gpc' = [gpc EXCEPT ![w][t] = to]

\* Mutant of NewRequestFails: wg.Done not deferred, skipped by the early return.
NewRequestFailsWithoutDone(w, t) ==
    /\ Goto(w, t, "start", "none")
    /\ t \in Malformed
    /\ UNCHANGED <<ctx, workerVars, wg, sentEp, err, counterVars, mainVars>>

\* http.NewRequestWithContext fails: the goroutine returns and counts nothing.
NewRequestFails(w, t) ==
    /\ Goto(w, t, "start", "done")
    /\ t \in Malformed
    /\ UNCHANGED <<ctx, workerVars, wg, sentEp, err, counterVars, mainVars>>

SendRequest(w, t) ==
    /\ Goto(w, t, "start", "inflight")
    /\ t \notin Malformed
    /\ ctx = "alive"
    /\ sentEp' = [sentEp EXCEPT ![w][t] = ep[w]]
    /\ UNCHANGED <<ctx, workerVars, wg, err, counterVars, mainVars>>

\* Mutant of SendCancelled: the request is dropped without being counted.
SendCancelledUncounted(w, t) ==
    /\ Goto(w, t, "start", "done")
    /\ t \notin Malformed
    /\ ctx = "done"
    /\ UNCHANGED <<ctx, workerVars, wg, sentEp, err, counterVars, mainVars>>

\* client.Do on a context that is already done: an error, nothing is sent.
SendCancelled(w, t) ==
    /\ Goto(w, t, "start", "addSent")
    /\ t \notin Malformed
    /\ ctx = "done"
    /\ sentEp' = [sentEp EXCEPT ![w][t] = ep[w]]
    /\ err' = [err EXCEPT ![w][t] = "error"]
    /\ UNCHANGED <<ctx, workerVars, wg, counterVars, mainVars>>

\* Mutant of DoReturns: recordFailed called before recordSent.
DoReturnsFailedFirst(w, t, result) ==
    /\ Goto(w, t, "inflight", IF result = "error" THEN "addFailed" ELSE "addSent")
    /\ err' = [err EXCEPT ![w][t] = result]
    /\ UNCHANGED <<ctx, workerVars, wg, sentEp, counterVars, mainVars>>

\* A response, a transport error, the client's timeout or the cancelled context.
DoReturns(w, t, result) ==
    /\ Goto(w, t, "inflight", "addSent")
    /\ err' = [err EXCEPT ![w][t] = result]
    /\ UNCHANGED <<ctx, workerVars, wg, sentEp, counterVars, mainVars>>

AddSent(w, t) ==
    /\ Goto(w, t, "addSent", "incSent")
    /\ sentAtomic' = [sentAtomic EXCEPT ![t] = @ + 1]
    /\ UNCHANGED <<ctx, workerVars, wg, sentEp, err, failedAtomic,
                   sentMetric, failedMetric, mainVars>>

IncSent(w, t) ==
    /\ Goto(w, t, "incSent", IF err[w][t] = "error" THEN "addFailed" ELSE "body")
    /\ sentMetric' = [sentMetric EXCEPT ![HostOf[t]] = @ + 1]
    /\ UNCHANGED <<ctx, workerVars, wg, sentEp, err, sentAtomic,
                   failedAtomic, failedMetric, mainVars>>

AddFailed(w, t) ==
    /\ Goto(w, t, "addFailed", "incFailed")
    /\ failedAtomic' = [failedAtomic EXCEPT ![t] = @ + 1]
    /\ UNCHANGED <<ctx, workerVars, wg, sentEp, err, sentAtomic,
                   sentMetric, failedMetric, mainVars>>

\* Mutant of IncFailed: recordFailed bumps the wrong counter.
IncFailedAsSent(w, t) ==
    /\ Goto(w, t, "incFailed", "done")
    /\ sentMetric' = [sentMetric EXCEPT ![HostOf[t]] = @ + 1]
    /\ UNCHANGED <<ctx, workerVars, wg, sentEp, err, sentAtomic,
                   failedAtomic, failedMetric, mainVars>>

IncFailed(w, t) ==
    /\ Goto(w, t, "incFailed", "done")
    /\ failedMetric' = [failedMetric EXCEPT ![HostOf[t]] = @ + 1]
    /\ UNCHANGED <<ctx, workerVars, wg, sentEp, err, sentAtomic,
                   failedAtomic, sentMetric, mainVars>>

\* The body is read and closed; its errors are ignored.
DrainBody(w, t) ==
    /\ Goto(w, t, "body", "done")
    /\ UNCHANGED <<ctx, workerVars, wg, sentEp, err, counterVars, mainVars>>

\* The deferred wg.Done, on every path out of the goroutine.
WgDone(w, t) ==
    /\ Goto(w, t, "done", "none")
    /\ wg' = [wg EXCEPT ![w] = @ - 1]
    /\ sentEp' = [sentEp EXCEPT ![w][t] = NoEndpoint]
    /\ err' = [err EXCEPT ![w][t] = "none"]
    /\ UNCHANGED <<ctx, workerVars, counterVars, mainVars>>
-------------------------------------------------------------------------------
(* main: the status loop and logStatus. *)

StatusTick ==
    /\ Running
    /\ mpc = "select"
    /\ reports < MaxReports
    /\ reports' = reports + 1
    /\ mpc' = "readSent"
    /\ UNCHANGED <<ctx, workerVars, wg, requestVars, counterVars,
                   idx, report, acc, totalSent, prevSent>>

\* Mutant of BreakLoop: a break without its label leaves only the select.
BreakSelect ==
    /\ Running
    /\ mpc = "select" /\ ctx = "done"
    /\ UNCHANGED vars

\* break loop, then the final report, which waits for no worker.
BreakLoop ==
    /\ Running
    /\ mpc = "select" /\ ctx = "done"
    /\ report' = "final"
    /\ mpc' = "readSent"
    /\ UNCHANGED <<ctx, workerVars, wg, requestVars, counterVars,
                   idx, acc, totalSent, prevSent, reports>>

ReadSent ==
    /\ Running
    /\ mpc = "readSent"
    /\ acc' = [acc EXCEPT ![HostOf[idx]].sent = @ + sentAtomic[idx]]
    /\ totalSent' = totalSent + sentAtomic[idx]
    /\ mpc' = "readFailed"
    /\ UNCHANGED <<ctx, workerVars, wg, requestVars, counterVars,
                   idx, report, prevSent, reports>>

ReadFailed ==
    /\ Running
    /\ mpc = "readFailed"
    /\ acc' = [acc EXCEPT ![HostOf[idx]].failed = @ + failedAtomic[idx]]
    /\ idx' = idx + 1
    /\ mpc' = IF idx = NumTargets THEN "log" ELSE "readSent"
    /\ UNCHANGED <<ctx, workerVars, wg, requestVars, counterVars,
                   report, totalSent, prevSent, reports>>

\* Mutant of LogReport: byHost kept from one call to the next.
LogReportKeepsCounts ==
    /\ Running
    /\ mpc = "log"
    /\ mpc' = IF report = "final" THEN "exited" ELSE "select"
    /\ prevSent' = IF report = "final" THEN prevSent ELSE totalSent
    /\ idx' = 1
    /\ totalSent' = 0
    /\ UNCHANGED <<ctx, workerVars, wg, requestVars, counterVars,
                   report, acc, reports>>

\* The lines are logged; a periodic report then computes the rate since the
\* last one, the final report ends the process.
LogReport ==
    /\ Running
    /\ mpc = "log"
    /\ mpc' = IF report = "final" THEN "exited" ELSE "select"
    /\ prevSent' = IF report = "final" THEN prevSent ELSE totalSent
    /\ idx' = 1
    /\ acc' = NoCounts
    /\ totalSent' = 0
    /\ UNCHANGED <<ctx, workerVars, wg, requestVars, counterVars,
                   report, reports>>

\* log.Fatalf in the goroutine of the metrics server.
MetricsListenFails ==
    /\ Running
    /\ mpc' = "exited"
    /\ UNCHANGED <<ctx, workerVars, wg, requestVars, counterVars,
                   idx, report, acc, totalSent, prevSent, reports>>

Exited == ~Running /\ UNCHANGED vars

-------------------------------------------------------------------------------

RequestStep(w, t) ==
    \/ NewRequestFails(w, t)
    \/ SendRequest(w, t)
    \/ SendCancelled(w, t)
    \/ \E result \in {"nil", "error"} : DoReturns(w, t, result)
    \/ AddSent(w, t)
    \/ IncSent(w, t)
    \/ AddFailed(w, t)
    \/ IncFailed(w, t)
    \/ DrainBody(w, t)
    \/ WgDone(w, t)

WorkerStep(w) ==
    \/ \E e \in Endpoints : StartRound(w, e)
    \/ Spawn(w)
    \/ WaitReturns(w)

MainStep ==
    \/ StatusTick
    \/ ReadSent
    \/ ReadFailed
    \/ LogReport

Next ==
    \/ Signal
    \/ \E w \in Workers : Tick(w)
    \/ \E w \in Workers : WorkerStep(w) \/ WorkerStop(w)
    \/ \E w \in Workers, t \in Targets : RequestStep(w, t)
    \/ MainStep
    \/ BreakLoop
    \/ MetricsListenFails
    \/ Exited

Spec == Init /\ [][Next]_vars

\* The scheduler runs every goroutine that can run, and client.Do returns
\* within the client's timeout.  A select with several ready cases picks one
\* at random, so a case that is ready again and again is taken: strong
\* fairness for the two receives from ctx.Done.
Fairness ==
    /\ \A w \in Workers : WF_vars(WorkerStep(w)) /\ SF_vars(WorkerStop(w))
    /\ \A w \in Workers, t \in Targets : WF_vars(RequestStep(w, t))
    /\ WF_vars(MainStep)
    /\ SF_vars(BreakLoop)

FairSpec == Spec /\ Fairness

-------------------------------------------------------------------------------
(* Properties. *)

Live(w, t) == gpc[w][t] # "none"

\* tickLoop's promise of lockstep: a worker that is about to start a round has
\* no request of an earlier round left, and the requests of one round carry
\* the round's endpoint.
Lockstep ==
    \A w \in Workers, t \in Targets :
        /\ wpc[w] \in {"select", "stopped"} => ~Live(w, t)
        /\ sentEp[w][t] \in {NoEndpoint, ep[w]}

\* No target is offered more than one round per worker more than any other,
\* however slow it is: the counters the two stacks are compared on stay level.
LoadParity ==
    \A t, u \in Targets \ Malformed :
        sentAtomic[t] - sentAtomic[u] <= Cardinality(Workers)

\* A failure is counted only for a request already counted as sent, in the
\* atomics and in the scraped counters.
FailedWithinSent ==
    /\ \A t \in Targets : failedAtomic[t] <= sentAtomic[t]
    /\ \A h \in Hosts : failedMetric[h] <= sentMetric[h]

\* Requests to host h whose goroutine is at one of the pcs P.
At(h, P) == {wt \in Workers \X Targets :
                HostOf[wt[2]] = h /\ gpc[wt[1]][wt[2]] \in P}

AtomicsOf(h, counts) ==
    SumFunctionOnSet(counts, {t \in Targets : HostOf[t] = h})

\* A scraped counter of a host lags the atomics of its targets by exactly the
\* requests between the two increments, and agrees with them at rest.
MetricsTrackAtomics ==
    \A h \in Hosts :
        /\ sentMetric[h] + Cardinality(At(h, {"incSent"}))
             = AtomicsOf(h, sentAtomic)
        /\ failedMetric[h] + Cardinality(At(h, {"incFailed"}))
             = AtomicsOf(h, failedAtomic)

\* Every round started is counted once per target it could be sent to, except
\* for the requests that have not come back yet.
RoundsCounted ==
    \A t \in Targets \ Malformed :
        sentAtomic[t] + Cardinality({w \in Workers :
              \/ wpc[w] = "spawn" /\ next[w] <= t
              \/ gpc[w][t] \in {"start", "inflight", "addSent"}})
          = SumFunctionOnSet(round, Workers)

\* The status line read while requests are being counted: its total is never
\* below the previous one, so the logged rate is never negative, and no host
\* is reported to have received or failed more than has been counted for it.
ReportWithinCounts ==
    mpc = "log" =>
        /\ totalSent >= prevSent
        /\ \A h \in Hosts : /\ acc[h].sent <= AtomicsOf(h, sentAtomic)
                            /\ acc[h].failed <= AtomicsOf(h, failedAtomic)

\* The rounds of tickLoop implement LockstepRounds: a target is served when
\* its goroutine has been spawned and has called wg.Done.
Rounds == INSTANCE LockstepRounds WITH
    shape <- ep,
    served <- [w \in Workers |-> {t \in Targets : t < next[w] /\ ~Live(w, t)}]

ImplementsLockstepRounds == Rounds!Spec

\* Every round ends: the worker comes back to its select, or the process ends.
RoundsComplete ==
    \A w \in Workers : wpc[w] = "wait" ~> (wpc[w] = "select" \/ ~Running)

\* After a signal the process ends, and by way of the final report unless the
\* metrics server brought it down.
SignalExits == ctx = "done" ~> ~Running
===============================================================================
