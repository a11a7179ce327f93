--------------------------- MODULE LoadClientProofs ---------------------------
(* Theorems about LoadClient, for any number of workers, targets and hosts.  *)
EXTENDS LoadClient, SumTheorems

\* The goroutines of worker w that have not called wg.Done.
LiveSet(w) == {t \in Targets : Live(w, t)}

\* Requests to target t counted as sent in the atomics, whose failure is known
\* but not counted yet.
Owing(t) == {w \in Workers : \/ gpc[w][t] = "addFailed"
                             \/ gpc[w][t] = "incSent" /\ err[w][t] = "error"}

\* The same for the scraped counters of host h.
OwingHost(h) == At(h, {"addFailed", "incFailed"})

\* Where main is in logStatus.
MainInv ==
    /\ mpc = "select" => idx = 1
    /\ mpc \in {"readSent", "readFailed"} => idx \in Targets

\* Where a worker is in its round, and which goroutines exist there.
RoundInv == \A w \in Workers :
    /\ wpc[w] = "spawn" => next[w] \in Targets
    /\ wpc[w] # "spawn" => next[w] = NumTargets + 1
    /\ wpc[w] \in {"select", "stopped"} => \A t \in Targets : ~Live(w, t)
    /\ \A t \in Targets : next[w] <= t => ~Live(w, t)

\* The WaitGroup counts the live goroutines.
WaitGroupInv == \A w \in Workers : wg[w] = Cardinality(LiveSet(w))

\* A request carries its round's endpoint; a finished one carries none.
EndpointInv == \A w \in Workers, t \in Targets :
    /\ sentEp[w][t] \in {NoEndpoint, ep[w]}
    /\ gpc[w][t] = "none" => sentEp[w][t] = NoEndpoint

\* A known failure is owed to a counter that already counts the request.
OwedInv ==
    /\ \A t \in Targets :
          failedAtomic[t] + Cardinality(Owing(t)) <= sentAtomic[t]
    /\ \A h \in Hosts :
          failedMetric[h] + Cardinality(OwingHost(h)) <= sentMetric[h]

\* The state of the rounds: what Lockstep and the refinement rest on.
RoundsInv == TypeOK /\ MainInv /\ RoundInv /\ WaitGroupInv /\ EndpointInv

-------------------------------------------------------------------------------

\* Adding or removing one element changes a finite cardinality by one.
LEMMA CardinalityByOne ==
    ASSUME NEW S, IsFiniteSet(S)
    PROVE  /\ Cardinality(S) \in Nat
           /\ \A x : x \notin S => Cardinality(S \cup {x}) = Cardinality(S) + 1
           /\ \A x \in S : Cardinality(S \ {x}) = Cardinality(S) - 1
BY FS_CardinalityType, FS_AddElement, FS_RemoveElement

\* A set that gains at most one element gains at most one in cardinality.
LEMMA AtMostOneMore ==
    ASSUME NEW S, IsFiniteSet(S), NEW T, NEW x, T = S \/ T = S \cup {x}
    PROVE  Cardinality(T) \in Nat /\ Cardinality(T) <= Cardinality(S) + 1
<1>1. Cardinality(S) \in Nat
  BY FS_CardinalityType
<1>2. CASE T = S
  BY <1>1, <1>2
<1>3. CASE T = S \cup {x}
  BY <1>1, <1>3, FS_AddElement
<1>. QED
  BY <1>2, <1>3

\* The sets the invariants count are finite.
LEMMA CountedSetsFinite ==
    /\ \A w \in Workers : IsFiniteSet(LiveSet(w))
    /\ \A t \in Targets : IsFiniteSet(Owing(t))
    /\ \A h \in Hosts : IsFiniteSet(OwingHost(h))
<1>1. IsFiniteSet(Targets)
  BY FS_Interval, TargetsAssumption DEF Targets
<1>2. IsFiniteSet(Workers \X Targets)
  BY <1>1, FS_Product, WorkersAssumption
<1>3. \A w \in Workers : LiveSet(w) \subseteq Targets
  BY DEF LiveSet
<1>4. \A t \in Targets : Owing(t) \subseteq Workers
  BY DEF Owing
<1>5. \A h \in Hosts : OwingHost(h) \subseteq Workers \X Targets
  BY DEF OwingHost, At
<1>. QED
  BY <1>1, <1>2, <1>3, <1>4, <1>5, FS_Subset, WorkersAssumption

\* Initially no goroutine runs and nothing is counted.
LEMMA RoundsInit == Init => RoundsInv
<1>. SUFFICES ASSUME Init PROVE RoundsInv
  OBVIOUS
<1>1. WorkerTypeOK
  BY TargetsAssumption DEF Init, WorkerTypeOK, WorkerPC
<1>2. RequestTypeOK
  BY DEF Init, RequestTypeOK, RequestPC, ErrValue
<1>3. CounterTypeOK
  BY DEF Init, CounterTypeOK
<1>4. MainTypeOK
  BY TargetsAssumption DEF Init, MainTypeOK, MainPC, NoCounts
<1>5. MainInv
  BY DEF Init, MainInv
<1>6. RoundInv
  BY TargetsAssumption DEF Init, RoundInv, Live
<1>7. EndpointInv
  BY DEF Init, EndpointInv
<1>8. WaitGroupInv
  <2>1. \A w \in Workers : LiveSet(w) = {}
    BY DEF Init, LiveSet, Live
  <2>. QED
    BY <2>1, FS_EmptySet DEF Init, WaitGroupInv
<1>. QED
  BY <1>1, <1>2, <1>3, <1>4, <1>5, <1>6, <1>7, <1>8 DEF RoundsInv, TypeOK

-------------------------------------------------------------------------------

\* A step that moves one goroutine from one live pc to another leaves the round
\* as it is; the goroutine may set its endpoint to the round's.
LEMMA LiveToLive ==
    ASSUME RoundsInv, NEW w \in Workers, NEW t \in Targets,
           NEW to \in RequestPC \ {"none"},
           Live(w, t),
           gpc' = [gpc EXCEPT ![w][t] = to],
           \/ sentEp' = sentEp
           \/ sentEp' = [sentEp EXCEPT ![w][t] = ep[w]],
           UNCHANGED <<ctx, workerVars, wg, mainVars>>
    PROVE  /\ WorkerTypeOK' /\ MainTypeOK'
           /\ gpc' \in [Workers -> [Targets -> RequestPC]]
           /\ sentEp' \in [Workers -> [Targets -> Endpoints \cup {NoEndpoint}]]
           /\ MainInv' /\ RoundInv' /\ WaitGroupInv' /\ EndpointInv'
<1>. USE DEF RoundsInv, TypeOK
<1>1. WorkerTypeOK' /\ MainTypeOK'
  BY DEF WorkerTypeOK, MainTypeOK, workerVars, mainVars
<1>2. gpc' \in [Workers -> [Targets -> RequestPC]]
  BY DEF RequestTypeOK
<1>3. sentEp' \in [Workers -> [Targets -> Endpoints \cup {NoEndpoint}]]
  <2>1. ep[w] \in Endpoints \cup {NoEndpoint}
    BY DEF WorkerTypeOK
  <2>2. sentEp \in [Workers -> [Targets -> Endpoints \cup {NoEndpoint}]]
    BY DEF RequestTypeOK
  <2>3. CASE sentEp' = sentEp
    BY <2>2, <2>3
  <2>4. CASE sentEp' = [sentEp EXCEPT ![w][t] = ep[w]]
    BY <2>1, <2>2, <2>4
  <2>. QED
    BY <2>3, <2>4
<1>4. \A v \in Workers, u \in Targets : Live(v, u)' <=> Live(v, u)
  BY DEF RequestTypeOK, Live
<1>5. MainInv'
  BY DEF MainInv, mainVars
<1>6. RoundInv'
  BY <1>4 DEF RoundInv, workerVars
<1>7. WaitGroupInv'
  <2>1. \A v \in Workers : LiveSet(v)' = LiveSet(v)
    BY <1>4 DEF LiveSet
  <2>. QED
    BY <2>1 DEF WaitGroupInv
<1>8. EndpointInv'
  <2>1. \A v \in Workers, u \in Targets :
            gpc'[v][u] = "none" => gpc[v][u] = "none" /\ <<v, u>> # <<w, t>>
    BY DEF RequestTypeOK
  <2>2. \A v \in Workers, u \in Targets :
            \/ sentEp'[v][u] = sentEp[v][u]
            \/ <<v, u>> = <<w, t>> /\ sentEp'[v][u] = ep[v]
    BY DEF RequestTypeOK
  <2>. QED
    BY <2>1, <2>2 DEF EndpointInv, workerVars
<1>. QED
  BY <1>1, <1>2, <1>3, <1>5, <1>6, <1>7, <1>8

\* Every step of a request's goroutine keeps the invariant of the rounds.
LEMMA RequestKeepsRounds ==
    ASSUME RoundsInv, NEW w \in Workers, NEW t \in Targets, RequestStep(w, t)
    PROVE  RoundsInv'
<1>. USE DEF RoundsInv, TypeOK
<1>h. \A u \in Targets : HostOf[u] \in Hosts
  BY HostsAssumption
<1>1. CASE NewRequestFails(w, t)
  <2>1. CounterTypeOK' /\ err' \in [Workers -> [Targets -> ErrValue]]
    BY <1>1 DEF NewRequestFails, CounterTypeOK, RequestTypeOK, counterVars
  <2>. QED
    BY <1>1, <2>1, LiveToLive DEF NewRequestFails, Goto, Live, RequestPC, RequestTypeOK
<1>2. CASE SendRequest(w, t)
  <2>1. CounterTypeOK' /\ err' \in [Workers -> [Targets -> ErrValue]]
    BY <1>2 DEF SendRequest, CounterTypeOK, RequestTypeOK, counterVars
  <2>. QED
    BY <1>2, <2>1, LiveToLive DEF SendRequest, Goto, Live, RequestPC, RequestTypeOK
<1>3. CASE SendCancelled(w, t)
  <2>1. CounterTypeOK' /\ err' \in [Workers -> [Targets -> ErrValue]]
    BY <1>3 DEF SendCancelled, CounterTypeOK, RequestTypeOK, counterVars, ErrValue
  <2>. QED
    BY <1>3, <2>1, LiveToLive DEF SendCancelled, Goto, Live, RequestPC, RequestTypeOK
<1>4. CASE \E result \in {"nil", "error"} : DoReturns(w, t, result)
  <2>1. PICK result \in {"nil", "error"} : DoReturns(w, t, result)
    BY <1>4
  <2>2. CounterTypeOK' /\ err' \in [Workers -> [Targets -> ErrValue]]
    BY <2>1 DEF DoReturns, CounterTypeOK, RequestTypeOK, counterVars, ErrValue
  <2>. QED
    BY <2>1, <2>2, LiveToLive DEF DoReturns, Goto, Live, RequestPC, RequestTypeOK
<1>5. CASE AddSent(w, t)
  <2>1. CounterTypeOK' /\ err' \in [Workers -> [Targets -> ErrValue]]
    BY <1>5 DEF AddSent, CounterTypeOK, RequestTypeOK
  <2>. QED
    BY <1>5, <2>1, LiveToLive DEF AddSent, Goto, Live, RequestPC, RequestTypeOK
<1>6. CASE IncSent(w, t)
  <2>1. CounterTypeOK' /\ err' \in [Workers -> [Targets -> ErrValue]]
    BY <1>6, <1>h DEF IncSent, CounterTypeOK, RequestTypeOK
  <2>. QED
    BY <1>6, <2>1, LiveToLive DEF IncSent, Goto, Live, RequestPC, RequestTypeOK
<1>7. CASE AddFailed(w, t)
  <2>1. CounterTypeOK' /\ err' \in [Workers -> [Targets -> ErrValue]]
    BY <1>7 DEF AddFailed, CounterTypeOK, RequestTypeOK
  <2>. QED
    BY <1>7, <2>1, LiveToLive DEF AddFailed, Goto, Live, RequestPC, RequestTypeOK
<1>8. CASE IncFailed(w, t)
  <2>1. CounterTypeOK' /\ err' \in [Workers -> [Targets -> ErrValue]]
    BY <1>8, <1>h DEF IncFailed, CounterTypeOK, RequestTypeOK
  <2>. QED
    BY <1>8, <2>1, LiveToLive DEF IncFailed, Goto, Live, RequestPC, RequestTypeOK
<1>9. CASE DrainBody(w, t)
  <2>1. CounterTypeOK' /\ err' \in [Workers -> [Targets -> ErrValue]]
    BY <1>9 DEF DrainBody, CounterTypeOK, RequestTypeOK, counterVars
  <2>. QED
    BY <1>9, <2>1, LiveToLive DEF DrainBody, Goto, Live, RequestPC, RequestTypeOK
<1>10. CASE WgDone(w, t)
  <2>. USE <1>10 DEF WgDone, Goto
  <2>1. RequestTypeOK' /\ CounterTypeOK' /\ MainTypeOK'
    BY DEF RequestTypeOK, CounterTypeOK, MainTypeOK, RequestPC, ErrValue,
           counterVars, mainVars
  <2>2. \A v \in Workers, u \in Targets :
           Live(v, u)' <=> (Live(v, u) /\ <<v, u>> # <<w, t>>)
    BY DEF RequestTypeOK, Live
  <2>3. MainInv' /\ RoundInv'
    BY <2>2 DEF MainInv, RoundInv, mainVars, workerVars
  <2>4. WaitGroupInv' /\ wg' \in [Workers -> Nat]
    <3>1. t \in LiveSet(w) /\ LiveSet(w)' = LiveSet(w) \ {t}
      BY <2>2 DEF LiveSet, Live
    <3>2. \A v \in Workers : v # w => LiveSet(v)' = LiveSet(v)
      BY <2>2 DEF LiveSet
    <3>3. Cardinality(LiveSet(w)') = Cardinality(LiveSet(w)) - 1
      BY <3>1, CountedSetsFinite, CardinalityByOne
    <3>4. \A v \in Workers : wg'[v] = Cardinality(LiveSet(v)')
      BY <3>2, <3>3 DEF WaitGroupInv, WorkerTypeOK
    <3>5. \A v \in Workers : Cardinality(LiveSet(v)') \in Nat
      <4>1. \A v \in Workers : IsFiniteSet(LiveSet(v)')
        BY <3>1, <3>2, CountedSetsFinite, FS_RemoveElement
      <4>. QED
        BY <4>1, FS_CardinalityType
    <3>. QED
      BY <3>4, <3>5 DEF WaitGroupInv, WorkerTypeOK
  <2>5. WorkerTypeOK'
    BY <2>4 DEF WorkerTypeOK, workerVars
  <2>6. EndpointInv'
    BY DEF EndpointInv, RequestTypeOK, workerVars
  <2>. QED
    BY <2>1, <2>3, <2>4, <2>5, <2>6
<1>. QED
  BY <1>1, <1>2, <1>3, <1>4, <1>5, <1>6, <1>7, <1>8, <1>9, <1>10
  DEF RequestStep

\* A step of main leaves the rounds alone.
LEMMA MainKeepsRounds ==
    ASSUME RoundsInv, MainStep \/ BreakLoop \/ MetricsListenFails
    PROVE  RoundsInv'
<1>. USE DEF RoundsInv, TypeOK
<1>u. UNCHANGED <<ctx, workerVars, wg, requestVars, counterVars>>
  BY DEF MainStep, BreakLoop, MetricsListenFails, StatusTick, ReadSent,
         ReadFailed, LogReport
<1>1. WorkerTypeOK' /\ RequestTypeOK' /\ CounterTypeOK'
  BY <1>u DEF WorkerTypeOK, RequestTypeOK, CounterTypeOK, workerVars,
              requestVars, counterVars
<1>2. RoundInv' /\ EndpointInv'
  BY <1>u DEF RoundInv, EndpointInv, Live, workerVars, requestVars
<1>3. WaitGroupInv'
  <2>1. \A v \in Workers : LiveSet(v)' = LiveSet(v)
    BY <1>u DEF LiveSet, Live, requestVars
  <2>. QED
    BY <1>u, <2>1 DEF WaitGroupInv
<1>4. MainTypeOK' /\ MainInv'
  <2>. USE TargetsAssumption DEF MainTypeOK, MainInv, MainPC
  <2>1. CASE StatusTick
    BY <2>1 DEF StatusTick, Targets
  <2>2. CASE BreakLoop
    BY <2>2 DEF BreakLoop, Targets
  <2>3. CASE ReadSent
    <3>1. idx \in Targets /\ HostOf[idx] \in Hosts /\ sentAtomic[idx] \in Nat
      BY <2>3, HostsAssumption DEF ReadSent, CounterTypeOK
    <3>2. acc' \in [Hosts -> [sent : Nat, failed : Nat]] /\ totalSent' \in Nat
      BY <2>3, <3>1 DEF ReadSent
    <3>. QED
      BY <2>3, <3>1, <3>2 DEF ReadSent
  <2>4. CASE ReadFailed
    <3>1. idx \in Targets /\ HostOf[idx] \in Hosts /\ failedAtomic[idx] \in Nat
      BY <2>4, HostsAssumption DEF ReadFailed, CounterTypeOK
    <3>2. acc' \in [Hosts -> [sent : Nat, failed : Nat]]
      BY <2>4, <3>1 DEF ReadFailed
    <3>. QED
      BY <2>4, <3>1, <3>2 DEF ReadFailed, Targets
  <2>5. CASE LogReport
    BY <2>5 DEF LogReport, NoCounts
  <2>6. CASE MetricsListenFails
    BY <2>6 DEF MetricsListenFails
  <2>. QED
    BY <2>1, <2>2, <2>3, <2>4, <2>5, <2>6 DEF MainStep
<1>. QED
  BY <1>1, <1>2, <1>3, <1>4

\* A step of tickLoop, of its ticker or of the signal keeps the invariant.
LEMMA WorkerKeepsRounds ==
    ASSUME RoundsInv, NEW w \in Workers,
           Signal \/ Tick(w) \/ WorkerStop(w) \/ WorkerStep(w)
    PROVE  RoundsInv'
<1>. USE DEF RoundsInv, TypeOK
<1>u. UNCHANGED <<counterVars, mainVars>>
  BY DEF Signal, Tick, WorkerStop, WorkerStep, StartRound, Spawn, WaitReturns
<1>1. CounterTypeOK' /\ MainTypeOK' /\ MainInv'
  BY <1>u DEF CounterTypeOK, MainTypeOK, MainInv, counterVars, mainVars
<1>2. ASSUME Signal \/ Tick(w) \/ WorkerStop(w) \/ WaitReturns(w)
      PROVE  RoundsInv'
  <2>u. UNCHANGED <<wg, requestVars, next, ep, round>>
    BY <1>2 DEF Signal, Tick, WorkerStop, WaitReturns, workerVars
  <2>1. WaitGroupInv'
    <3>1. \A v \in Workers : LiveSet(v)' = LiveSet(v)
      BY <2>u DEF LiveSet, Live, requestVars
    <3>. QED
      BY <2>u, <3>1 DEF WaitGroupInv
  <2>2. RequestTypeOK' /\ EndpointInv'
    BY <2>u DEF RequestTypeOK, EndpointInv, requestVars
  <2>3. WorkerTypeOK'
    BY <1>2, <2>u DEF WorkerTypeOK, WorkerPC, Signal, Tick, WorkerStop,
                      WaitReturns, workerVars
  <2>4. RoundInv'
    <3>1. CASE Signal \/ Tick(w)
      BY <2>u, <3>1 DEF RoundInv, Live, Signal, Tick, workerVars, requestVars
    <3>2. CASE WorkerStop(w)
      BY <2>u, <3>2 DEF RoundInv, Live, WorkerTypeOK, WorkerStop, requestVars
    <3>3. CASE WaitReturns(w)
      <4>1. LiveSet(w) = {}
        BY <3>3, CountedSetsFinite, FS_EmptySet DEF WaitReturns, WaitGroupInv
      <4>2. \A t \in Targets : ~Live(w, t)
        BY <4>1 DEF LiveSet
      <4>. QED
        BY <2>u, <3>3, <4>2
        DEF RoundInv, Live, WorkerTypeOK, WaitReturns, requestVars
    <3>. QED
      BY <1>2, <3>1, <3>2, <3>3
  <2>. QED
    BY <1>1, <2>1, <2>2, <2>3, <2>4
<1>3. ASSUME NEW e \in Endpoints, StartRound(w, e)
      PROVE  RoundsInv'
  <2>. USE <1>3, TargetsAssumption DEF StartRound
  <2>1. WorkerTypeOK' /\ RequestTypeOK'
    BY DEF WorkerTypeOK, WorkerPC, RequestTypeOK, requestVars
  <2>2. RoundInv'
    BY DEF RoundInv, Live, WorkerTypeOK, Targets, requestVars
  <2>3. WaitGroupInv'
    <3>1. \A v \in Workers : LiveSet(v)' = LiveSet(v)
      BY DEF LiveSet, Live, requestVars
    <3>. QED
      BY <3>1 DEF WaitGroupInv
  <2>4. EndpointInv'
    BY DEF EndpointInv, RoundInv, Live, WorkerTypeOK, requestVars
  <2>. QED
    BY <1>1, <2>1, <2>2, <2>3, <2>4
<1>4. CASE Spawn(w)
  <2>. USE <1>4, TargetsAssumption DEF Spawn
  <2>1. next[w] \in Targets /\ ~Live(w, next[w])
    BY DEF RoundInv, WorkerTypeOK, Targets
  <2>2. RequestTypeOK'
    BY <2>1 DEF RequestTypeOK, RequestPC
  <2>3. \A v \in Workers, u \in Targets :
           Live(v, u)' <=> (Live(v, u) \/ <<v, u>> = <<w, next[w]>>)
    BY <2>1 DEF RequestTypeOK, Live
  <2>4. WorkerTypeOK'
    BY <2>1 DEF WorkerTypeOK, WorkerPC, Targets
  <2>5. RoundInv'
    BY <2>1, <2>3 DEF RoundInv, WorkerTypeOK, Targets
  <2>6. WaitGroupInv'
    <3>1. /\ next[w] \notin LiveSet(w)
          /\ LiveSet(w)' = LiveSet(w) \cup {next[w]}
      BY <2>1, <2>3 DEF LiveSet
    <3>2. \A v \in Workers : v # w => LiveSet(v)' = LiveSet(v)
      BY <2>3 DEF LiveSet
    <3>3. Cardinality(LiveSet(w)') = Cardinality(LiveSet(w)) + 1
      BY <3>1, CountedSetsFinite, CardinalityByOne
    <3>. QED
      BY <3>2, <3>3 DEF WaitGroupInv, WorkerTypeOK
  <2>7. EndpointInv'
    BY <2>1 DEF EndpointInv, RequestTypeOK
  <2>. QED
    BY <1>1, <2>2, <2>4, <2>5, <2>6, <2>7
<1>. QED
  BY <1>2, <1>3, <1>4 DEF WorkerStep

\* The invariant of the rounds is inductive.
LEMMA RoundsStep == RoundsInv /\ [Next]_vars => RoundsInv'
<1>. SUFFICES ASSUME RoundsInv, [Next]_vars PROVE RoundsInv'
  OBVIOUS
<1>1. CASE UNCHANGED vars
  <2>1. \A v \in Workers : LiveSet(v)' = LiveSet(v)
    BY <1>1 DEF LiveSet, Live, vars, requestVars
  <2>. QED
    BY <1>1, <2>1
    DEF RoundsInv, TypeOK, WorkerTypeOK, RequestTypeOK, CounterTypeOK,
        MainTypeOK, MainInv, RoundInv, WaitGroupInv, EndpointInv, Live, vars,
        workerVars, requestVars, counterVars, mainVars
<1>2. CASE Signal
  <2>1. CASE Workers = {}
    BY <1>2, <2>1
    DEF RoundsInv, TypeOK, WorkerTypeOK, RequestTypeOK, CounterTypeOK,
        MainTypeOK, MainInv, RoundInv, WaitGroupInv, EndpointInv, Signal,
        workerVars, requestVars, counterVars, mainVars
  <2>. QED
    BY <1>2, <2>1, WorkerKeepsRounds
<1>3. CASE \E w \in Workers : Tick(w) \/ WorkerStep(w) \/ WorkerStop(w)
  BY <1>3, WorkerKeepsRounds
<1>4. CASE \E w \in Workers, t \in Targets : RequestStep(w, t)
  BY <1>4, RequestKeepsRounds
<1>5. CASE MainStep \/ BreakLoop \/ MetricsListenFails
  BY <1>5, MainKeepsRounds
<1>. QED
  BY <1>1, <1>2, <1>3, <1>4, <1>5 DEF Next, Exited

\* It holds in every reachable state.
LEMMA RoundsAlways == Spec => []RoundsInv
BY RoundsInit, RoundsStep, PTL DEF Spec

\* Type correctness; in particular no WaitGroup counter ever goes negative.
THEOREM TypeCorrect == Spec => []TypeOK
<1>1. RoundsInv => TypeOK
  BY DEF RoundsInv
<1>. QED
  BY <1>1, RoundsAlways, PTL

\* tickLoop keeps its targets in lockstep, whatever the number of workers and
\* targets and however long a request takes.
THEOREM LockstepHolds == Spec => []Lockstep
<1>1. RoundsInv => Lockstep
  BY DEF RoundsInv, RoundInv, EndpointInv, Lockstep
<1>. QED
  BY <1>1, RoundsAlways, PTL

-------------------------------------------------------------------------------

\* A step that touches no counter and moves no request in or out of the counted
\* sets keeps the debts covered.
LEMMA OwedKept ==
    ASSUME OwedInv, UNCHANGED counterVars,
           \A t \in Targets : Owing(t)' = Owing(t),
           \A h \in Hosts : OwingHost(h)' = OwingHost(h)
    PROVE  OwedInv'
BY DEF OwedInv, counterVars

\* A step of a request's goroutine keeps them covered: the failure is owed from
\* the moment the request is counted as sent until it is counted as failed.
LEMMA RequestKeepsOwed ==
    ASSUME RoundsInv, OwedInv, NEW w \in Workers, NEW t \in Targets,
           RequestStep(w, t)
    PROVE  OwedInv'
<1>. USE DEF RoundsInv, TypeOK, RequestTypeOK, CounterTypeOK
<1>f. /\ \A u \in Targets : IsFiniteSet(Owing(u)) /\ Cardinality(Owing(u)) \in Nat
      /\ \A h \in Hosts : IsFiniteSet(OwingHost(h)) /\ Cardinality(OwingHost(h)) \in Nat
      /\ HostOf[t] \in Hosts
  BY CountedSetsFinite, FS_CardinalityType, HostsAssumption
<1>1. ASSUME \/ NewRequestFails(w, t) \/ SendRequest(w, t) \/ SendCancelled(w, t)
             \/ \E result \in {"nil", "error"} : DoReturns(w, t, result)
             \/ DrainBody(w, t) \/ WgDone(w, t)
      PROVE  OwedInv'
  <2>1. UNCHANGED counterVars
    BY <1>1 DEF NewRequestFails, SendRequest, SendCancelled, DoReturns,
                DrainBody, WgDone
  <2>2. \A v \in Workers, u \in Targets :
           /\ gpc'[v][u] = "addFailed" <=> gpc[v][u] = "addFailed"
           /\ gpc'[v][u] = "incFailed" <=> gpc[v][u] = "incFailed"
           /\ (gpc'[v][u] = "incSent" /\ err'[v][u] = "error")
                <=> (gpc[v][u] = "incSent" /\ err[v][u] = "error")
    BY SMTT(30), <1>1 DEF NewRequestFails, SendRequest, SendCancelled, DoReturns,
                DrainBody, WgDone, Goto
  <2>3. \A u \in Targets : Owing(u)' = Owing(u)
    BY <2>2 DEF Owing
  <2>4. \A h \in Hosts : OwingHost(h)' = OwingHost(h)
    BY <2>2 DEF OwingHost, At
  <2>. QED
    BY <2>1, <2>3, <2>4, OwedKept
<1>2. CASE AddSent(w, t)
  <2>. USE <1>2 DEF AddSent, Goto
  <2>1. \A u \in Targets : u # t => Owing(u)' = Owing(u)
    BY DEF Owing
  <2>2. Owing(t)' = Owing(t) \/ Owing(t)' = Owing(t) \cup {w}
    BY DEF Owing
  <2>3. /\ Cardinality(Owing(t)') \in Nat
        /\ Cardinality(Owing(t)') <= Cardinality(Owing(t)) + 1
    BY ONLY <1>f, <2>2, AtMostOneMore
  <2>4. \A h \in Hosts : OwingHost(h)' = OwingHost(h)
    BY DEF OwingHost, At
  <2>. QED
    BY <1>f, <2>1, <2>3, <2>4 DEF OwedInv
<1>3. CASE IncSent(w, t)
  <2>. USE <1>3 DEF IncSent, Goto
  <2>h. HostOf[t] \in Hosts
    BY <1>f
  <2>1. \A u \in Targets : Owing(u)' = Owing(u)
    BY DEF Owing
  <2>2. \A h \in Hosts : h # HostOf[t] => OwingHost(h)' = OwingHost(h)
    BY DEF OwingHost, At
  <2>3. \/ OwingHost(HostOf[t])' = OwingHost(HostOf[t])
        \/ OwingHost(HostOf[t])' = OwingHost(HostOf[t]) \cup {<<w, t>>}
    BY DEF OwingHost, At
  <2>4. /\ Cardinality(OwingHost(HostOf[t])') <= Cardinality(OwingHost(HostOf[t])) + 1
        /\ Cardinality(OwingHost(HostOf[t])') \in Nat
    BY ONLY <1>f, <2>3, AtMostOneMore
  <2>. QED
    BY <1>f, <2>1, <2>2, <2>4 DEF OwedInv
<1>4. CASE AddFailed(w, t)
  <2>. USE <1>4 DEF AddFailed, Goto
  <2>1. \A u \in Targets : u # t => Owing(u)' = Owing(u)
    BY DEF Owing
  <2>2. w \in Owing(t) /\ Owing(t)' = Owing(t) \ {w}
    BY DEF Owing
  <2>3. Cardinality(Owing(t)') = Cardinality(Owing(t)) - 1
    BY <1>f, <2>2, CardinalityByOne
  <2>4. \A h \in Hosts : OwingHost(h)' = OwingHost(h)
    BY DEF OwingHost, At
  <2>. QED
    BY <1>f, <2>1, <2>3, <2>4 DEF OwedInv
<1>5. CASE IncFailed(w, t)
  <2>. USE <1>5 DEF IncFailed, Goto
  <2>h. HostOf[t] \in Hosts
    BY <1>f
  <2>1. \A u \in Targets : Owing(u)' = Owing(u)
    BY DEF Owing
  <2>2. \A h \in Hosts : h # HostOf[t] => OwingHost(h)' = OwingHost(h)
    BY DEF OwingHost, At
  <2>3. /\ <<w, t>> \in OwingHost(HostOf[t])
        /\ OwingHost(HostOf[t])' = OwingHost(HostOf[t]) \ {<<w, t>>}
    BY DEF OwingHost, At
  <2>4. Cardinality(OwingHost(HostOf[t])') = Cardinality(OwingHost(HostOf[t])) - 1
    BY <1>f, <2>3, CardinalityByOne
  <2>. QED
    BY <1>f, <2>1, <2>2, <2>4 DEF OwedInv
<1>. QED
  BY <1>1, <1>2, <1>3, <1>4, <1>5 DEF RequestStep

\* The debts stay covered in every step.
LEMMA OwedStep == RoundsInv /\ OwedInv /\ [Next]_vars => OwedInv'
<1>. SUFFICES ASSUME RoundsInv, OwedInv, [Next]_vars PROVE OwedInv'
  OBVIOUS
<1>1. CASE \E w \in Workers, t \in Targets : RequestStep(w, t)
  BY <1>1, RequestKeepsOwed
<1>2. CASE \E w \in Workers : Spawn(w)
  <2>1. PICK w \in Workers : Spawn(w)
    BY <1>2
  <2>2. next[w] \in Targets /\ gpc[w][next[w]] = "none"
    BY <2>1, TargetsAssumption
    DEF Spawn, RoundsInv, TypeOK, WorkerTypeOK, RoundInv, Live, Targets
  <2>3. \A v \in Workers, u \in Targets, pc \in {"incSent", "addFailed", "incFailed"} :
           gpc'[v][u] = pc <=> gpc[v][u] = pc
    BY <2>1, <2>2 DEF Spawn, RoundsInv, TypeOK, RequestTypeOK
  <2>4. err' = err /\ UNCHANGED counterVars
    BY <2>1 DEF Spawn
  <2>5. \A u \in Targets : Owing(u)' = Owing(u)
    BY <2>3, <2>4 DEF Owing
  <2>6. \A h \in Hosts : OwingHost(h)' = OwingHost(h)
    BY <2>3 DEF OwingHost, At
  <2>. QED
    BY <2>4, <2>5, <2>6, OwedKept
<1>3. ASSUME UNCHANGED <<requestVars, counterVars>> PROVE OwedInv'
  <2>1. \A u \in Targets : Owing(u)' = Owing(u)
    BY <1>3 DEF Owing, requestVars
  <2>2. \A h \in Hosts : OwingHost(h)' = OwingHost(h)
    BY <1>3 DEF OwingHost, At, requestVars
  <2>. QED
    BY <1>3, <2>1, <2>2, OwedKept
<1>4. CASE UNCHANGED vars
  BY <1>3, <1>4 DEF vars
<1>5. CASE \/ Signal
           \/ \E w \in Workers : Tick(w) \/ WorkerStop(w) \/ WaitReturns(w)
           \/ \E w \in Workers, e \in Endpoints : StartRound(w, e)
  BY <1>3, <1>5 DEF Signal, Tick, WorkerStop, WaitReturns, StartRound
<1>6. CASE MainStep \/ BreakLoop \/ MetricsListenFails
  BY <1>3, <1>6 DEF MainStep, StatusTick, ReadSent, ReadFailed, LogReport,
                    BreakLoop, MetricsListenFails
<1>. QED
  BY <1>1, <1>2, <1>4, <1>5, <1>6 DEF Next, WorkerStep, Exited

\* No failure is ever counted for a request that is not counted as sent, in the
\* atomics of the status line and in the scraped counters.
THEOREM FailuresCovered == Spec => []FailedWithinSent
<1>1. Init => OwedInv
  <2>. SUFFICES ASSUME Init PROVE OwedInv
    OBVIOUS
  <2>1. \A t \in Targets : Owing(t) = {}
    BY DEF Init, Owing
  <2>2. \A h \in Hosts : OwingHost(h) = {}
    BY DEF Init, OwingHost, At
  <2>3. Cardinality({}) = 0
    BY FS_EmptySet
  <2>4. \A t \in Targets : failedAtomic[t] + Cardinality(Owing(t)) <= sentAtomic[t]
    <3>1. \A t \in Targets : failedAtomic[t] = 0 /\ sentAtomic[t] = 0
      BY DEF Init
    <3>. QED
      BY <2>1, <2>3, <3>1
  <2>5. \A h \in Hosts :
           failedMetric[h] + Cardinality(OwingHost(h)) <= sentMetric[h]
    <3>1. \A h \in Hosts : failedMetric[h] = 0 /\ sentMetric[h] = 0
      BY DEF Init
    <3>. QED
      BY <2>2, <2>3, <3>1
  <2>. QED
    BY <2>4, <2>5 DEF OwedInv
<1>2. RoundsInv /\ OwedInv => FailedWithinSent
  <2>. SUFFICES ASSUME RoundsInv, OwedInv PROVE FailedWithinSent
    OBVIOUS
  <2>1. /\ \A t \in Targets : Cardinality(Owing(t)) \in Nat
        /\ \A h \in Hosts : Cardinality(OwingHost(h)) \in Nat
    BY CountedSetsFinite, FS_CardinalityType
  <2>. QED
    BY <2>1 DEF OwedInv, FailedWithinSent, RoundsInv, TypeOK, CounterTypeOK
<1>. QED
  BY <1>1, <1>2, RoundsAlways, OwedStep, PTL DEF Spec

-------------------------------------------------------------------------------

\* The targets that are done with worker w's round.
ServedBy == [w \in Workers |-> {t \in Targets : t < next[w] /\ ~Live(w, t)}]

\* A step that starts no round and changes no goroutine's being live is a
\* stutter of the abstract rounds.
LEMMA RoundsStutter ==
    ASSUME UNCHANGED <<next, ep, round>>,
           \A w \in Workers, t \in Targets : Live(w, t)' <=> Live(w, t)
    PROVE  UNCHANGED Rounds!vars
<1>1. ServedBy' = ServedBy
  BY DEF ServedBy
<1>. QED
  BY <1>1 DEF Rounds!vars, ServedBy

\* Opening a round, spawning its goroutines and finishing them are the abstract
\* rounds' steps.
LEMMA StepImplementsRounds ==
    RoundsInv /\ [Next]_vars => [Rounds!Next]_(Rounds!vars)
<1>. SUFFICES ASSUME RoundsInv, [Next]_vars
              PROVE  Rounds!Next \/ UNCHANGED Rounds!vars
  OBVIOUS
<1>. USE DEF RoundsInv, TypeOK
<1>1. ASSUME NEW w \in Workers, NEW e \in Endpoints, StartRound(w, e)
      PROVE  Rounds!Next
  <2>. USE <1>1, TargetsAssumption DEF StartRound, WorkerTypeOK
  <2>1. ServedBy[w] = Targets
    BY DEF ServedBy, RoundInv, Targets
  <2>2. \A v \in Workers : ServedBy'[v] = IF v = w THEN {} ELSE ServedBy[v]
    BY DEF ServedBy, Live, Targets, requestVars
  <2>4. ServedBy' = [ServedBy EXCEPT ![w] = {}]
    BY <2>2 DEF ServedBy
  <2>3. Rounds!Open(w, e)
    BY <2>1, <2>4 DEF Rounds!Open, ServedBy
  <2>. QED
    BY <2>3 DEF Rounds!Next
<1>2. ASSUME NEW w \in Workers, Spawn(w)
      PROVE  UNCHANGED Rounds!vars
  <2>. USE <1>2, TargetsAssumption DEF Spawn, WorkerTypeOK, RequestTypeOK
  <2>1. next[w] \in Targets
    BY DEF RoundInv
  <2>2. \A v \in Workers : ServedBy'[v] = ServedBy[v]
    BY <2>1 DEF ServedBy, Live, Targets
  <2>3. ServedBy' = ServedBy
    BY <2>2 DEF ServedBy
  <2>. QED
    BY <2>3 DEF Rounds!vars, ServedBy
<1>3. ASSUME NEW w \in Workers, NEW t \in Targets, WgDone(w, t)
      PROVE  Rounds!Next
  <2>. USE <1>3, TargetsAssumption DEF WgDone, Goto, WorkerTypeOK, RequestTypeOK
  <2>1. t < next[w] /\ t \notin ServedBy[w]
    BY DEF ServedBy, RoundInv, Live, Targets
  <2>2. \A v \in Workers : ServedBy'[v] = IF v = w THEN ServedBy[v] \cup {t}
                                                    ELSE ServedBy[v]
    BY <2>1 DEF ServedBy, Live, workerVars
  <2>4. ServedBy' = [ServedBy EXCEPT ![w] = @ \cup {t}]
    BY <2>2 DEF ServedBy
  <2>3. Rounds!Serve(w, t)
    BY <2>1, <2>4 DEF Rounds!Serve, ServedBy, workerVars
  <2>. QED
    BY <2>3 DEF Rounds!Next
<1>4. ASSUME NEW w \in Workers, NEW t \in Targets, RequestStep(w, t), ~WgDone(w, t)
      PROVE  UNCHANGED Rounds!vars
  <2>1. UNCHANGED <<next, ep, round>>
    BY <1>4 DEF RequestStep, NewRequestFails, SendRequest, SendCancelled,
         DoReturns, AddSent, IncSent, AddFailed, IncFailed, DrainBody, workerVars
  <2>2. PICK to \in RequestPC \ {"none"} :
           Live(w, t) /\ gpc' = [gpc EXCEPT ![w][t] = to]
    BY <1>4 DEF RequestStep, NewRequestFails, SendRequest, SendCancelled,
         DoReturns, AddSent, IncSent, AddFailed, IncFailed, DrainBody, Goto,
         Live, RequestPC
  <2>3. \A v \in Workers, u \in Targets : Live(v, u)' <=> Live(v, u)
    BY <2>2 DEF Live, RequestTypeOK
  <2>. QED
    BY <2>1, <2>3, RoundsStutter
<1>5. ASSUME UNCHANGED <<next, ep, round, requestVars>>
      PROVE  UNCHANGED Rounds!vars
  BY <1>5, RoundsStutter DEF requestVars, Live
<1>6. CASE UNCHANGED vars
  BY <1>5, <1>6 DEF vars, workerVars
<1>7. CASE \/ Signal
           \/ \E w \in Workers : Tick(w) \/ WorkerStop(w) \/ WaitReturns(w)
  BY <1>5, <1>7 DEF Signal, Tick, WorkerStop, WaitReturns, workerVars
<1>8. CASE MainStep \/ BreakLoop \/ MetricsListenFails
  BY <1>5, <1>8 DEF MainStep, StatusTick, ReadSent, ReadFailed, LogReport,
                    BreakLoop, MetricsListenFails, workerVars
<1>. QED
  BY <1>1, <1>2, <1>3, <1>4, <1>6, <1>7, <1>8 DEF Next, WorkerStep, Exited

\* The client's rounds implement LockstepRounds, for every list of targets.
THEOREM RoundsImplemented == Spec => ImplementsLockstepRounds
<1>1. Init => Rounds!Init
  <2>1. Init => ServedBy = [w \in Workers |-> Targets]
    BY TargetsAssumption DEF Init, ServedBy, Live, Targets
  <2>. QED
    BY <2>1 DEF Init, Rounds!Init, ServedBy
<1>. QED
  BY <1>1, RoundsAlways, StepImplementsRounds, PTL
  DEF Spec, Rounds!Spec, ImplementsLockstepRounds
-------------------------------------------------------------------------------
(* The counters and what is between them. *)

\* The goroutines and the targets are finitely many.
LEMMA FinitelyMany ==
    /\ IsFiniteSet(Targets)
    /\ IsFiniteSet(Workers \X Targets)
    /\ \A h : IsFiniteSet({t \in Targets : HostOf[t] = h})
<1>1. IsFiniteSet(Targets)
  BY FS_Interval, TargetsAssumption DEF Targets
<1>2. IsFiniteSet(Workers \X Targets)
  BY <1>1, FS_Product, WorkersAssumption
<1>3. \A h : {t \in Targets : HostOf[t] = h} \subseteq Targets
  OBVIOUS
<1>. QED
  BY <1>1, <1>2, <1>3, FS_Subset

\* One more request counted for target t adds one to the sum of its host only.
LEMMA AtomicsMove ==
    ASSUME NEW f \in [Targets -> Nat], NEW g \in [Targets -> Nat], NEW t \in Targets,
           g[t] = f[t] + 1, \A u \in Targets \ {t} : g[u] = f[u], NEW h
    PROVE  AtomicsOf(h, g) = AtomicsOf(h, f) + (IF HostOf[t] = h THEN 1 ELSE 0)
<1>. DEFINE S == {u \in Targets : HostOf[u] = h}
<1>1. /\ IsFiniteSet(S)
      /\ \A u \in S : f[u] \in Nat
      /\ \A u \in S : g[u] \in Nat
      /\ \A u \in S \ {t} : g[u] = f[u]
      /\ f[t] \in Nat /\ g[t] = f[t] + 1
  BY FinitelyMany
<1>2. t \in S <=> HostOf[t] = h
  OBVIOUS
<1>3. AtomicsOf(h, f) = SumFunctionOnSet(f, S) /\ AtomicsOf(h, g) = SumFunctionOnSet(g, S)
  BY DEF AtomicsOf
<1>. HIDE DEF S
<1>4. SumFunctionOnSet(f, S) \in Nat /\ SumFunctionOnSet(g, S) \in Nat
  BY <1>1, SumNat
<1>5. SumFunctionOnSet(g, S) + (IF t \in S THEN f[t] ELSE 0)
        = SumFunctionOnSet(f, S) + (IF t \in S THEN g[t] ELSE 0)
  BY <1>1, SumsDiffer
<1>. QED
  BY <1>1, <1>2, <1>3, <1>4, <1>5

\* The requests to host h that are at pc when pcs gives the pcs.
AtIn(pcs, h, pc) == {wt \in Workers \X Targets :
                       HostOf[wt[2]] = h /\ pcs[wt[1]][wt[2]] = pc}

\* A goroutine that moves leaves the pcs it was at and enters the one it is at.
LEMMA AtMoves ==
    ASSUME NEW pcs, NEW pcs2, NEW w \in Workers, NEW t \in Targets,
           \A v \in Workers, u \in Targets :
              (v = w /\ u = t) \/ pcs2[v][u] = pcs[v][u],
           NEW h, NEW pc
    PROVE  /\ Cardinality(AtIn(pcs, h, pc)) \in Nat
           /\ Cardinality(AtIn(pcs2, h, pc)) \in Nat
           /\ HostOf[t] # h \/ (pcs2[w][t] = pc <=> pcs[w][t] = pc)
                => Cardinality(AtIn(pcs2, h, pc)) = Cardinality(AtIn(pcs, h, pc))
           /\ HostOf[t] = h /\ pcs2[w][t] = pc /\ pcs[w][t] # pc
                => Cardinality(AtIn(pcs2, h, pc)) = Cardinality(AtIn(pcs, h, pc)) + 1
           /\ HostOf[t] = h /\ pcs2[w][t] # pc /\ pcs[w][t] = pc
                => Cardinality(AtIn(pcs, h, pc)) = Cardinality(AtIn(pcs2, h, pc)) + 1
<1>1. IsFiniteSet(AtIn(pcs, h, pc))
  <2>1. AtIn(pcs, h, pc) \subseteq Workers \X Targets
    BY DEF AtIn
  <2>. QED
    BY <2>1, FinitelyMany, FS_Subset
<1>2. AtIn(pcs, h, pc) \ {<<w, t>>} = AtIn(pcs2, h, pc) \ {<<w, t>>}
  BY DEF AtIn
<1>3. /\ <<w, t>> \in AtIn(pcs, h, pc) <=> HostOf[t] = h /\ pcs[w][t] = pc
      /\ <<w, t>> \in AtIn(pcs2, h, pc) <=> HostOf[t] = h /\ pcs2[w][t] = pc
  BY DEF AtIn
<1>. QED
  BY <1>1, <1>2, <1>3, CountsDiffer

\* A step of a request's goroutine keeps the two kinds of counters apart by
\* exactly the requests between the two increments.
LEMMA RequestKeepsMetrics ==
    ASSUME RoundsInv, MetricsTrackAtomics, NEW w \in Workers, NEW t \in Targets,
           RequestStep(w, t)
    PROVE  MetricsTrackAtomics'
<1>. SUFFICES ASSUME NEW h \in Hosts
              PROVE  /\ sentMetric'[h] + Cardinality(AtIn(gpc', h, "incSent"))
                          = AtomicsOf(h, sentAtomic')
                     /\ failedMetric'[h] + Cardinality(AtIn(gpc', h, "incFailed"))
                          = AtomicsOf(h, failedAtomic')
  BY DEF MetricsTrackAtomics, AtomicsOf, At, AtIn
<1>. USE DEF RoundsInv, TypeOK
<1>0. /\ sentMetric[h] + Cardinality(AtIn(gpc, h, "incSent")) = AtomicsOf(h, sentAtomic)
      /\ failedMetric[h] + Cardinality(AtIn(gpc, h, "incFailed")) = AtomicsOf(h, failedAtomic)
      /\ sentMetric[h] \in Nat /\ failedMetric[h] \in Nat
      /\ sentMetric \in [Hosts -> Nat] /\ failedMetric \in [Hosts -> Nat]
      /\ sentAtomic \in [Targets -> Nat] /\ failedAtomic \in [Targets -> Nat]
      /\ HostOf[t] \in Hosts
  BY HostsAssumption DEF MetricsTrackAtomics, At, AtIn, CounterTypeOK
<1>m. PICK to \in RequestPC : gpc' = [gpc EXCEPT ![w][t] = to]
  BY DEF RequestStep, NewRequestFails, SendRequest, SendCancelled, DoReturns,
         AddSent, IncSent, AddFailed, IncFailed, DrainBody, WgDone, Goto, RequestPC
<1>p. \A v \in Workers, u \in Targets :
         (v = w /\ u = t) \/ gpc'[v][u] = gpc[v][u]
  BY <1>m DEF RequestTypeOK
<1>s. ASSUME NEW pc
      PROVE  /\ Cardinality(AtIn(gpc, h, pc)) \in Nat
             /\ Cardinality(AtIn(gpc', h, pc)) \in Nat
             /\ HostOf[t] # h \/ (gpc'[w][t] = pc <=> gpc[w][t] = pc)
                  => Cardinality(AtIn(gpc', h, pc)) = Cardinality(AtIn(gpc, h, pc))
             /\ HostOf[t] = h /\ gpc'[w][t] = pc /\ gpc[w][t] # pc
                  => Cardinality(AtIn(gpc', h, pc)) = Cardinality(AtIn(gpc, h, pc)) + 1
             /\ HostOf[t] = h /\ gpc'[w][t] # pc /\ gpc[w][t] = pc
                  => Cardinality(AtIn(gpc, h, pc)) = Cardinality(AtIn(gpc', h, pc)) + 1
  BY <1>p, AtMoves
<1>1. CASE AddSent(w, t)
  <2>1. AtomicsOf(h, sentAtomic') = AtomicsOf(h, sentAtomic) + (IF HostOf[t] = h THEN 1 ELSE 0)
    <3>1. /\ sentAtomic' \in [Targets -> Nat]
          /\ sentAtomic'[t] = sentAtomic[t] + 1
          /\ \A u \in Targets \ {t} : sentAtomic'[u] = sentAtomic[u]
      BY <1>0, <1>1 DEF AddSent
    <3>. QED
      BY <1>0, <3>1, AtomicsMove
  <2>2. UNCHANGED <<failedAtomic, sentMetric, failedMetric>>
    BY <1>1 DEF AddSent
  <2>3. gpc[w][t] = "addSent" /\ gpc'[w][t] = "incSent"
    BY <1>1 DEF AddSent, Goto, RequestTypeOK
  <2>. QED
    BY ONLY <1>0, <1>s, <2>1, <2>2, <2>3
<1>2. CASE AddFailed(w, t)
  <2>1. AtomicsOf(h, failedAtomic') = AtomicsOf(h, failedAtomic) + (IF HostOf[t] = h THEN 1 ELSE 0)
    <3>1. /\ failedAtomic' \in [Targets -> Nat]
          /\ failedAtomic'[t] = failedAtomic[t] + 1
          /\ \A u \in Targets \ {t} : failedAtomic'[u] = failedAtomic[u]
      BY <1>0, <1>2 DEF AddFailed
    <3>. QED
      BY <1>0, <3>1, AtomicsMove
  <2>2. UNCHANGED <<sentAtomic, sentMetric, failedMetric>>
    BY <1>2 DEF AddFailed
  <2>3. gpc[w][t] = "addFailed" /\ gpc'[w][t] = "incFailed"
    BY <1>2 DEF AddFailed, Goto, RequestTypeOK
  <2>. QED
    BY ONLY <1>0, <1>s, <2>1, <2>2, <2>3
<1>3. CASE IncSent(w, t)
  <2>1. sentMetric'[h] = sentMetric[h] + (IF HostOf[t] = h THEN 1 ELSE 0)
    BY <1>0, <1>3 DEF IncSent
  <2>2. UNCHANGED <<sentAtomic, failedAtomic, failedMetric>>
    BY <1>3 DEF IncSent
  <2>3. gpc[w][t] = "incSent" /\ gpc'[w][t] \in {"addFailed", "body"}
    BY <1>3 DEF IncSent, Goto, RequestTypeOK
  <2>. QED
    BY ONLY <1>0, <1>s, <2>1, <2>2, <2>3
<1>4. CASE IncFailed(w, t)
  <2>1. failedMetric'[h] = failedMetric[h] + (IF HostOf[t] = h THEN 1 ELSE 0)
    BY <1>0, <1>4 DEF IncFailed
  <2>2. UNCHANGED <<sentAtomic, failedAtomic, sentMetric>>
    BY <1>4 DEF IncFailed
  <2>3. gpc[w][t] = "incFailed" /\ gpc'[w][t] = "done"
    BY <1>4 DEF IncFailed, Goto, RequestTypeOK
  <2>. QED
    BY ONLY <1>0, <1>s, <2>1, <2>2, <2>3
<1>5. CASE \/ NewRequestFails(w, t) \/ SendRequest(w, t) \/ SendCancelled(w, t)
           \/ \E result \in {"nil", "error"} : DoReturns(w, t, result)
           \/ DrainBody(w, t) \/ WgDone(w, t)
  <2>1. UNCHANGED <<sentAtomic, failedAtomic, sentMetric, failedMetric>>
    BY <1>5 DEF NewRequestFails, SendRequest, SendCancelled, DoReturns,
                DrainBody, WgDone, counterVars
  <2>2. /\ gpc[w][t] \notin {"incSent", "incFailed"}
        /\ gpc'[w][t] \notin {"incSent", "incFailed"}
    BY <1>5 DEF NewRequestFails, SendRequest, SendCancelled, DoReturns,
                DrainBody, WgDone, Goto, RequestTypeOK
  <2>. QED
    BY ONLY <1>0, <1>s, <2>1, <2>2
<1>. QED
  BY <1>1, <1>2, <1>3, <1>4, <1>5 DEF RequestStep

\* So does every other step: no other counts, and a spawned goroutine has not
\* counted yet.
LEMMA MetricsStep ==
    RoundsInv /\ MetricsTrackAtomics /\ [Next]_vars => MetricsTrackAtomics'
<1>. SUFFICES ASSUME RoundsInv, MetricsTrackAtomics, [Next]_vars
              PROVE  MetricsTrackAtomics'
  OBVIOUS
<1>1. CASE \E w \in Workers, t \in Targets : RequestStep(w, t)
  BY <1>1, RequestKeepsMetrics
<1>2. ASSUME UNCHANGED counterVars,
             \A w \in Workers, t \in Targets, pc \in {"incSent", "incFailed"} :
                gpc'[w][t] = pc <=> gpc[w][t] = pc
      PROVE  MetricsTrackAtomics'
  <2>1. \A h \in Hosts : /\ At(h, {"incSent"})' = At(h, {"incSent"})
                       /\ At(h, {"incFailed"})' = At(h, {"incFailed"})
    BY <1>2 DEF At
  <2>. QED
    BY <1>2, <2>1 DEF MetricsTrackAtomics, AtomicsOf, counterVars
<1>3. CASE \E w \in Workers : Spawn(w)
  <2>1. PICK w \in Workers : Spawn(w)
    BY <1>3
  <2>2. next[w] \in Targets /\ gpc[w][next[w]] = "none"
    BY <2>1, TargetsAssumption
    DEF Spawn, RoundsInv, TypeOK, WorkerTypeOK, RoundInv, Live, Targets
  <2>. QED
    BY <1>2, <2>1, <2>2 DEF Spawn, RoundsInv, TypeOK, RequestTypeOK
<1>4. CASE UNCHANGED vars
  BY <1>2, <1>4 DEF vars, requestVars
<1>5. CASE \/ Signal
           \/ \E w \in Workers : Tick(w) \/ WorkerStop(w) \/ WaitReturns(w)
           \/ \E w \in Workers, e \in Endpoints : StartRound(w, e)
  BY <1>2, <1>5 DEF Signal, Tick, WorkerStop, WaitReturns, StartRound, requestVars
<1>6. CASE MainStep \/ BreakLoop \/ MetricsListenFails
  BY <1>2, <1>6 DEF MainStep, StatusTick, ReadSent, ReadFailed, LogReport,
                    BreakLoop, MetricsListenFails, requestVars
<1>. QED
  BY <1>1, <1>3, <1>4, <1>5, <1>6 DEF Next, WorkerStep, Exited

\* The scraped counters of a host lag the atomics behind its status line by
\* exactly the requests between the two increments, whatever the interleaving.
THEOREM MetricsFollow == Spec => []MetricsTrackAtomics
<1>1. Init => MetricsTrackAtomics
  <2>. SUFFICES ASSUME Init, NEW h \in Hosts
                PROVE  /\ sentMetric[h] + Cardinality(At(h, {"incSent"}))
                            = AtomicsOf(h, sentAtomic)
                       /\ failedMetric[h] + Cardinality(At(h, {"incFailed"}))
                            = AtomicsOf(h, failedAtomic)
    BY DEF MetricsTrackAtomics
  <2>. DEFINE S == {t \in Targets : HostOf[t] = h}
  <2>1. IsFiniteSet(S)
    BY FinitelyMany
  <2>2. \A t \in S : sentAtomic[t] = 0 /\ failedAtomic[t] = 0
    BY DEF Init
  <2>3. SumFunctionOnSet(sentAtomic, S) = 0 /\ SumFunctionOnSet(failedAtomic, S) = 0
    <3>. HIDE DEF S
    <3>. QED
      BY <2>1, <2>2, SumOfZeros
  <2>4. At(h, {"incSent"}) = {} /\ At(h, {"incFailed"}) = {}
    BY DEF Init, At
  <2>5. sentMetric[h] = 0 /\ failedMetric[h] = 0 /\ Cardinality({}) = 0
    BY FS_EmptySet DEF Init
  <2>. QED
    BY <2>3, <2>4, <2>5 DEF AtomicsOf
<1>. QED
  BY <1>1, RoundsAlways, MetricsStep, PTL DEF Spec
-------------------------------------------------------------------------------
(* The rounds started and the requests counted. *)

\* The workers whose request to t in their current round is still to be counted.
Pending(t) == {w \in Workers :
                  \/ wpc[w] = "spawn" /\ next[w] <= t
                  \/ gpc[w][t] \in {"start", "inflight", "addSent"}}

LEMMA PendingFinite ==
    \A t : IsFiniteSet(Pending(t)) /\ Cardinality(Pending(t)) \in Nat
<1>1. \A t : Pending(t) \subseteq Workers
  BY DEF Pending
<1>. QED
  BY <1>1, WorkersAssumption, FS_Subset, FS_CardinalityType

\* A request is pending until the step that counts it as sent; only one that
\* could not be built never is, and its target is left out of the count.
LEMMA RequestKeepsCounted ==
    ASSUME RoundsInv, RoundsCounted, NEW w \in Workers, NEW t \in Targets,
           RequestStep(w, t)
    PROVE  RoundsCounted'
<1>. SUFFICES ASSUME NEW u \in Targets \ Malformed
              PROVE  sentAtomic'[u] + Cardinality(Pending(u)')
                       = SumFunctionOnSet(round', Workers)
  BY DEF RoundsCounted, Pending
<1>. USE DEF RoundsInv, TypeOK, RequestTypeOK, CounterTypeOK
<1>1. /\ sentAtomic[u] + Cardinality(Pending(u)) = SumFunctionOnSet(round, Workers)
      /\ UNCHANGED workerVars
  BY DEF RoundsCounted, Pending, RequestStep, NewRequestFails, SendRequest,
         SendCancelled, DoReturns, AddSent, IncSent, AddFailed, IncFailed,
         DrainBody, WgDone
<1>2. ~(wpc[w] = "spawn" /\ next[w] <= t)
  BY DEF RoundInv, Live, RequestStep, NewRequestFails, SendRequest, SendCancelled,
         DoReturns, AddSent, IncSent, AddFailed, IncFailed, DrainBody, WgDone, Goto
<1>3. CASE AddSent(w, t)
  <2>. USE <1>3 DEF AddSent, Goto
  <2>1. CASE u = t
    <3>1. w \in Pending(t) /\ Pending(t)' = Pending(t) \ {w}
      BY <1>1, <1>2 DEF Pending, workerVars
    <3>2. Cardinality(Pending(t)') = Cardinality(Pending(t)) - 1
      BY <3>1, PendingFinite, CardinalityByOne
    <3>. QED
      BY <1>1, <2>1, <3>2, PendingFinite DEF workerVars
  <2>2. CASE u # t
    <3>1. Pending(u)' = Pending(u) /\ sentAtomic'[u] = sentAtomic[u]
      BY <1>1, <2>2 DEF Pending, workerVars
    <3>. QED
      BY <1>1, <3>1 DEF workerVars
  <2>. QED
    BY <2>1, <2>2
<1>4. CASE ~AddSent(w, t)
  <2>1. sentAtomic' = sentAtomic
    BY <1>4 DEF RequestStep, NewRequestFails, SendRequest, SendCancelled, DoReturns,
                IncSent, AddFailed, IncFailed, DrainBody, WgDone, counterVars
  <2>2. \A v \in Workers :
           gpc'[v][u] \in {"start", "inflight", "addSent"}
             <=> gpc[v][u] \in {"start", "inflight", "addSent"}
    BY <1>4 DEF RequestStep, NewRequestFails, SendRequest, SendCancelled, DoReturns,
                IncSent, AddFailed, IncFailed, DrainBody, WgDone, Goto
  <2>3. Pending(u)' = Pending(u)
    BY <1>1, <2>2 DEF Pending, workerVars
  <2>. QED
    BY <1>1, <2>1, <2>3 DEF workerVars
<1>. QED
  BY <1>3, <1>4

\* A round that one worker starts adds one to the sum.
LEMMA RoundAdds ==
    ASSUME NEW f \in [Workers -> Nat], NEW g \in [Workers -> Nat], NEW w \in Workers,
           g[w] = f[w] + 1, \A v \in Workers \ {w} : g[v] = f[v]
    PROVE  /\ SumFunctionOnSet(g, Workers) = SumFunctionOnSet(f, Workers) + 1
           /\ SumFunctionOnSet(f, Workers) \in Nat
<1>1. SumFunctionOnSet(g, Workers) + (IF w \in Workers THEN f[w] ELSE 0)
        = SumFunctionOnSet(f, Workers) + (IF w \in Workers THEN g[w] ELSE 0)
  BY WorkersAssumption, SumsDiffer
<1>2. SumFunctionOnSet(f, Workers) \in Nat /\ SumFunctionOnSet(g, Workers) \in Nat
  BY WorkersAssumption, SumNat
<1>. QED
  BY <1>1, <1>2

\* A round that starts makes one more request to every target pending; spawning
\* its goroutine leaves it pending.
LEMMA WorkerKeepsCounted ==
    ASSUME RoundsInv, RoundsCounted, NEW w \in Workers, WorkerStep(w)
    PROVE  RoundsCounted'
<1>. SUFFICES ASSUME NEW u \in Targets \ Malformed
              PROVE  sentAtomic'[u] + Cardinality(Pending(u)')
                       = SumFunctionOnSet(round', Workers)
  BY DEF RoundsCounted, Pending
<1>. USE DEF RoundsInv, TypeOK, WorkerTypeOK, RequestTypeOK, CounterTypeOK
<1>1. /\ sentAtomic[u] + Cardinality(Pending(u)) = SumFunctionOnSet(round, Workers)
      /\ sentAtomic' = sentAtomic /\ sentAtomic[u] \in Nat
  BY DEF RoundsCounted, Pending, WorkerStep, StartRound, Spawn, WaitReturns, counterVars
<1>2. ASSUME NEW e \in Endpoints, StartRound(w, e)
      PROVE  sentAtomic'[u] + Cardinality(Pending(u)')
               = SumFunctionOnSet(round', Workers)
  <2>. USE <1>2 DEF StartRound
  <2>1. w \notin Pending(u) /\ Pending(u)' = Pending(u) \cup {w}
    BY DEF Pending, RoundInv, Live, requestVars, Targets
  <2>2. Cardinality(Pending(u)') = Cardinality(Pending(u)) + 1
    BY <2>1, PendingFinite, CardinalityByOne
  <2>3. /\ round \in [Workers -> Nat] /\ round' \in [Workers -> Nat]
        /\ round'[w] = round[w] + 1
        /\ \A v \in Workers \ {w} : round'[v] = round[v]
    OBVIOUS
  <2>4. /\ SumFunctionOnSet(round', Workers) = SumFunctionOnSet(round, Workers) + 1
        /\ SumFunctionOnSet(round, Workers) \in Nat
    BY ONLY <2>3, RoundAdds
  <2>. QED
    BY <1>1, <2>2, <2>4, PendingFinite
<1>3. CASE Spawn(w)
  <2>. USE <1>3 DEF Spawn
  <2>1. next[w] \in Targets /\ round' = round
    BY DEF RoundInv
  <2>2. \A v \in Workers \ {w} :
           wpc'[v] = wpc[v] /\ next'[v] = next[v] /\ gpc'[v][u] = gpc[v][u]
    OBVIOUS
  <2>3. w \in Pending(u) <=> next[w] <= u \/ gpc[w][u] \in {"start", "inflight", "addSent"}
    BY DEF Pending
  <2>4. /\ next'[w] = next[w] + 1
        /\ wpc'[w] = IF next[w] = NumTargets THEN "wait" ELSE "spawn"
        /\ gpc'[w][u] = IF u = next[w] THEN "start" ELSE gpc[w][u]
    BY <2>1
  <2>5. w \in Pending(u)' <=> w \in Pending(u)
    <3>1. w \in Pending(u)'
            <=> \/ wpc'[w] = "spawn" /\ next'[w] <= u
                \/ gpc'[w][u] \in {"start", "inflight", "addSent"}
      BY DEF Pending
    <3>2. u \in Nat /\ next[w] \in Nat /\ u <= NumTargets
      BY <2>1, TargetsAssumption DEF Targets
    <3>. QED
      BY ONLY <2>3, <2>4, <3>1, <3>2, TargetsAssumption
  <2>6. \A v \in Workers \ {w} : v \in Pending(u)' <=> v \in Pending(u)
    BY <2>2 DEF Pending
  <2>7. Pending(u)' = Pending(u)
    BY <2>5, <2>6 DEF Pending
  <2>. QED
    BY <1>1, <2>1, <2>7
<1>4. CASE WaitReturns(w)
  <2>1. Pending(u)' = Pending(u)
    BY <1>4 DEF WaitReturns, Pending, requestVars
  <2>. QED
    BY <1>1, <1>4, <2>1 DEF WaitReturns
<1>. QED
  BY <1>2, <1>3, <1>4 DEF WorkerStep

LEMMA CountedStep == RoundsInv /\ RoundsCounted /\ [Next]_vars => RoundsCounted'
<1>. SUFFICES ASSUME RoundsInv, RoundsCounted, [Next]_vars PROVE RoundsCounted'
  OBVIOUS
<1>1. CASE \E w \in Workers, t \in Targets : RequestStep(w, t)
  BY <1>1, RequestKeepsCounted
<1>2. CASE \E w \in Workers : WorkerStep(w)
  BY <1>2, WorkerKeepsCounted
<1>3. ASSUME UNCHANGED <<requestVars, counterVars, next, round>>,
             \A w \in Workers : wpc'[w] = "spawn" <=> wpc[w] = "spawn"
      PROVE  RoundsCounted'
  <2>1. \A t \in Targets : Pending(t)' = Pending(t)
    BY <1>3 DEF Pending, requestVars
  <2>. QED
    BY <1>3, <2>1 DEF RoundsCounted, Pending, counterVars
<1>4. CASE UNCHANGED vars
  BY <1>3, <1>4 DEF vars, workerVars
<1>5. CASE Signal \/ \E w \in Workers : Tick(w) \/ WorkerStop(w)
  BY <1>3, <1>5 DEF Signal, Tick, WorkerStop, workerVars, RoundsInv, TypeOK, WorkerTypeOK
<1>6. CASE MainStep \/ BreakLoop \/ MetricsListenFails
  BY <1>3, <1>6 DEF MainStep, StatusTick, ReadSent, ReadFailed, LogReport,
                    BreakLoop, MetricsListenFails, workerVars
<1>. QED
  BY <1>1, <1>2, <1>4, <1>5, <1>6 DEF Next, Exited

LEMMA CountedAlways == Spec => []RoundsCounted
<1>1. Init => RoundsCounted
  <2>. SUFFICES ASSUME Init, NEW t \in Targets \ Malformed
                PROVE  sentAtomic[t] + Cardinality(Pending(t))
                         = SumFunctionOnSet(round, Workers)
    BY DEF RoundsCounted, Pending
  <2>1. \A w \in Workers : round[w] = 0
    BY DEF Init
  <2>2. SumFunctionOnSet(round, Workers) = 0
    BY <2>1, WorkersAssumption, SumOfZeros
  <2>3. Pending(t) = {} /\ sentAtomic[t] = 0
    BY DEF Init, Pending
  <2>. QED
    BY <2>2, <2>3, FS_EmptySet
<1>. QED
  BY <1>1, RoundsAlways, CountedStep, PTL DEF Spec

\* Every round started is counted once for every target it could be sent to, or
\* is still on its way there: the client neither loses nor repeats a request.
THEOREM RoundsAreCounted == Spec => []RoundsCounted
BY CountedAlways

\* However slow a target is, it is never offered more than one round per worker
\* less than another: the loads that are compared stay level.
THEOREM LoadStaysLevel == Spec => []LoadParity
<1>1. RoundsInv /\ RoundsCounted => LoadParity
  <2>. SUFFICES ASSUME RoundsInv, RoundsCounted,
                       NEW t \in Targets \ Malformed, NEW u \in Targets \ Malformed
                PROVE  sentAtomic[t] - sentAtomic[u] <= Cardinality(Workers)
    BY DEF LoadParity
  <2>1. sentAtomic[t] + Cardinality(Pending(t)) = sentAtomic[u] + Cardinality(Pending(u))
    BY DEF RoundsCounted, Pending
  <2>2. Pending(u) \subseteq Workers
    BY DEF Pending
  <2>3. Cardinality(Workers) \in Nat /\ Cardinality(Pending(u)) <= Cardinality(Workers)
    BY <2>2, WorkersAssumption, FS_Subset, FS_CardinalityType
  <2>. QED
    BY <2>1, <2>3, PendingFinite DEF RoundsInv, TypeOK, CounterTypeOK
<1>. QED
  BY <1>1, RoundsAlways, CountedAlways, PTL
-------------------------------------------------------------------------------
(* The status line. *)

\* The targets whose sent and failed counts this call of logStatus has read.
SentRead == {t \in Targets : t < idx \/ (mpc = "readFailed" /\ t = idx)}
FailedRead == {t \in Targets : t < idx}
TargetsOf(h) == {t \in Targets : HostOf[t] = h}

\* What logStatus has added up so far is within what those targets have counted
\* since, and the targets it has yet to read cover what the last total has more.
WithinRead ==
    /\ mpc = "log" => idx = NumTargets + 1
    /\ totalSent <= SumFunctionOnSet(sentAtomic, SentRead)
    /\ prevSent <= totalSent + SumFunctionOnSet(sentAtomic, Targets \ SentRead)
    /\ \A h \in Hosts :
          /\ acc[h].sent <= SumFunctionOnSet(sentAtomic, SentRead \cap TargetsOf(h))
          /\ acc[h].failed <= SumFunctionOnSet(failedAtomic, FailedRead \cap TargetsOf(h))

ReportInv == Running => WithinRead

\* Sums of the counts of some targets are natural numbers, and they only grow
\* when the counts do.
LEMMA CountsAddUp ==
    ASSUME NEW f \in [Targets -> Nat], NEW S \in SUBSET Targets
    PROVE  /\ SumFunctionOnSet(f, S) \in Nat
           /\ \A g \in [Targets -> Nat] : (\A t \in Targets : f[t] <= g[t])
                => SumFunctionOnSet(f, S) <= SumFunctionOnSet(g, S)
           /\ \A t \in S : SumFunctionOnSet(f, S) = f[t] + SumFunctionOnSet(f, S \ {t})
<1>1. IsFiniteSet(S)
  BY FinitelyMany, FS_Subset
<1>2. \A t \in S : f[t] \in Nat
  OBVIOUS
<1>3. ASSUME NEW g \in [Targets -> Nat], \A t \in Targets : f[t] <= g[t]
      PROVE  SumFunctionOnSet(f, S) <= SumFunctionOnSet(g, S)
  <2>1. \A t \in S : f[t] \in Nat /\ g[t] \in Nat /\ f[t] <= g[t]
    BY <1>3
  <2>. QED
    BY <1>1, <2>1, SumMonotone
<1>. QED
  BY <1>1, <1>2, <1>3, SumNat, SumSplits

\* No step takes back a request that is counted.
LEMMA CountsGrow ==
    ASSUME RoundsInv, [Next]_vars
    PROVE  /\ sentAtomic' \in [Targets -> Nat] /\ failedAtomic' \in [Targets -> Nat]
           /\ \A t \in Targets : /\ sentAtomic[t] <= sentAtomic'[t]
                                 /\ failedAtomic[t] <= failedAtomic'[t]
<1>. USE DEF RoundsInv, TypeOK, CounterTypeOK
<1>1. RoundsInv'
  BY RoundsStep
<1>2. CASE \E w \in Workers, t \in Targets : AddSent(w, t) \/ AddFailed(w, t)
  BY <1>1, <1>2 DEF AddSent, AddFailed
<1>3. CASE ~\E w \in Workers, t \in Targets : AddSent(w, t) \/ AddFailed(w, t)
  <2>1. UNCHANGED <<sentAtomic, failedAtomic>>
    BY <1>3 DEF Next, vars, counterVars, Signal, Tick, WorkerStep, WorkerStop,
         StartRound, Spawn, WaitReturns, RequestStep, NewRequestFails, SendRequest,
         SendCancelled, DoReturns, IncSent, IncFailed, DrainBody, WgDone, MainStep,
         StatusTick, ReadSent, ReadFailed, LogReport, BreakLoop,
         MetricsListenFails, Exited
  <2>. QED
    BY <2>1
<1>. QED
  BY <1>2, <1>3

\* A step of another goroutine only lets the counts grow past what was read.
LEMMA OthersKeepReport ==
    ASSUME RoundsInv, ReportInv, [Next]_vars, UNCHANGED mainVars
    PROVE  ReportInv'
<1>. SUFFICES ASSUME WithinRead PROVE WithinRead'
  BY DEF ReportInv, Running, mainVars
<1>1. /\ UNCHANGED <<mpc, idx, acc, totalSent, prevSent>>
      /\ SentRead' = SentRead /\ FailedRead' = FailedRead
      /\ \A h : TargetsOf(h)' = TargetsOf(h)
  BY DEF mainVars, SentRead, FailedRead, TargetsOf
<1>2. /\ sentAtomic \in [Targets -> Nat] /\ failedAtomic \in [Targets -> Nat]
      /\ totalSent \in Nat /\ prevSent \in Nat
      /\ acc \in [Hosts -> [sent : Nat, failed : Nat]]
  BY DEF RoundsInv, TypeOK, CounterTypeOK, MainTypeOK
<1>3. ASSUME NEW S \in SUBSET Targets
      PROVE  /\ SumFunctionOnSet(sentAtomic, S) \in Nat
             /\ SumFunctionOnSet(sentAtomic', S) \in Nat
             /\ SumFunctionOnSet(sentAtomic, S) <= SumFunctionOnSet(sentAtomic', S)
             /\ SumFunctionOnSet(failedAtomic, S) \in Nat
             /\ SumFunctionOnSet(failedAtomic', S) \in Nat
             /\ SumFunctionOnSet(failedAtomic, S) <= SumFunctionOnSet(failedAtomic', S)
  BY <1>2, CountsGrow, CountsAddUp
<1>4. /\ SentRead \in SUBSET Targets /\ Targets \ SentRead \in SUBSET Targets
      /\ \A h \in Hosts : /\ SentRead \cap TargetsOf(h) \in SUBSET Targets
                          /\ FailedRead \cap TargetsOf(h) \in SUBSET Targets
  BY DEF SentRead, FailedRead
<1>5. ASSUME NEW h \in Hosts
      PROVE  /\ acc[h].sent <= SumFunctionOnSet(sentAtomic', SentRead \cap TargetsOf(h))
             /\ acc[h].failed <= SumFunctionOnSet(failedAtomic', FailedRead \cap TargetsOf(h))
  <2>1. /\ acc[h].sent \in Nat /\ acc[h].failed \in Nat
        /\ acc[h].sent <= SumFunctionOnSet(sentAtomic, SentRead \cap TargetsOf(h))
        /\ acc[h].failed <= SumFunctionOnSet(failedAtomic, FailedRead \cap TargetsOf(h))
    BY <1>2 DEF WithinRead
  <2>. QED
    BY <1>3, <1>4, <2>1
<1>6. /\ totalSent <= SumFunctionOnSet(sentAtomic', SentRead)
      /\ prevSent <= totalSent + SumFunctionOnSet(sentAtomic', Targets \ SentRead)
  BY <1>2, <1>3, <1>4 DEF WithinRead
<1>. QED
  BY <1>1, <1>5, <1>6 DEF WithinRead

\* Reading a count moves it from the targets to read to those read; a report
\* that has been logged is what the next one must not fall below.
LEMMA MainKeepsReport ==
    ASSUME RoundsInv, ReportInv, MainStep \/ BreakLoop \/ MetricsListenFails
    PROVE  ReportInv'
<1>. SUFFICES ASSUME Running' PROVE WithinRead'
  BY DEF ReportInv
<1>1. /\ sentAtomic \in [Targets -> Nat] /\ failedAtomic \in [Targets -> Nat]
      /\ totalSent \in Nat /\ prevSent \in Nat /\ idx \in Nat
      /\ acc \in [Hosts -> [sent : Nat, failed : Nat]]
      /\ MainInv
  BY TargetsAssumption DEF RoundsInv, TypeOK, CounterTypeOK, MainTypeOK
<1>2. UNCHANGED <<sentAtomic, failedAtomic>> /\ WithinRead
  BY DEF MainStep, BreakLoop, MetricsListenFails, StatusTick, ReadSent,
         ReadFailed, LogReport, counterVars, Running, ReportInv
<1>t. /\ \A h : TargetsOf(h)' = TargetsOf(h)
      /\ \A h : TargetsOf(h) \subseteq Targets
      /\ SentRead \subseteq Targets /\ FailedRead \subseteq Targets
  BY DEF TargetsOf, SentRead, FailedRead
<1>s. ASSUME NEW S \in SUBSET Targets
      PROVE  /\ SumFunctionOnSet(sentAtomic, S) \in Nat
             /\ SumFunctionOnSet(failedAtomic, S) \in Nat
             /\ \A t \in S : /\ SumFunctionOnSet(sentAtomic, S)
                                  = sentAtomic[t] + SumFunctionOnSet(sentAtomic, S \ {t})
                             /\ SumFunctionOnSet(failedAtomic, S)
                                  = failedAtomic[t] + SumFunctionOnSet(failedAtomic, S \ {t})
  BY <1>1, CountsAddUp
<1>3. CASE StatusTick \/ BreakLoop
  <2>1. /\ UNCHANGED <<idx, acc, totalSent, prevSent>>
        /\ mpc = "select" /\ mpc' = "readSent"
    BY <1>3 DEF StatusTick, BreakLoop
  <2>2. SentRead' = SentRead /\ FailedRead' = FailedRead
    BY <2>1 DEF SentRead, FailedRead
  <2>. QED
    BY <1>2, <1>t, <2>1, <2>2 DEF WithinRead
<1>4. CASE ReadSent
  <2>. DEFINE h0 == HostOf[idx]
  <2>1. /\ UNCHANGED <<idx, prevSent>> /\ idx \in Targets /\ h0 \in Hosts
        /\ mpc = "readSent" /\ mpc' = "readFailed"
        /\ totalSent' = totalSent + sentAtomic[idx]
        /\ \A h \in Hosts : acc'[h].failed = acc[h].failed
        /\ \A h \in Hosts :
              acc'[h].sent = IF h = h0 THEN acc[h].sent + sentAtomic[idx] ELSE acc[h].sent
    BY <1>1, <1>4, HostsAssumption DEF ReadSent, MainInv
  <2>2. /\ SentRead' = SentRead \cup {idx} /\ idx \notin SentRead
        /\ FailedRead' = FailedRead
    BY <1>1, <2>1 DEF SentRead, FailedRead, Targets
  <2>3. SumFunctionOnSet(sentAtomic, SentRead')
          = sentAtomic[idx] + SumFunctionOnSet(sentAtomic, SentRead)
    <3>1. SentRead' \in SUBSET Targets /\ SentRead' \ {idx} = SentRead /\ idx \in SentRead'
      BY <1>t, <2>1, <2>2
    <3>. QED
      BY <1>s, <3>1
  <2>4. SumFunctionOnSet(sentAtomic, Targets \ SentRead)
          = sentAtomic[idx] + SumFunctionOnSet(sentAtomic, Targets \ SentRead')
    <3>1. /\ Targets \ SentRead \in SUBSET Targets /\ idx \in Targets \ SentRead
          /\ Targets \ SentRead' = (Targets \ SentRead) \ {idx}
      BY <2>1, <2>2
    <3>. QED
      BY <1>s, <3>1
  <2>5. ASSUME NEW h \in Hosts
        PROVE  acc'[h].sent <= SumFunctionOnSet(sentAtomic, SentRead' \cap TargetsOf(h))
    <3>1. CASE h = h0
      <4>1. /\ SentRead' \cap TargetsOf(h) \in SUBSET Targets
            /\ idx \in SentRead' \cap TargetsOf(h)
            /\ (SentRead' \cap TargetsOf(h)) \ {idx} = SentRead \cap TargetsOf(h)
        BY <1>t, <2>1, <2>2, <3>1 DEF TargetsOf
      <4>2. SumFunctionOnSet(sentAtomic, SentRead' \cap TargetsOf(h))
              = sentAtomic[idx] + SumFunctionOnSet(sentAtomic, SentRead \cap TargetsOf(h))
        BY <1>s, <4>1
      <4>3. /\ SumFunctionOnSet(sentAtomic, SentRead \cap TargetsOf(h)) \in Nat
            /\ acc[h].sent \in Nat /\ sentAtomic[idx] \in Nat
            /\ acc[h].sent <= SumFunctionOnSet(sentAtomic, SentRead \cap TargetsOf(h))
        BY <1>1, <1>2, <1>s, <1>t, <2>1 DEF WithinRead
      <4>. QED
        BY <2>1, <3>1, <4>2, <4>3
    <3>2. CASE h # h0
      <4>1. SentRead' \cap TargetsOf(h) = SentRead \cap TargetsOf(h)
        BY <2>2, <3>2 DEF TargetsOf
      <4>. QED
        BY <1>2, <2>1, <3>2, <4>1 DEF WithinRead
    <3>. QED
      BY <3>1, <3>2
  <2>6. /\ totalSent' <= SumFunctionOnSet(sentAtomic, SentRead')
        /\ prevSent <= totalSent' + SumFunctionOnSet(sentAtomic, Targets \ SentRead')
    <3>1. /\ SumFunctionOnSet(sentAtomic, SentRead) \in Nat
          /\ SumFunctionOnSet(sentAtomic, Targets \ SentRead') \in Nat
          /\ sentAtomic[idx] \in Nat
      BY <1>1, <1>s, <1>t, <2>1
    <3>. QED
      BY <1>1, <1>2, <2>1, <2>3, <2>4, <3>1 DEF WithinRead
  <2>. QED
    BY <1>2, <1>t, <2>1, <2>2, <2>5, <2>6 DEF WithinRead
<1>5. CASE ReadFailed
  <2>. DEFINE h0 == HostOf[idx]
  <2>1. /\ UNCHANGED <<totalSent, prevSent>> /\ idx \in Targets /\ h0 \in Hosts
        /\ idx' = idx + 1 /\ mpc = "readFailed"
        /\ mpc' = IF idx = NumTargets THEN "log" ELSE "readSent"
        /\ \A h \in Hosts : acc'[h].sent = acc[h].sent
        /\ \A h \in Hosts :
              acc'[h].failed = IF h = h0 THEN acc[h].failed + failedAtomic[idx] ELSE acc[h].failed
    BY <1>1, <1>5, HostsAssumption DEF ReadFailed, MainInv
  <2>2. /\ SentRead' = SentRead
        /\ FailedRead' = FailedRead \cup {idx} /\ idx \notin FailedRead
    BY <1>1, <2>1 DEF SentRead, FailedRead, Targets
  <2>3. ASSUME NEW h \in Hosts
        PROVE  acc'[h].failed <= SumFunctionOnSet(failedAtomic, FailedRead' \cap TargetsOf(h))
    <3>1. CASE h = h0
      <4>1. /\ FailedRead' \cap TargetsOf(h) \in SUBSET Targets
            /\ idx \in FailedRead' \cap TargetsOf(h)
            /\ (FailedRead' \cap TargetsOf(h)) \ {idx} = FailedRead \cap TargetsOf(h)
        BY <1>t, <2>1, <2>2, <3>1 DEF TargetsOf
      <4>2. SumFunctionOnSet(failedAtomic, FailedRead' \cap TargetsOf(h))
              = failedAtomic[idx] + SumFunctionOnSet(failedAtomic, FailedRead \cap TargetsOf(h))
        BY <1>s, <4>1
      <4>3. /\ SumFunctionOnSet(failedAtomic, FailedRead \cap TargetsOf(h)) \in Nat
            /\ acc[h].failed \in Nat /\ failedAtomic[idx] \in Nat
            /\ acc[h].failed <= SumFunctionOnSet(failedAtomic, FailedRead \cap TargetsOf(h))
        BY <1>1, <1>2, <1>s, <1>t, <2>1 DEF WithinRead
      <4>. QED
        BY <2>1, <3>1, <4>2, <4>3
    <3>2. CASE h # h0
      <4>1. FailedRead' \cap TargetsOf(h) = FailedRead \cap TargetsOf(h)
        BY <2>2, <3>2 DEF TargetsOf
      <4>. QED
        BY <1>2, <2>1, <3>2, <4>1 DEF WithinRead
    <3>. QED
      BY <3>1, <3>2
  <2>. QED
    BY <1>2, <1>t, <2>1, <2>2, <2>3 DEF WithinRead
<1>6. CASE LogReport
  <2>1. /\ mpc = "log" /\ mpc' = "select" /\ idx' = 1 /\ totalSent' = 0
        /\ prevSent' = totalSent /\ acc' = NoCounts /\ idx = NumTargets + 1
    BY <1>2, <1>6 DEF LogReport, Running, WithinRead
  <2>2. /\ SentRead = Targets /\ SentRead' = {} /\ FailedRead' = {}
        /\ Targets \ SentRead' = Targets
    BY <2>1, TargetsAssumption DEF SentRead, FailedRead, Targets
  <2>3. SumFunctionOnSet(sentAtomic, {}) = 0 /\ SumFunctionOnSet(failedAtomic, {}) = 0
    BY SumOfNothing
  <2>4. \A h \in Hosts : acc'[h].sent = 0 /\ acc'[h].failed = 0
    BY <2>1 DEF NoCounts
  <2>5. SumFunctionOnSet(sentAtomic, Targets) \in Nat
    BY <1>s
  <2>6. totalSent <= SumFunctionOnSet(sentAtomic, Targets)
    BY <1>2, <2>2 DEF WithinRead
  <2>7. \A h : SentRead' \cap TargetsOf(h) = {} /\ FailedRead' \cap TargetsOf(h) = {}
    BY <2>2
  <2>. QED
    BY <1>1, <1>2, <1>t, <2>1, <2>2, <2>3, <2>4, <2>5, <2>6, <2>7 DEF WithinRead
<1>7. CASE MetricsListenFails
  BY <1>7 DEF MetricsListenFails, Running
<1>. QED
  BY <1>3, <1>4, <1>5, <1>6, <1>7 DEF MainStep

LEMMA ReportStep == RoundsInv /\ ReportInv /\ [Next]_vars => ReportInv'
<1>. SUFFICES ASSUME RoundsInv, ReportInv, [Next]_vars PROVE ReportInv'
  OBVIOUS
<1>1. CASE MainStep \/ BreakLoop \/ MetricsListenFails
  BY <1>1, MainKeepsReport
<1>2. CASE ~(MainStep \/ BreakLoop \/ MetricsListenFails)
  <2>1. UNCHANGED mainVars
    BY <1>2 DEF Next, vars, Signal, Tick, WorkerStep, WorkerStop, StartRound, Spawn,
         WaitReturns, RequestStep, NewRequestFails, SendRequest, SendCancelled,
         DoReturns, AddSent, IncSent, AddFailed, IncFailed, DrainBody, WgDone, Exited
  <2>. QED
    BY <2>1, OthersKeepReport
<1>. QED
  BY <1>1, <1>2

\* A status line is read while requests are being counted, one target after the
\* other, and still the total is never below the one before (the rate it logs
\* is not negative) and no host is reported to have received or failed more
\* than has been counted for it.
THEOREM ReportsStayWithinCounts == Spec => []ReportWithinCounts
<1>1. Init => ReportInv
  <2>. SUFFICES ASSUME Init PROVE WithinRead
    BY DEF ReportInv
  <2>1. /\ mpc = "select" /\ idx = 1 /\ totalSent = 0 /\ prevSent = 0
        /\ \A h \in Hosts : acc[h].sent = 0 /\ acc[h].failed = 0
    BY DEF Init, NoCounts
  <2>2. /\ sentAtomic \in [Targets -> Nat] /\ failedAtomic \in [Targets -> Nat]
    BY DEF Init
  <2>3. SentRead \subseteq Targets /\ FailedRead \subseteq Targets
    BY DEF SentRead, FailedRead
  <2>4. ASSUME NEW S \in SUBSET Targets
        PROVE  SumFunctionOnSet(sentAtomic, S) \in Nat /\ SumFunctionOnSet(failedAtomic, S) \in Nat
    BY <2>2, CountsAddUp
  <2>5. /\ SumFunctionOnSet(sentAtomic, SentRead) \in Nat
        /\ SumFunctionOnSet(sentAtomic, Targets \ SentRead) \in Nat
        /\ \A h \in Hosts :
              /\ SumFunctionOnSet(sentAtomic, SentRead \cap TargetsOf(h)) \in Nat
              /\ SumFunctionOnSet(failedAtomic, FailedRead \cap TargetsOf(h)) \in Nat
    BY <2>3, <2>4
  <2>. QED
    BY <2>1, <2>5 DEF WithinRead
<1>2. RoundsInv /\ ReportInv => ReportWithinCounts
  <2>. SUFFICES ASSUME RoundsInv, ReportInv, mpc = "log"
                PROVE  /\ totalSent >= prevSent
                       /\ \A h \in Hosts : /\ acc[h].sent <= AtomicsOf(h, sentAtomic)
                                           /\ acc[h].failed <= AtomicsOf(h, failedAtomic)
    BY DEF ReportWithinCounts
  <2>1. WithinRead /\ idx = NumTargets + 1
    BY DEF ReportInv, Running, WithinRead
  <2>2. /\ SentRead = Targets /\ FailedRead = Targets /\ Targets \ SentRead = {}
        /\ \A h : Targets \cap TargetsOf(h) = TargetsOf(h)
    BY <2>1, TargetsAssumption DEF SentRead, FailedRead, Targets, TargetsOf
  <2>3. SumFunctionOnSet(sentAtomic, {}) = 0
    BY SumOfNothing
  <2>4. totalSent \in Nat /\ prevSent \in Nat
    BY DEF RoundsInv, TypeOK, MainTypeOK
  <2>5. \A h \in Hosts :
           /\ AtomicsOf(h, sentAtomic) = SumFunctionOnSet(sentAtomic, TargetsOf(h))
           /\ AtomicsOf(h, failedAtomic) = SumFunctionOnSet(failedAtomic, TargetsOf(h))
    BY DEF AtomicsOf, TargetsOf
  <2>. QED
    BY <2>1, <2>2, <2>3, <2>4, <2>5 DEF WithinRead
<1>. QED
  BY <1>1, <1>2, RoundsAlways, ReportStep, PTL DEF Spec
===============================================================================
