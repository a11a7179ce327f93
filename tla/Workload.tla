------------------------------- MODULE Workload -------------------------------
(* The simulated work behind the comparison: the endpoints table of          *)
(* cmd/client and, in each of the three apps, the routes and the handlers of *)
(* the 50 paths, which sleep for a mean of their own, give or take a tenth.  *)
(* A round sends one path to every app and waits for all of them.  Times are *)
(* milliseconds.  The names of the specification begin with Work, so that it *)
(* can stand beside another.                                                 *)
EXTENDS Integers, FiniteSets, FiniteSetsExt

CONSTANTS
    Stride,     \* bound: of the draws, every Stride-th and the last; 1 in the code
    MaxRounds   \* bound: rounds sent

ASSUME BoundsAssumption == Stride \in Nat \ {0} /\ MaxRounds \in Nat

Apps == {"prometheus", "otel", "uninstrumented"}

\* The endpoints table: "/api/api1" to "/api/api50", all of them GET.
endpoints == 1 .. 50

NoPath == 0

\* handleAPI1 to handleAPI50: the argument of simulateLatency.
prometheusMeans ==
    <<32, 73, 140, 306, 20, 39, 80, 147, 314, 17, 46, 88, 154, 321, 24, 54, 96,
      162, 328, 12, 42, 103, 170, 336, 20, 49, 110, 177, 344, 17, 56, 88, 184,
      351, 24, 64, 96, 192, 358, 12, 32, 103, 160, 366, 20, 39, 110, 167, 374,
      17>>

\* Mutant of otelMeans: one handler edited, 32 for 42.
otelMeansSlip == [prometheusMeans EXCEPT ![21] = 32]

otelMeans ==
    <<32, 73, 140, 306, 20, 39, 80, 147, 314, 17, 46, 88, 154, 321, 24, 54, 96,
      162, 328, 12, 42, 103, 170, 336, 20, 49, 110, 177, 344, 17, 56, 88, 184,
      351, 24, 64, 96, 192, 358, 12, 32, 103, 160, 366, 20, 39, 110, 167, 374,
      17>>

uninstrumentedMeans ==
    <<32, 73, 140, 306, 20, 39, 80, 147, 314, 17, 46, 88, 154, 321, 24, 54, 96,
      162, 328, 12, 42, 103, 170, 336, 20, 49, 110, 177, 344, 17, 56, 88, 184,
      351, 24, 64, 96, 192, 358, 12, 32, 103, 160, 366, 20, 39, 110, 167, 374,
      17>>

\* The handler each app's mux has registered for a path, by its number.
prometheusRoutes(p) == p
otelRoutes(p) == p
uninstrumentedRoutes(p) == p

meanOf(app, p) ==
    IF app = "prometheus" THEN prometheusMeans[prometheusRoutes(p)]
    ELSE IF app = "otel" THEN otelMeans[otelRoutes(p)]
    ELSE uninstrumentedMeans[uninstrumentedRoutes(p)]

jitterOf(meanMillis) == IF meanMillis \div 10 < 1 THEN 1 ELSE meanMillis \div 10

\* rand.IntN(2*jitter + 1)
draws(jitter) == {n \in 0 .. 2 * jitter : n = 2 * jitter \/ n % Stride = 0}

\* Mutant of simulateLatency: the lower end is the mean itself.
simulateLatencyUpwards(meanMillis) ==
    {meanMillis + n : n \in draws(jitterOf(meanMillis))}

simulateLatency(meanMillis) ==
    {meanMillis - jitterOf(meanMillis) + n : n \in draws(jitterOf(meanMillis))}

VARIABLES
    path,      \* the path of the round under way
    pending,   \* the apps that have not answered it
    elapsed,   \* elapsed[app]: how long app took for the round, so far 0
    work,      \* work[app]: time app has spent on the rounds that have ended
    rounds     \* rounds sent (bounded by MaxRounds)

workVars == <<path, pending, elapsed, work, rounds>>

WorkTypeOK ==
    /\ path \in endpoints \cup {NoPath}
    /\ pending \subseteq Apps
    /\ elapsed \in [Apps -> Nat]
    /\ work \in [Apps -> Nat]
    /\ rounds \in Nat

WorkInit ==
    /\ path = NoPath
    /\ pending = {}
    /\ elapsed = [app \in Apps |-> 0]
    /\ work = [app \in Apps |-> 0]
    /\ rounds = 0

\* ep := endpoints[rand.IntN(len(endpoints))], sent to every app.
Round(p) ==
    /\ path = NoPath
    /\ rounds < MaxRounds
    /\ path' = p
    /\ pending' = Apps
    /\ elapsed' = [app \in Apps |-> 0]
    /\ rounds' = rounds + 1
    /\ UNCHANGED work

handleAPI(app) ==
    /\ app \in pending
    /\ pending' = pending \ {app}
    /\ \E v \in simulateLatency(meanOf(app, path)) :
          elapsed' = [elapsed EXCEPT ![app] = v]
    /\ UNCHANGED <<path, work, rounds>>

\* The round ends when every app has answered.
RoundEnds ==
    /\ path # NoPath
    /\ pending = {}
    /\ path' = NoPath
    /\ work' = [app \in Apps |-> work[app] + elapsed[app]]
    /\ UNCHANGED <<pending, elapsed, rounds>>

\* No further round is sent (the bound is reached).
NoMoreRounds == path = NoPath /\ rounds = MaxRounds /\ UNCHANGED workVars

WorkNext ==
    \/ \E p \in endpoints : Round(p)
    \/ \E app \in Apps : handleAPI(app)
    \/ RoundEnds
    \/ NoMoreRounds

WorkSpec == WorkInit /\ [][WorkNext]_workVars

-------------------------------------------------------------------------------
(* Properties. *)

\* The three apps do the same work: whatever rounds are sent and however the
\* jitter falls, the time one has spent in its handlers exceeds another's by
\* no more than the two tenths of the jitter.  A slip in one of the 150
\* handlers or routes would be charged to an instrumentation.
EvenWork == \A a, b \in Apps : 9 * work[a] <= 11 * work[b]

\* "Boundaries are sized to simulateLatency's actual range (roughly
\* 11ms-411ms)": no handler sleeps less or longer, so the two buckets at the
\* ends, up to 10 ms and above 500 ms, are left to scheduling delays.
LatenciesInRange ==
    \A app \in Apps : elapsed[app] # 0 => elapsed[app] \in 11 .. 411
===============================================================================
