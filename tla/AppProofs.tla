------------------------------ MODULE AppProofs ------------------------------
(* Theorems about the apps.  First of RequestInstrument, for any number of    *)
(* concurrent requests, any shards and any durations; at the end of Workload, *)
(* for any number of rounds and any draws.                                   *)
EXTENDS RequestInstrument, Workload, SumTheorems

\* Requests between the gauge's two steps, and between the atomic's.
Gauged == At(PCs \ {"idle", "sub"})
Counted == At(PCs \ {"idle", "add"})

\* Where the requests are, and the two counters.
CountersInv ==
    /\ pc \in [Requests -> PCs]
    /\ InFlightExact

\* The counted sets are finite and have natural cardinalities.
LEMMA CountedFinite ==
    /\ IsFiniteSet(Gauged) /\ Cardinality(Gauged) \in Nat
    /\ IsFiniteSet(Counted) /\ Cardinality(Counted) \in Nat
<1>1. Gauged \subseteq Requests /\ Counted \subseteq Requests
  BY DEF Gauged, Counted, At
<1>. QED
  BY <1>1, RequestsAssumption, FS_Subset, FS_CardinalityType

-------------------------------------------------------------------------------

\* A step of one goroutine that enters or leaves neither counted set.
LEMMA SetsKept ==
    ASSUME NEW r \in Requests, NEW from \in PCs, NEW to \in PCs,
           pc \in [Requests -> PCs], Goto(r, from, to),
           from \notin {"idle", "add", "dec", "sub"},
           to \notin {"idle", "add", "sub"}
    PROVE  Gauged' = Gauged /\ Counted' = Counted /\ pc' \in [Requests -> PCs]
BY DEF Goto, Gauged, Counted, At

\* Every step keeps the two counters exact: they move with the requests that
\* enter and leave the sets they count.
LEMMA CountersStep == CountersInv /\ [Next]_vars => CountersInv'
<1>. SUFFICES ASSUME CountersInv, [Next]_vars PROVE CountersInv'
  OBVIOUS
<1>i. /\ pc \in [Requests -> PCs]
      /\ requestsInFlight = Cardinality(Gauged)
      /\ inflight = Cardinality(Counted)
  BY DEF CountersInv, InFlightExact, Gauged, Counted
<1>s. SUFFICES /\ pc' \in [Requests -> PCs]
               /\ requestsInFlight' = Cardinality(Gauged')
               /\ inflight' = Cardinality(Counted')
  BY DEF CountersInv, InFlightExact, Gauged, Counted
<1>f. /\ IsFiniteSet(Gauged) /\ Cardinality(Gauged) \in Nat
      /\ IsFiniteSet(Counted) /\ Cardinality(Counted) \in Nat
  BY CountedFinite
<1>1. CASE UNCHANGED vars
  BY <1>i, <1>1 DEF vars, Gauged, Counted, At
<1>2. ASSUME NEW r \in Requests, NEW s \in Shards, Enter(r, s)
      PROVE  /\ pc' \in [Requests -> PCs]
             /\ requestsInFlight' = Cardinality(Gauged')
             /\ inflight' = Cardinality(Counted')
  <2>. USE <1>2 DEF Enter, Goto
  <2>1. /\ r \notin Gauged /\ Gauged' = Gauged \cup {r}
        /\ Counted' = Counted
        /\ pc' \in [Requests -> PCs]
    BY <1>i DEF Gauged, Counted, At, PCs
  <2>2. Cardinality(Gauged') = Cardinality(Gauged) + 1
    BY <1>f, <2>1, FS_AddElement
  <2>. QED
    BY <1>i, <2>1, <2>2
<1>3. ASSUME NEW r \in Requests, AddInflight(r)
      PROVE  /\ pc' \in [Requests -> PCs]
             /\ requestsInFlight' = Cardinality(Gauged')
             /\ inflight' = Cardinality(Counted')
  <2>. USE <1>3 DEF AddInflight, Goto
  <2>1. /\ r \notin Counted /\ Counted' = Counted \cup {r}
        /\ Gauged' = Gauged
        /\ pc' \in [Requests -> PCs]
    BY <1>i DEF Gauged, Counted, At, PCs
  <2>2. Cardinality(Counted') = Cardinality(Counted) + 1
    BY <1>f, <2>1, FS_AddElement
  <2>. QED
    BY <1>i, <2>1, <2>2
<1>4. ASSUME NEW r \in Requests,
             \/ \E v \in Durations, n \in Sizes : Serve(r, v, n)
             \/ Record(r)
      PROVE  /\ pc' \in [Requests -> PCs]
             /\ requestsInFlight' = Cardinality(Gauged')
             /\ inflight' = Cardinality(Counted')
  <2>1. \E from, to \in PCs :
           /\ Goto(r, from, to)
           /\ from \notin {"idle", "add", "dec", "sub"}
           /\ to \notin {"idle", "add", "sub"}
    BY <1>4 DEF Serve, Record, Observe, CountTotal, AddDuration, CountDuration,
         AddSize, SetLastDuration, CountBucket, CountLevel, CountClass, PCs
  <2>2. UNCHANGED <<requestsInFlight, inflight>>
    BY <1>4 DEF Serve, Record
  <2>. QED
    BY <1>i, <2>1, <2>2, SetsKept
<1>5. ASSUME NEW r \in Requests, LeaveGauge(r)
      PROVE  /\ pc' \in [Requests -> PCs]
             /\ requestsInFlight' = Cardinality(Gauged')
             /\ inflight' = Cardinality(Counted')
  <2>. USE <1>5 DEF LeaveGauge, Goto
  <2>1. /\ r \in Gauged /\ Gauged' = Gauged \ {r}
        /\ Counted' = Counted
        /\ pc' \in [Requests -> PCs]
    BY <1>i DEF Gauged, Counted, At, PCs
  <2>2. Cardinality(Gauged') = Cardinality(Gauged) - 1
    BY <1>f, <2>1, FS_RemoveElement
  <2>. QED
    BY <1>i, <2>1, <2>2
<1>6. ASSUME NEW r \in Requests, LeaveInflight(r)
      PROVE  /\ pc' \in [Requests -> PCs]
             /\ requestsInFlight' = Cardinality(Gauged')
             /\ inflight' = Cardinality(Counted')
  <2>. USE <1>6 DEF LeaveInflight, Goto
  <2>1. /\ r \in Counted /\ Counted' = Counted \ {r}
        /\ Gauged' = Gauged
        /\ pc' \in [Requests -> PCs]
    BY <1>i DEF Gauged, Counted, At, PCs
  <2>2. Cardinality(Counted') = Cardinality(Counted) - 1
    BY <1>f, <2>1, FS_RemoveElement
  <2>. QED
    BY <1>i, <2>1, <2>2
<1>. QED
  BY <1>1, <1>2, <1>3, <1>4, <1>5, <1>6 DEF Next, Arrive, Finish, Quiet

LEMMA CountersInit == Init => CountersInv
<1>. SUFFICES ASSUME Init PROVE CountersInv
  OBVIOUS
<1>1. At(PCs \ {"idle", "sub"}) = {} /\ At(PCs \ {"idle", "add"}) = {}
  BY DEF Init, At
<1>2. pc \in [Requests -> PCs]
  BY DEF Init, PCs
<1>. QED
  BY <1>1, <1>2, FS_EmptySet DEF Init, CountersInv, InFlightExact

\* The in-flight gauge and the atomic behind it count exactly the requests
\* between their steps, however many requests overlap.
THEOREM InFlightAlwaysExact == Spec => []InFlightExact
<1>1. Init => CountersInv BY CountersInit
<1>2. CountersInv => InFlightExact
  BY DEF CountersInv
<1>. QED
  BY <1>1, <1>2, CountersStep, PTL DEF Spec

-------------------------------------------------------------------------------
(* The levels. *)

\* What LevelsByRank rests on: a level is the count of the requests in flight
\* when it was drawn.
LevelsInv ==
    /\ CountersInv
    /\ req \in [Requests -> RequestRecord]
    /\ \A n \in Nat : Cardinality(UpToLevel(n)) <= n

\* Requests that leave, or stay with their level, do not break the bound.
LEMMA FewerUpToLevel ==
    ASSUME NEW n \in Nat, Cardinality(UpToLevel(n)) <= n,
           UpToLevel(n)' \subseteq UpToLevel(n)
    PROVE  Cardinality(UpToLevel(n)') <= n
<1>1. UpToLevel(n) \subseteq Requests BY DEF UpToLevel, At
<1>2. IsFiniteSet(UpToLevel(n)) BY <1>1, RequestsAssumption, FS_Subset
<1>3. /\ IsFiniteSet(UpToLevel(n)')
      /\ Cardinality(UpToLevel(n)') <= Cardinality(UpToLevel(n))
  BY <1>2, FS_Subset
<1>. QED BY <1>2, <1>3, FS_CardinalityType

\* A new request's level is the size of the set it joins.
LEMMA AddKeepsLevels ==
    ASSUME LevelsInv, CountersInv', NEW r \in Requests, AddInflight(r)
    PROVE  LevelsInv'
<1>1. inflight = Cardinality(Counted) /\ inflight' = Cardinality(Counted')
  BY DEF LevelsInv, CountersInv, InFlightExact, Counted
<1>2. inflight \in Nat BY <1>1, CountedFinite
<1>3. req' \in [Requests -> RequestRecord]
  BY <1>2 DEF LevelsInv, AddInflight, RequestRecord
<1>4. req'[r].level = inflight + 1
  BY DEF LevelsInv, AddInflight, RequestRecord
<1>5. IsFiniteSet(Counted')
  <2>1. Counted' \subseteq Requests BY DEF Counted, At
  <2>. QED BY <2>1, RequestsAssumption, FS_Subset
<1>6. ASSUME NEW n \in Nat PROVE Cardinality(UpToLevel(n)') <= n
  <2>1. CASE inflight + 1 <= n
    <3>1. UpToLevel(n)' \subseteq Counted' BY DEF UpToLevel, Counted
    <3>2. /\ IsFiniteSet(UpToLevel(n)')
          /\ Cardinality(UpToLevel(n)') <= Cardinality(Counted')
      BY <3>1, <1>5, FS_Subset
    <3>. QED BY <1>1, <1>2, <2>1, <3>2, FS_CardinalityType DEF AddInflight
  <2>2. CASE ~(inflight + 1 <= n)
    <3>1. r \notin UpToLevel(n)' BY <1>2, <1>4, <2>2 DEF UpToLevel
    <3>2. UpToLevel(n)' \subseteq UpToLevel(n)
      BY <3>1 DEF UpToLevel, At, AddInflight, Goto, LevelsInv, CountersInv,
         RequestRecord
    <3>. QED BY <3>2, FewerUpToLevel DEF LevelsInv
  <2>. QED BY <2>1, <2>2
<1>. QED BY <1>3, <1>6 DEF LevelsInv

\* The handler's return keeps the record's type and its level.
LEMMA ServeRecord ==
    ASSUME req \in [Requests -> RequestRecord], NEW r \in Requests,
           \E v \in Durations, n \in Sizes : Serve(r, v, n)
    PROVE  /\ req' \in [Requests -> RequestRecord]
           /\ \A q \in Requests : req'[q].level = req[q].level
<1>1. PICK v \in Durations, n \in Sizes : Serve(r, v, n)
  OBVIOUS
<1>. DEFINE timed == [req EXCEPT ![r] = [req[r] EXCEPT !.elapsed = v]]
<1>2. req' = [timed EXCEPT ![r] = [timed[r] EXCEPT !.bytes = n]]
  BY <1>1 DEF Serve
<1>3. /\ timed \in [Requests -> RequestRecord]
      /\ \A q \in Requests : timed[q].level = req[q].level
  BY ValuesAssumption DEF RequestRecord
<1>. HIDE DEF timed
<1>. QED BY <1>2, <1>3, ValuesAssumption DEF RequestRecord

\* No other step adds a request to those counted or changes a level.
LEMMA OthersKeepLevels ==
    ASSUME LevelsInv, CountersInv', NEW r \in Requests,
           \/ Arrive(r)
           \/ \E v \in Durations, n \in Sizes : Serve(r, v, n)
           \/ Record(r)
           \/ LeaveGauge(r)
           \/ LeaveInflight(r)
    PROVE  LevelsInv'
<1>1. req' \in [Requests -> RequestRecord]
  <2>1. CASE Arrive(r)
    BY <2>1 DEF LevelsInv, Arrive, Enter, RequestRecord
  <2>2. CASE \E v \in Durations, n \in Sizes : Serve(r, v, n)
    BY <2>2, ServeRecord DEF LevelsInv
  <2>3. CASE Record(r) \/ LeaveGauge(r)
    BY <2>3 DEF LevelsInv, Record, LeaveGauge
  <2>4. CASE LeaveInflight(r)
    <3>1. NoRequest \in RequestRecord
      BY ShardsAssumption DEF NoRequest, RequestRecord
    <3>. QED BY <3>1, <2>4 DEF LevelsInv, LeaveInflight
  <2>. QED BY <2>1, <2>2, <2>3, <2>4
<1>2. ASSUME NEW n \in Nat PROVE UpToLevel(n)' \subseteq UpToLevel(n)
  <2>1. CASE Arrive(r)
    BY <2>1 DEF LevelsInv, CountersInv, Arrive, Enter, Goto, UpToLevel, At,
       RequestRecord
  <2>2. CASE \E v \in Durations, k \in Sizes : Serve(r, v, k)
    <3>1. \A q \in Requests : req'[q].level = req[q].level
      BY <2>2, ServeRecord DEF LevelsInv
    <3>2. \A q \in Requests : pc'[q] \notin {"idle", "add"} =>
                              pc[q] \notin {"idle", "add"}
      BY <2>2 DEF LevelsInv, CountersInv, Serve, Goto
    <3>3. pc \in [Requests -> PCs] BY DEF LevelsInv, CountersInv
    <3>. QED BY <3>1, <3>2, <3>3 DEF UpToLevel, At
  <2>3. CASE Record(r) \/ LeaveGauge(r)
    <3>1. req' = req /\ \A q \in Requests : pc'[q] \notin {"idle", "add"} =>
                                            pc[q] \notin {"idle", "add"}
      BY <2>3 DEF LevelsInv, CountersInv, LeaveGauge, Record, Observe, CountTotal,
         AddDuration, CountDuration, AddSize, SetLastDuration, CountBucket,
         CountLevel, CountClass, Goto
    <3>2. pc \in [Requests -> PCs] BY DEF LevelsInv, CountersInv
    <3>. QED BY <3>1, <3>2 DEF UpToLevel, At
  <2>4. CASE LeaveInflight(r)
    BY <2>4 DEF LevelsInv, CountersInv, LeaveInflight, Goto, UpToLevel, At
  <2>. QED BY <2>1, <2>2, <2>3, <2>4
<1>. QED BY <1>1, <1>2, FewerUpToLevel DEF LevelsInv

LEMMA LevelsStep == LevelsInv /\ [Next]_vars => LevelsInv'
<1>. SUFFICES ASSUME LevelsInv, [Next]_vars PROVE LevelsInv'
  OBVIOUS
<1>1. CountersInv' BY CountersStep DEF LevelsInv
<1>2. CASE UNCHANGED vars
  BY <1>1, <1>2 DEF LevelsInv, UpToLevel, At, vars
<1>3. CASE Quiet
  BY <1>1, <1>3 DEF LevelsInv, UpToLevel, At, vars, Quiet
<1>4. ASSUME NEW r \in Requests, Arrive(r) \/ Finish(r) PROVE LevelsInv'
  BY <1>1, <1>4, AddKeepsLevels, OthersKeepLevels DEF Finish
<1>. QED
  BY <1>2, <1>3, <1>4 DEF Next

\* Of the requests in flight on a path at most n have a level up to n, however
\* many there are and in whatever order they come and go.
THEOREM LevelsStayRanked == Spec => []LevelsByRank
<1>1. Init => LevelsInv
  <2>. SUFFICES ASSUME Init PROVE LevelsInv
    OBVIOUS
  <2>1. CountersInv BY CountersInit
  <2>2. req \in [Requests -> RequestRecord]
    BY ShardsAssumption DEF Init, NoRequest, RequestRecord
  <2>3. \A n : UpToLevel(n) = {} BY DEF Init, UpToLevel, At
  <2>. QED BY <2>1, <2>2, <2>3, FS_EmptySet DEF LevelsInv
<1>2. LevelsInv => LevelsByRank
  <2>1. Cardinality(Requests) \in Nat
    BY RequestsAssumption, FS_CardinalityType
  <2>. QED BY <2>1 DEF LevelsInv, LevelsByRank
<1>. QED
  BY <1>1, <1>2, LevelsStep, PTL DEF Spec

-------------------------------------------------------------------------------
(* The classifications. *)

\* The hand-written bucket label is the first bucket of the histogram that
\* counts the duration: the two agree for every duration and at every boundary.
THEOREM LabelsAgree ==
    \A v \in Nat, le \in Les : CountsIn(v, le) <=> latencyBucketLabel(v) <= le
<1>. SUFFICES ASSUME NEW v \in Nat
     PROVE \A le \in Les : CountsIn(v, le) <=> latencyBucketLabel(v) <= le
  OBVIOUS
<1>. DEFINE S == {i \in 1 .. 8 : v <= durationBuckets[i]} \cup {9}
<1>1. latencyBucketLabel(v) = Min(S)
  BY DEF latencyBucketLabel, durationBuckets
<1>2. PICK k \in S : \A i \in S : k <= i
  BY DEF durationBuckets
<1>3. Min(S) = k
  BY <1>2 DEF Min
<1>. QED
  BY <1>1, <1>2, <1>3 DEF Les, CountsIn, durationBuckets

\* The outcome classes are unions of buckets, but for a duration exactly on a
\* threshold, which the histogram counts below it and the class above it.
THEOREM ClassesAreBuckets ==
    \A v \in Nat :
        /\ outcomeClassLabel(v) = "normal" <=> CountsIn(v, 4) /\ v # 100
        /\ outcomeClassLabel(v) \in {"normal", "slow"}
             <=> CountsIn(v, 6) /\ v # 250
BY DEF outcomeClassLabel, CountsIn, durationBuckets
-------------------------------------------------------------------------------
(* The types. *)

\* The labels are those of the instruments' vectors.
LEMMA LabelsTyped ==
    ASSUME NEW v \in Nat
    PROVE  /\ latencyBucketLabel(v) \in Les
           /\ concurrencyLevelLabel(v) \in Levels
           /\ outcomeClassLabel(v) \in Classes
<1>1. latencyBucketLabel(v) \in Les
  <2>. DEFINE S == {i \in 1 .. 8 : v <= durationBuckets[i]} \cup {9}
  <2>1. latencyBucketLabel(v) = Min(S)
    BY DEF latencyBucketLabel, durationBuckets
  <2>2. PICK k \in S : \A i \in S : k <= i
    BY DEF durationBuckets
  <2>3. Min(S) = k
    BY <2>2 DEF Min
  <2>. QED
    BY <2>1, <2>2, <2>3 DEF Les, durationBuckets
<1>2. concurrencyLevelLabel(v) \in Levels
  BY DEF concurrencyLevelLabel, Levels
<1>3. outcomeClassLabel(v) \in Classes
  BY DEF outcomeClassLabel, Classes
<1>. QED
  BY <1>1, <1>2, <1>3

\* A step on any of the nine instruments keeps their types.
LEMMA RecordTyped ==
    ASSUME m \in Metrics, req \in [Requests -> RequestRecord],
           NEW r \in Requests, Record(r)
    PROVE  m' \in Metrics
<1>. DEFINE s == req[r].shard
<1>1. s \in Shards /\ req[r].elapsed \in Nat /\ req[r].bytes \in Nat /\ req[r].level \in Nat
  BY DEF RequestRecord
<1>. HIDE DEF s
<1>2. CASE Observe(r)
  <2>. DEFINE h == [le \in Les |-> IF CountsIn(req[r].elapsed, le)
                                   THEN m.requestDuration[le] + 1 ELSE m.requestDuration[le]]
              n == m.requestDurationSum + req[r].elapsed
  <2>1. h \in [Les -> Nat] /\ n \in Nat
    BY <1>1 DEF Metrics
  <2>2. m' = [m EXCEPT !.requestDuration = h, !.requestDurationSum = n]
    BY <1>2 DEF Observe
  <2>. HIDE DEF h, n
  <2>. QED
    BY <2>1, <2>2 DEF Metrics
<1>3. CASE CountTotal(r)
  <2>1. m.requestsTotal + 1 \in Nat
    BY DEF Metrics
  <2>2. m' = [m EXCEPT !.requestsTotal = m.requestsTotal + 1]
    BY <1>3 DEF CountTotal
  <2>. QED
    BY <2>1, <2>2 DEF Metrics
<1>4. CASE AddDuration(r)
  <2>1. [m.durationSum EXCEPT ![s] = @ + req[r].elapsed] \in [Shards -> Nat]
    BY <1>1 DEF Metrics
  <2>2. m' = [m EXCEPT !.durationSum = [m.durationSum EXCEPT ![s] = @ + req[r].elapsed]]
    BY <1>4 DEF AddDuration, s
  <2>. QED
    BY <2>1, <2>2 DEF Metrics
<1>5. CASE CountDuration(r)
  <2>1. [m.durationCount EXCEPT ![s] = @ + 1] \in [Shards -> Nat]
    BY <1>1 DEF Metrics
  <2>2. m' = [m EXCEPT !.durationCount = [m.durationCount EXCEPT ![s] = @ + 1]]
    BY <1>5 DEF CountDuration, s
  <2>. QED
    BY <2>1, <2>2 DEF Metrics
<1>6. CASE AddSize(r)
  <2>1. [m.responseSize EXCEPT ![s] = @ + req[r].bytes] \in [Shards -> Nat]
    BY <1>1 DEF Metrics
  <2>2. m' = [m EXCEPT !.responseSize = [m.responseSize EXCEPT ![s] = @ + req[r].bytes]]
    BY <1>6 DEF AddSize, s
  <2>. QED
    BY <2>1, <2>2 DEF Metrics
<1>7. CASE SetLastDuration(r)
  <2>1. [m.lastDuration EXCEPT ![s] = req[r].elapsed] \in [Shards -> Nat]
    BY <1>1 DEF Metrics
  <2>2. m' = [m EXCEPT !.lastDuration = [m.lastDuration EXCEPT ![s] = req[r].elapsed]]
    BY <1>7 DEF SetLastDuration, s
  <2>. QED
    BY <2>1, <2>2 DEF Metrics
<1>8. CASE CountBucket(r)
  <2>. DEFINE l == latencyBucketLabel(req[r].elapsed)
  <2>1. l \in Les
    BY <1>1, LabelsTyped
  <2>. HIDE DEF l
  <2>2. [m.latencyBucket EXCEPT ![s][l] = @ + 1] \in [Shards -> [Les -> Nat]]
    BY <1>1, <2>1 DEF Metrics
  <2>3. m' = [m EXCEPT !.latencyBucket = [m.latencyBucket EXCEPT ![s][l] = @ + 1]]
    BY <1>8 DEF CountBucket, s, l
  <2>. QED
    BY <2>2, <2>3 DEF Metrics
<1>9. CASE CountLevel(r)
  <2>. DEFINE l == concurrencyLevelLabel(req[r].level)
  <2>1. l \in Levels
    BY <1>1, LabelsTyped
  <2>. HIDE DEF l
  <2>2. [m.concurrencyLevel EXCEPT ![s][l] = @ + 1] \in [Shards -> [Levels -> Nat]]
    BY <1>1, <2>1 DEF Metrics
  <2>3. m' = [m EXCEPT !.concurrencyLevel = [m.concurrencyLevel EXCEPT ![s][l] = @ + 1]]
    BY <1>9 DEF CountLevel, s, l
  <2>. QED
    BY <2>2, <2>3 DEF Metrics
<1>10. CASE CountClass(r)
  <2>. DEFINE l == outcomeClassLabel(req[r].elapsed)
  <2>1. l \in Classes
    BY <1>1, LabelsTyped
  <2>. HIDE DEF l
  <2>2. [m.outcomeClass EXCEPT ![s][l] = @ + 1] \in [Shards -> [Classes -> Nat]]
    BY <1>1, <2>1 DEF Metrics
  <2>3. m' = [m EXCEPT !.outcomeClass = [m.outcomeClass EXCEPT ![s][l] = @ + 1]]
    BY <1>10 DEF CountClass, s, l
  <2>. QED
    BY <2>2, <2>3 DEF Metrics
<1>. QED
  BY <1>2, <1>3, <1>4, <1>5, <1>6, <1>7, <1>8, <1>9, <1>10 DEF Record
\* Type correctness rests on the counters being exact: so neither of the two
\* that go down ever goes below zero.
TypesInv == TypeOK /\ CountersInv

LEMMA TypesStep == TypesInv /\ [Next]_vars => TypesInv'
<1>. SUFFICES ASSUME TypesInv, [Next]_vars PROVE TypesInv'
  OBVIOUS
<1>1. CountersInv'
  BY CountersStep DEF TypesInv
<1>2. pc' \in [Requests -> PCs] /\ requestsInFlight' \in Nat /\ inflight' \in Nat
  <2>1. Gauged' \subseteq Requests /\ Counted' \subseteq Requests
    BY DEF Gauged, Counted, At
  <2>2. Cardinality(Gauged') \in Nat /\ Cardinality(Counted') \in Nat
    BY <2>1, RequestsAssumption, FS_Subset, FS_CardinalityType
  <2>. QED
    BY <1>1, <2>2 DEF CountersInv, InFlightExact, Gauged, Counted
<1>3. /\ served \in [Requests -> Nat] /\ req \in [Requests -> RequestRecord]
      /\ m \in Metrics /\ returned \in [Shards -> Nat] /\ inflight \in Nat
  BY DEF TypesInv, TypeOK
<1>g. SUFFICES /\ served' \in [Requests -> Nat] /\ req' \in [Requests -> RequestRecord]
               /\ m' \in Metrics /\ returned' \in [Shards -> Nat]
  BY <1>1, <1>2 DEF TypesInv, TypeOK
<1>4. CASE UNCHANGED vars
  BY <1>3, <1>4 DEF vars
<1>5. ASSUME NEW r \in Requests, NEW s \in Shards, Enter(r, s)
      PROVE  /\ served' \in [Requests -> Nat] /\ req' \in [Requests -> RequestRecord]
             /\ m' \in Metrics /\ returned' \in [Shards -> Nat]
  BY <1>3, <1>5 DEF Enter, RequestRecord
<1>6. ASSUME NEW r \in Requests, AddInflight(r)
      PROVE  /\ served' \in [Requests -> Nat] /\ req' \in [Requests -> RequestRecord]
             /\ m' \in Metrics /\ returned' \in [Shards -> Nat]
  BY <1>3, <1>6 DEF AddInflight, RequestRecord
<1>7. ASSUME NEW r \in Requests, NEW v \in Durations, NEW n \in Sizes, Serve(r, v, n)
      PROVE  /\ served' \in [Requests -> Nat] /\ req' \in [Requests -> RequestRecord]
             /\ m' \in Metrics /\ returned' \in [Shards -> Nat]
  <2>1. req' \in [Requests -> RequestRecord]
    BY <1>3, <1>7, ServeRecord
  <2>2. returned' \in [Shards -> Nat]
    BY <1>3, <1>7, ValuesAssumption DEF Serve
  <2>. QED
    BY <1>3, <1>7, <2>1, <2>2 DEF Serve
<1>8. ASSUME NEW r \in Requests, Record(r)
      PROVE  /\ served' \in [Requests -> Nat] /\ req' \in [Requests -> RequestRecord]
             /\ m' \in Metrics /\ returned' \in [Shards -> Nat]
  <2>1. m' \in Metrics
    BY <1>3, <1>8, RecordTyped
  <2>. QED
    BY <1>3, <1>8, <2>1 DEF Record
<1>9. ASSUME NEW r \in Requests, LeaveGauge(r) \/ LeaveInflight(r)
      PROVE  /\ served' \in [Requests -> Nat] /\ req' \in [Requests -> RequestRecord]
             /\ m' \in Metrics /\ returned' \in [Shards -> Nat]
  <2>1. NoRequest \in RequestRecord
    BY ShardsAssumption DEF NoRequest, RequestRecord
  <2>. QED
    BY <1>3, <1>9, <2>1 DEF LeaveGauge, LeaveInflight
<1>. QED
  BY <1>4, <1>5, <1>6, <1>7, <1>8, <1>9 DEF Next, Arrive, Finish, Quiet

LEMMA TypesAlways == Spec => []TypesInv
<1>1. Init => TypesInv
  <2>. SUFFICES ASSUME Init PROVE TypesInv
    OBVIOUS
  <2>1. NoRequest \in RequestRecord
    BY ShardsAssumption DEF NoRequest, RequestRecord
  <2>2. newMetrics \in Metrics
    BY DEF newMetrics, Metrics
  <2>3. /\ pc \in [Requests -> PCs] /\ served \in [Requests -> Nat]
        /\ req \in [Requests -> RequestRecord]
        /\ requestsInFlight \in Nat /\ inflight \in Nat
        /\ m \in Metrics /\ returned \in [Shards -> Nat]
    BY <2>1, <2>2 DEF Init, PCs
  <2>. QED
    BY <2>3, CountersInit DEF TypesInv, TypeOK
<1>. QED
  BY <1>1, TypesStep, PTL DEF Spec

\* Type correctness: no count of the path is ever negative, and every label
\* is one of its instrument's.
THEOREM TypesHold == Spec => []TypeOK
<1>1. TypesInv => TypeOK
  BY DEF TypesInv
<1>. QED
  BY <1>1, TypesAlways, PTL

-------------------------------------------------------------------------------
(* The histogram and the counters beside it. *)

\* What a step of goroutine r leaves alone.
LEMMA OneRequestMoves ==
    ASSUME TypesInv, NEW r \in Requests, Arrive(r) \/ Finish(r)
    PROVE  /\ \A q \in Requests \ {r} : pc'[q] = pc[q] /\ req'[q] = req[q]
           /\ ~Record(r) => m' = m
           /\ Record(r) => req' = req
<1>. USE DEF TypesInv, TypeOK
<1>1. CASE Arrive(r)
  BY <1>1 DEF Arrive, Enter, Goto, Record, Observe, CountTotal, AddDuration,
     CountDuration, AddSize, SetLastDuration, CountBucket, CountLevel, CountClass
<1>2. CASE Record(r)
  BY <1>2 DEF Goto, Record, Observe, CountTotal, AddDuration,
     CountDuration, AddSize, SetLastDuration, CountBucket, CountLevel, CountClass
<1>3. CASE AddInflight(r) \/ LeaveGauge(r) \/ LeaveInflight(r)
  BY <1>3 DEF AddInflight, LeaveGauge, LeaveInflight, Goto, Record, Observe, CountTotal, AddDuration,
     CountDuration, AddSize, SetLastDuration, CountBucket, CountLevel, CountClass
<1>4. CASE \E v \in Durations, n \in Sizes : Serve(r, v, n)
  BY <1>4 DEF Serve, Goto, Record, Observe, CountTotal, AddDuration,
     CountDuration, AddSize, SetLastDuration, CountBucket, CountLevel, CountClass
<1>. QED
  BY <1>1, <1>2, <1>3, <1>4 DEF Finish

\* Each instrument is changed by its own step only.
LEMMA OneInstrumentMoves ==
    ASSUME m \in Metrics, NEW r \in Requests, Record(r)
    PROVE  /\ ~Observe(r) => /\ m'.requestDuration = m.requestDuration
                             /\ m'.requestDurationSum = m.requestDurationSum
           /\ ~AddDuration(r) => m'.durationSum = m.durationSum
           /\ ~CountDuration(r) => m'.durationCount = m.durationCount
           /\ ~CountBucket(r) => m'.latencyBucket = m.latencyBucket
BY DEF Record, Observe, CountTotal, AddDuration, CountDuration, AddSize,
   SetLastDuration, CountBucket, CountLevel, CountClass, Metrics
\* The requests between the updates of the histogram and of the counters.
Elapsed == [r \in Requests |-> req[r].elapsed]
Summing == At({"total", "sum"})
Counting == At({"total", "sum", "count"})

\* A set of requests that changes by r at most.
LEMMA RequestsCount ==
    ASSUME NEW S \in SUBSET Requests, NEW T \in SUBSET Requests, NEW r \in Requests,
           \A q \in Requests \ {r} : q \in T <=> q \in S
    PROVE  /\ Cardinality(S) \in Nat /\ Cardinality(T) \in Nat
           /\ (r \in T <=> r \in S) => Cardinality(T) = Cardinality(S)
           /\ r \in T /\ r \notin S => Cardinality(T) = Cardinality(S) + 1
           /\ r \notin T /\ r \in S => Cardinality(S) = Cardinality(T) + 1
<1>1. IsFiniteSet(S) /\ S \ {r} = T \ {r}
  BY RequestsAssumption, FS_Subset
<1>. QED
  BY <1>1, CountsDiffer

\* A counter of one shard that is raised raises the sum over the shards.
LEMMA ShardsSum ==
    ASSUME NEW f \in [Shards -> Nat], NEW g \in [Shards -> Nat], NEW s \in Shards,
           \A q \in Shards \ {s} : g[q] = f[q]
    PROVE  /\ SumFunctionOnSet(f, Shards) \in Nat
           /\ SumFunctionOnSet(g, Shards) \in Nat
           /\ SumFunctionOnSet(g, Shards) + f[s] = SumFunctionOnSet(f, Shards) + g[s]
<1>1. /\ IsFiniteSet(Shards)
      /\ \A q \in Shards : f[q] \in Nat
      /\ \A q \in Shards : g[q] \in Nat
  BY ShardsAssumption
<1>2. SumFunctionOnSet(g, Shards) + (IF s \in Shards THEN f[s] ELSE 0)
        = SumFunctionOnSet(f, Shards) + (IF s \in Shards THEN g[s] ELSE 0)
  BY <1>1, SumsDiffer
<1>. QED
  BY <1>1, <1>2, SumNat

\* The equations, with the sets named; TOP is the histogram's last bucket.
TOP == Len(durationBuckets) + 1
SumsInv ==
    /\ m.requestDurationSum = SumFunctionOnSet(m.durationSum, Shards)
                              + SumFunctionOnSet(Elapsed, Summing)
    /\ m.requestDuration[TOP] = SumFunctionOnSet(m.durationCount, Shards)
                                + Cardinality(Counting)

LEMMA RequestKeepsSums ==
    ASSUME TypesInv, TypesInv', SumsInv, NEW r \in Requests, Arrive(r) \/ Finish(r)
    PROVE  SumsInv'
<1>1. /\ m \in Metrics /\ m' \in Metrics
      /\ req \in [Requests -> RequestRecord] /\ req' \in [Requests -> RequestRecord]
      /\ pc \in [Requests -> PCs] /\ pc' \in [Requests -> PCs]
  BY DEF TypesInv, TypeOK
<1>2. /\ \A q \in Requests \ {r} : pc'[q] = pc[q] /\ req'[q] = req[q]
      /\ ~Record(r) => m' = m
      /\ Record(r) => req' = req
  BY OneRequestMoves
<1>3. /\ Elapsed \in [Requests -> Nat] /\ Elapsed' \in [Requests -> Nat]
      /\ \A q \in Requests \ {r} : Elapsed'[q] = Elapsed[q]
      /\ Elapsed[r] = req[r].elapsed /\ Elapsed'[r] = req'[r].elapsed
  BY <1>1, <1>2 DEF Elapsed, RequestRecord
<1>4. /\ Summing \in SUBSET Requests /\ Summing' \in SUBSET Requests
      /\ Counting \in SUBSET Requests /\ Counting' \in SUBSET Requests
      /\ \A q \in Requests \ {r} : /\ q \in Summing' <=> q \in Summing
                                   /\ q \in Counting' <=> q \in Counting
      /\ r \in Summing <=> pc[r] \in {"total", "sum"}
      /\ r \in Summing' <=> pc'[r] \in {"total", "sum"}
      /\ r \in Counting <=> pc[r] \in {"total", "sum", "count"}
      /\ r \in Counting' <=> pc'[r] \in {"total", "sum", "count"}
  BY <1>2 DEF Summing, Counting, At
<1>5. /\ Cardinality(Counting) \in Nat /\ Cardinality(Counting') \in Nat
      /\ (r \in Counting' <=> r \in Counting)
           => Cardinality(Counting') = Cardinality(Counting)
      /\ r \in Counting' /\ r \notin Counting
           => Cardinality(Counting') = Cardinality(Counting) + 1
      /\ r \notin Counting' /\ r \in Counting
           => Cardinality(Counting) = Cardinality(Counting') + 1
  BY <1>4, RequestsCount
<1>6. /\ SumFunctionOnSet(Elapsed, Summing) \in Nat
      /\ SumFunctionOnSet(Elapsed', Summing') \in Nat
      /\ r \notin Summing' /\ r \notin Summing
           => SumFunctionOnSet(Elapsed', Summing') = SumFunctionOnSet(Elapsed, Summing)
      /\ r \in Summing' /\ r \in Summing /\ Elapsed'[r] = Elapsed[r]
           => SumFunctionOnSet(Elapsed', Summing') = SumFunctionOnSet(Elapsed, Summing)
      /\ r \in Summing' /\ r \notin Summing
           => SumFunctionOnSet(Elapsed', Summing')
                = SumFunctionOnSet(Elapsed, Summing) + Elapsed'[r]
      /\ r \notin Summing' /\ r \in Summing
           => SumFunctionOnSet(Elapsed, Summing)
                = SumFunctionOnSet(Elapsed', Summing') + Elapsed[r]
  <2>1. /\ IsFiniteSet(Summing) /\ IsFiniteSet(Summing')
        /\ Summing \ {r} = Summing' \ {r}
        /\ \A q \in Summing : Elapsed[q] \in Nat
        /\ \A q \in Summing' : Elapsed'[q] \in Nat
        /\ \A q \in Summing \ {r} : Elapsed'[q] = Elapsed[q]
    BY <1>3, <1>4, RequestsAssumption, FS_Subset
  <2>2. /\ SumFunctionOnSet(Elapsed, Summing) \in Nat
        /\ SumFunctionOnSet(Elapsed', Summing') \in Nat
    BY <2>1, SumNat
  <2>3. SumFunctionOnSet(Elapsed', Summing')
          + (IF r \in Summing THEN Elapsed[r] ELSE 0)
          = SumFunctionOnSet(Elapsed, Summing)
          + (IF r \in Summing' THEN Elapsed'[r] ELSE 0)
    BY <2>1, SumsDiffer
  <2>. QED
    BY <1>3, <2>2, <2>3
<1>7. /\ m.requestDurationSum \in Nat
      /\ TOP \in Les /\ m.requestDuration[TOP] \in Nat /\ CountsIn(req[r].elapsed, TOP)
      /\ m.durationSum \in [Shards -> Nat] /\ m'.durationSum \in [Shards -> Nat]
      /\ m.durationCount \in [Shards -> Nat] /\ m'.durationCount \in [Shards -> Nat]
      /\ req[r].shard \in Shards /\ req[r].elapsed \in Nat
      /\ SumFunctionOnSet(m.durationSum, Shards) \in Nat
      /\ SumFunctionOnSet(m.durationCount, Shards) \in Nat
  <2>1. /\ m.durationSum \in [Shards -> Nat] /\ m.durationCount \in [Shards -> Nat]
        /\ m'.durationSum \in [Shards -> Nat] /\ m'.durationCount \in [Shards -> Nat]
        /\ req[r].shard \in Shards /\ req[r].elapsed \in Nat
    BY <1>1 DEF Metrics, RequestRecord
  <2>2. /\ \A s \in Shards : m.durationSum[s] \in Nat
        /\ \A s \in Shards : m.durationCount[s] \in Nat
    BY <2>1
  <2>3. /\ SumFunctionOnSet(m.durationSum, Shards) \in Nat
        /\ SumFunctionOnSet(m.durationCount, Shards) \in Nat
    BY <2>2, ShardsAssumption, SumNat
  <2>4. /\ m.requestDurationSum \in Nat
        /\ TOP \in Les /\ m.requestDuration[TOP] \in Nat /\ CountsIn(req[r].elapsed, TOP)
    BY <1>1 DEF Metrics, TOP, Les, CountsIn, durationBuckets
  <2>. QED
    BY <2>1, <2>3, <2>4
<1>8. CASE Observe(r) /\ Record(r)
  <2>1. pc[r] = "observe" /\ pc'[r] = "total"
    BY <1>1, <1>8 DEF Observe, Goto
  <2>2. /\ m'.requestDurationSum = m.requestDurationSum + req[r].elapsed
        /\ m'.requestDuration[TOP] = m.requestDuration[TOP] + 1
    BY <1>1, <1>7, <1>8 DEF Observe, Metrics
  <2>3. m'.durationSum = m.durationSum /\ m'.durationCount = m.durationCount
    BY <1>1, <1>8 DEF Observe, Metrics
  <2>. QED
    BY <1>2, <1>3, <1>4, <1>5, <1>6, <1>7, <1>8, <2>1, <2>2, <2>3 DEF SumsInv
<1>9. CASE AddDuration(r) /\ Record(r)
  <2>1. pc[r] = "sum" /\ pc'[r] = "count"
    BY <1>1, <1>9 DEF AddDuration, Goto
  <2>2. /\ m'.durationSum[req[r].shard] = m.durationSum[req[r].shard] + req[r].elapsed
        /\ \A q \in Shards \ {req[r].shard} : m'.durationSum[q] = m.durationSum[q]
    BY <1>1, <1>7, <1>9 DEF AddDuration, Metrics
  <2>3. /\ m'.requestDuration = m.requestDuration
        /\ m'.requestDurationSum = m.requestDurationSum
        /\ m'.durationCount = m.durationCount
    BY <1>1, <1>9 DEF AddDuration, Metrics
  <2>4. SumFunctionOnSet(m'.durationSum, Shards)
          = SumFunctionOnSet(m.durationSum, Shards) + req[r].elapsed
    <3>1. /\ SumFunctionOnSet(m'.durationSum, Shards) \in Nat
          /\ SumFunctionOnSet(m'.durationSum, Shards) + m.durationSum[req[r].shard]
               = SumFunctionOnSet(m.durationSum, Shards) + m'.durationSum[req[r].shard]
      BY <1>7, <2>2, ShardsSum
    <3>. QED
      BY <1>7, <2>2, <3>1
  <2>. QED
    BY <1>2, <1>3, <1>4, <1>5, <1>6, <1>7, <2>1, <2>3, <2>4 DEF SumsInv
<1>10. CASE CountDuration(r) /\ Record(r)
  <2>1. pc[r] = "count" /\ pc'[r] = "size"
    BY <1>1, <1>10 DEF CountDuration, Goto
  <2>2. /\ m'.durationCount[req[r].shard] = m.durationCount[req[r].shard] + 1
        /\ \A q \in Shards \ {req[r].shard} : m'.durationCount[q] = m.durationCount[q]
    BY <1>1, <1>7, <1>10 DEF CountDuration, Metrics
  <2>3. /\ m'.requestDuration = m.requestDuration
        /\ m'.requestDurationSum = m.requestDurationSum
        /\ m'.durationSum = m.durationSum
    BY <1>1, <1>10 DEF CountDuration, Metrics
  <2>4. SumFunctionOnSet(m'.durationCount, Shards)
          = SumFunctionOnSet(m.durationCount, Shards) + 1
    <3>1. /\ SumFunctionOnSet(m'.durationCount, Shards) \in Nat
          /\ SumFunctionOnSet(m'.durationCount, Shards) + m.durationCount[req[r].shard]
               = SumFunctionOnSet(m.durationCount, Shards) + m'.durationCount[req[r].shard]
      BY <1>7, <2>2, ShardsSum
    <3>. QED
      BY <1>7, <2>2, <3>1
  <2>. QED
    BY <1>2, <1>3, <1>4, <1>5, <1>6, <1>7, <2>1, <2>3, <2>4 DEF SumsInv
<1>11. CASE ~(Record(r) /\ (Observe(r) \/ AddDuration(r) \/ CountDuration(r)))
  <2>1. /\ m'.requestDuration = m.requestDuration
        /\ m'.requestDurationSum = m.requestDurationSum
        /\ m'.durationSum = m.durationSum
        /\ m'.durationCount = m.durationCount
    BY <1>1, <1>2, <1>11, OneInstrumentMoves
  <2>2. \/ pc[r] = "total" /\ pc'[r] = "sum" /\ req' = req
        \/ /\ pc[r] \notin {"total", "sum", "count"}
           /\ pc'[r] \notin {"total", "sum", "count"}
    BY <1>1, <1>11 DEF Arrive, Finish, Enter, AddInflight, Serve, LeaveGauge,
       LeaveInflight, Record, Observe, CountTotal, AddDuration, CountDuration,
       AddSize, SetLastDuration, CountBucket, CountLevel, CountClass, Goto
  <2>3. /\ Cardinality(Counting') = Cardinality(Counting)
        /\ SumFunctionOnSet(Elapsed', Summing') = SumFunctionOnSet(Elapsed, Summing)
    BY <1>3, <1>4, <1>5, <1>6, <2>2
  <2>. QED
    BY <2>1, <2>3 DEF SumsInv
<1>. QED
  BY <1>8, <1>9, <1>10, <1>11
LEMMA SumsStep == TypesInv /\ SumsInv /\ [Next]_vars => SumsInv'
<1>. SUFFICES ASSUME TypesInv, SumsInv, [Next]_vars PROVE SumsInv'
  OBVIOUS
<1>1. TypesInv'
  BY TypesStep
<1>2. CASE UNCHANGED vars
  <2>1. UNCHANGED <<m, Elapsed, Summing, Counting>>
    BY <1>2 DEF vars, Elapsed, Summing, Counting, At
  <2>. QED
    BY <2>1 DEF SumsInv
<1>3. CASE \E r \in Requests : Arrive(r) \/ Finish(r)
  BY <1>1, <1>3, RequestKeepsSums
<1>. QED
  BY <1>2, <1>3 DEF Next, Quiet

\* The hand-kept sums and counts agree with the histogram's at every moment, up
\* to the requests between the two updates, however many requests overlap.
THEOREM SumsAgree == Spec => []SumsMatchHistogram
<1>1. Init => SumsInv
  <2>. SUFFICES ASSUME Init PROVE SumsInv
    OBVIOUS
  <2>1. /\ m.requestDurationSum = 0 /\ m.requestDuration[TOP] = 0
        /\ \A s \in Shards : m.durationSum[s] = 0
        /\ \A s \in Shards : m.durationCount[s] = 0
    BY DEF Init, newMetrics, Les, TOP, durationBuckets
  <2>2. Summing = {} /\ Counting = {}
    BY DEF Init, Summing, Counting, At
  <2>3. /\ SumFunctionOnSet(m.durationSum, Shards) = 0
        /\ SumFunctionOnSet(m.durationCount, Shards) = 0
    BY <2>1, ShardsAssumption, SumOfZeros
  <2>4. SumFunctionOnSet(Elapsed, {}) = 0 /\ Cardinality({}) = 0
    BY SumOfNothing, FS_EmptySet
  <2>. QED
    BY <2>1, <2>2, <2>3, <2>4 DEF SumsInv
<1>2. SumsInv => SumsMatchHistogram
  BY DEF SumsInv, SumsMatchHistogram, Elapsed, Summing, Counting, TOP
<1>. QED
  BY <1>1, <1>2, TypesAlways, SumsStep, PTL DEF Spec

-------------------------------------------------------------------------------
(* The buckets. *)

\* The requests whose duration the histogram counts up to le and no counter of
\* a bucket counts yet; the buckets' counters up to le, shard by shard.
Bucketing(le) ==
    {r \in At({"total", "sum", "count", "size", "last", "bucket"}) :
        CountsIn(req[r].elapsed, le)}
Rows(le) == [s \in Shards |-> SumFunctionOnSet(m.latencyBucket[s], 1 .. le)]

BucketInv(le) ==
    m.requestDuration[le] = SumFunctionOnSet(Rows(le), Shards) + Cardinality(Bucketing(le))

\* A bucket's counter that is raised raises the counts from its label up.
LEMMA RowMoves ==
    ASSUME NEW f \in [Les -> Nat], NEW g \in [Les -> Nat], NEW l \in Les, NEW le \in Les,
           \A k \in Les \ {l} : g[k] = f[k]
    PROVE  /\ SumFunctionOnSet(f, 1 .. le) \in Nat
           /\ SumFunctionOnSet(g, 1 .. le) \in Nat
           /\ l <= le => SumFunctionOnSet(g, 1 .. le) + f[l]
                           = SumFunctionOnSet(f, 1 .. le) + g[l]
           /\ ~(l <= le) => SumFunctionOnSet(g, 1 .. le) = SumFunctionOnSet(f, 1 .. le)
<1>. DEFINE S == 1 .. le
<1>1. le \in Nat /\ l \in Nat /\ 1 <= l /\ S \subseteq Les
  BY DEF Les, durationBuckets
<1>2. IsFiniteSet(S) /\ (l \in S <=> l <= le)
  BY <1>1, FS_Interval
<1>. HIDE DEF S
<1>3. /\ \A k \in S : f[k] \in Nat
      /\ \A k \in S : g[k] \in Nat
      /\ \A k \in S \ {l} : g[k] = f[k]
      /\ f[l] \in Nat /\ g[l] \in Nat
  BY <1>1
<1>4. SumFunctionOnSet(f, S) \in Nat /\ SumFunctionOnSet(g, S) \in Nat
  BY <1>2, <1>3, SumNat
<1>5. SumFunctionOnSet(g, S) + (IF l \in S THEN f[l] ELSE 0)
        = SumFunctionOnSet(f, S) + (IF l \in S THEN g[l] ELSE 0)
  BY <1>2, <1>3, SumsDiffer
<1>6. /\ l <= le => SumFunctionOnSet(g, S) + f[l] = SumFunctionOnSet(f, S) + g[l]
      /\ ~(l <= le) => SumFunctionOnSet(g, S) = SumFunctionOnSet(f, S)
  BY <1>2, <1>3, <1>4, <1>5
<1>. QED
  BY <1>4, <1>6 DEF S

\* The counts up to le of every shard are numbers.
LEMMA RowsTyped ==
    ASSUME NEW f \in [Shards -> [Les -> Nat]], NEW le \in Les
    PROVE  [s \in Shards |-> SumFunctionOnSet(f[s], 1 .. le)] \in [Shards -> Nat]
<1>1. IsFiniteSet(1 .. le) /\ \A k \in 1 .. le : k \in Les
  BY FS_Interval DEF Les
<1>2. ASSUME NEW s \in Shards PROVE SumFunctionOnSet(f[s], 1 .. le) \in Nat
  <2>1. \A k \in 1 .. le : f[s][k] \in Nat
    BY <1>1
  <2>. QED
    BY <1>1, <2>1, SumNat
<1>. QED
  BY <1>2

LEMMA RequestKeepsBuckets ==
    ASSUME TypesInv, TypesInv', NEW le \in Les, BucketInv(le),
           NEW r \in Requests, Arrive(r) \/ Finish(r)
    PROVE  BucketInv(le)'
<1>. DEFINE v == req[r].elapsed
            s == req[r].shard
<1>1. /\ m \in Metrics /\ m' \in Metrics
      /\ req \in [Requests -> RequestRecord] /\ req' \in [Requests -> RequestRecord]
      /\ pc \in [Requests -> PCs] /\ pc' \in [Requests -> PCs]
  BY DEF TypesInv, TypeOK
<1>2. /\ \A q \in Requests \ {r} : pc'[q] = pc[q] /\ req'[q] = req[q]
      /\ ~Record(r) => m' = m
      /\ Record(r) => req' = req
  BY OneRequestMoves
<1>3. /\ Bucketing(le) \in SUBSET Requests /\ Bucketing(le)' \in SUBSET Requests
      /\ \A q \in Requests \ {r} : q \in Bucketing(le)' <=> q \in Bucketing(le)
      /\ r \in Bucketing(le)
           <=> /\ pc[r] \in {"total", "sum", "count", "size", "last", "bucket"}
               /\ CountsIn(v, le)
      /\ r \in Bucketing(le)'
           <=> /\ pc'[r] \in {"total", "sum", "count", "size", "last", "bucket"}
               /\ CountsIn(req'[r].elapsed, le)
  BY <1>2 DEF Bucketing, At, CountsIn
<1>4. /\ Cardinality(Bucketing(le)) \in Nat /\ Cardinality(Bucketing(le)') \in Nat
      /\ (r \in Bucketing(le)' <=> r \in Bucketing(le))
           => Cardinality(Bucketing(le)') = Cardinality(Bucketing(le))
      /\ r \in Bucketing(le)' /\ r \notin Bucketing(le)
           => Cardinality(Bucketing(le)') = Cardinality(Bucketing(le)) + 1
      /\ r \notin Bucketing(le)' /\ r \in Bucketing(le)
           => Cardinality(Bucketing(le)) = Cardinality(Bucketing(le)') + 1
  BY <1>3, RequestsCount
<1>5. /\ m.requestDuration \in [Les -> Nat] /\ m'.requestDuration \in [Les -> Nat]
      /\ m.latencyBucket \in [Shards -> [Les -> Nat]]
      /\ m'.latencyBucket \in [Shards -> [Les -> Nat]]
      /\ v \in Nat /\ s \in Shards
  BY <1>1 DEF Metrics, RequestRecord
<1>. HIDE DEF v, s
<1>6. Rows(le) \in [Shards -> Nat] /\ Rows(le)' \in [Shards -> Nat]
  BY <1>5, RowsTyped DEF Rows
<1>7. SumFunctionOnSet(Rows(le), Shards) \in Nat
  <2>1. \A q \in Shards : Rows(le)[q] \in Nat
    BY <1>6
  <2>. QED
    BY <2>1, ShardsAssumption, SumNat
<1>8. CASE Observe(r) /\ Record(r)
  <2>1. pc[r] = "observe" /\ pc'[r] = "total"
    BY <1>1, <1>8 DEF Observe, Goto
  <2>2. /\ m'.requestDuration[le] = IF CountsIn(v, le) THEN m.requestDuration[le] + 1
                                                       ELSE m.requestDuration[le]
        /\ m'.latencyBucket = m.latencyBucket
    BY <1>1, <1>8 DEF Observe, Metrics, v
  <2>3. Rows(le)' = Rows(le)
    BY <2>2 DEF Rows
  <2>4. req'[r].elapsed = v
    BY <1>2, <1>8 DEF v
  <2>. QED
    BY <1>3, <1>4, <1>5, <1>7, <2>1, <2>2, <2>3, <2>4 DEF BucketInv
<1>9. CASE CountBucket(r) /\ Record(r)
  <2>. DEFINE l == latencyBucketLabel(v)
  <2>1. pc[r] = "bucket" /\ pc'[r] = "level"
    BY <1>1, <1>9 DEF CountBucket, Goto
  <2>2. l \in Les /\ (CountsIn(v, le) <=> l <= le)
    BY <1>5, LabelsTyped, LabelsAgree
  <2>3. /\ m'.requestDuration = m.requestDuration
        /\ m'.latencyBucket
             = [m.latencyBucket EXCEPT ![s][l] = @ + 1]
    BY <1>1, <1>9 DEF CountBucket, Metrics, v, s, l
  <2>. HIDE DEF l
  <2>4. /\ m'.latencyBucket[s][l] = m.latencyBucket[s][l] + 1
        /\ \A k \in Les \ {l} : m'.latencyBucket[s][k] = m.latencyBucket[s][k]
        /\ \A q \in Shards \ {s} : m'.latencyBucket[q] = m.latencyBucket[q]
        /\ m.latencyBucket[s] \in [Les -> Nat] /\ m'.latencyBucket[s] \in [Les -> Nat]
    BY <1>5, <2>2, <2>3
  <2>5. /\ Rows(le)[s] = SumFunctionOnSet(m.latencyBucket[s], 1 .. le)
        /\ Rows(le)'[s] = SumFunctionOnSet(m'.latencyBucket[s], 1 .. le)
        /\ \A q \in Shards \ {s} : Rows(le)'[q] = Rows(le)[q]
    BY <1>5, <2>4 DEF Rows
  <2>6. /\ Rows(le)[s] \in Nat
        /\ l <= le => Rows(le)'[s] = Rows(le)[s] + 1
        /\ ~(l <= le) => Rows(le)'[s] = Rows(le)[s]
    <3>1. /\ SumFunctionOnSet(m.latencyBucket[s], 1 .. le) \in Nat
          /\ SumFunctionOnSet(m'.latencyBucket[s], 1 .. le) \in Nat
          /\ l <= le => SumFunctionOnSet(m'.latencyBucket[s], 1 .. le) + m.latencyBucket[s][l]
                          = SumFunctionOnSet(m.latencyBucket[s], 1 .. le) + m'.latencyBucket[s][l]
          /\ ~(l <= le) => SumFunctionOnSet(m'.latencyBucket[s], 1 .. le)
                             = SumFunctionOnSet(m.latencyBucket[s], 1 .. le)
      BY <2>2, <2>4, RowMoves
    <3>2. m.latencyBucket[s][l] \in Nat
      BY <2>2, <2>4
    <3>. QED
      BY <2>4, <2>5, <3>1, <3>2
  <2>7. /\ SumFunctionOnSet(Rows(le)', Shards) \in Nat
        /\ SumFunctionOnSet(Rows(le)', Shards) + Rows(le)[s]
             = SumFunctionOnSet(Rows(le), Shards) + Rows(le)'[s]
    BY <1>5, <1>6, <2>5, ShardsSum
  <2>8. r \notin Bucketing(le)' /\ (r \in Bucketing(le) <=> l <= le)
    BY <1>3, <2>1, <2>2
  <2>9. m'.requestDuration[le] = m.requestDuration[le] /\ m.requestDuration[le] \in Nat
    BY <1>5, <2>3
  <2>10. CASE l <= le
    <3>1. Cardinality(Bucketing(le)) = Cardinality(Bucketing(le)') + 1
      BY <1>4, <2>8, <2>10
    <3>2. SumFunctionOnSet(Rows(le)', Shards) = SumFunctionOnSet(Rows(le), Shards) + 1
      BY <1>7, <2>6, <2>7, <2>10
    <3>. QED
      BY <1>4, <1>7, <2>7, <2>9, <3>1, <3>2 DEF BucketInv
  <2>11. CASE ~(l <= le)
    <3>1. Cardinality(Bucketing(le)') = Cardinality(Bucketing(le))
      BY <1>4, <2>8, <2>11
    <3>2. SumFunctionOnSet(Rows(le)', Shards) = SumFunctionOnSet(Rows(le), Shards)
      BY <1>7, <2>6, <2>7, <2>11
    <3>. QED
      BY <1>4, <1>7, <2>7, <2>9, <3>1, <3>2 DEF BucketInv
  <2>. QED
    BY <2>10, <2>11
<1>10. CASE ~(Record(r) /\ (Observe(r) \/ CountBucket(r)))
  <2>1. /\ m'.requestDuration = m.requestDuration
        /\ m'.latencyBucket = m.latencyBucket
    BY <1>1, <1>2, <1>10, OneInstrumentMoves
  <2>2. \/ /\ pc[r] \in {"total", "sum", "count", "size", "last"}
           /\ pc'[r] \in {"sum", "count", "size", "last", "bucket"}
           /\ req' = req
        \/ /\ pc[r] \notin {"total", "sum", "count", "size", "last", "bucket"}
           /\ pc'[r] \notin {"total", "sum", "count", "size", "last", "bucket"}
    BY ZenonT(60), <1>1, <1>10 DEF Arrive, Finish, Enter, AddInflight, Serve, LeaveGauge,
       LeaveInflight, Record, Observe, CountTotal, AddDuration, CountDuration,
       AddSize, SetLastDuration, CountBucket, CountLevel, CountClass, Goto
  <2>3. r \in Bucketing(le)' <=> r \in Bucketing(le)
    BY <1>3, <2>2 DEF v
  <2>4. Rows(le)' = Rows(le)
    BY <2>1 DEF Rows
  <2>. QED
    BY <1>4, <2>1, <2>3, <2>4 DEF BucketInv
<1>. QED
  BY <1>8, <1>9, <1>10

LEMMA BucketsStep ==
    TypesInv /\ (\A le \in Les : BucketInv(le)) /\ [Next]_vars
      => (\A le \in Les : BucketInv(le))'
<1>. SUFFICES ASSUME TypesInv, \A le \in Les : BucketInv(le), [Next]_vars, NEW le \in Les
              PROVE  BucketInv(le)'
  BY DEF BucketInv, Rows, Bucketing, At
<1>1. TypesInv'
  BY TypesStep
<1>2. CASE UNCHANGED vars
  <2>1. UNCHANGED <<m, Rows(le), Bucketing(le)>>
    BY <1>2 DEF vars, Rows, Bucketing, At
  <2>. QED
    BY <2>1 DEF BucketInv
<1>3. CASE \E r \in Requests : Arrive(r) \/ Finish(r)
  BY <1>1, <1>3, RequestKeepsBuckets
<1>. QED
  BY <1>2, <1>3 DEF Next, Quiet

\* At every boundary, the hand-kept bucket counters add up to the histogram's
\* cumulative count, up to the requests between the two updates: for every
\* duration, any number of shards and of overlapping requests.
THEOREM BucketsAgree == Spec => []BucketsMatchHistogram
<1>. DEFINE BucketsInv == \A le \in Les : BucketInv(le)
<1>1. Init => BucketsInv
  <2>. SUFFICES ASSUME Init, NEW le \in Les PROVE BucketInv(le)
    OBVIOUS
  <2>1. /\ m.requestDuration[le] = 0
        /\ \A s \in Shards, k \in Les : m.latencyBucket[s][k] = 0
    BY DEF Init, newMetrics
  <2>2. Bucketing(le) = {}
    BY DEF Init, Bucketing, At
  <2>3. IsFiniteSet(1 .. le) /\ \A k \in 1 .. le : k \in Les
    BY FS_Interval DEF Les
  <2>4. ASSUME NEW s \in Shards PROVE Rows(le)[s] = 0
    <3>1. \A k \in 1 .. le : m.latencyBucket[s][k] = 0
      BY <2>1, <2>3
    <3>2. SumFunctionOnSet(m.latencyBucket[s], 1 .. le) = 0
      BY <2>3, <3>1, SumOfZeros
    <3>. QED
      BY <3>2 DEF Rows
  <2>5. SumFunctionOnSet(Rows(le), Shards) = 0
    BY <2>4, ShardsAssumption, SumOfZeros
  <2>. QED
    BY <2>1, <2>2, <2>5, FS_EmptySet DEF BucketInv
<1>2. BucketsInv => BucketsMatchHistogram
  BY DEF BucketInv, Rows, Bucketing, BucketsMatchHistogram
<1>3. TypesInv /\ BucketsInv /\ [Next]_vars => BucketsInv'
  BY BucketsStep
<1>. HIDE DEF BucketsInv
<1>. QED
  BY <1>1, <1>2, <1>3, TypesAlways, PTL DEF Spec

-------------------------------------------------------------------------------
(* The simulated work: EvenWork and LatenciesInRange for any number of rounds *)
(* and every draw.                                                           *)

LEMMA MeansOf ==
    \A app \in Apps, p \in endpoints :
        /\ meanOf(app, p) \in 12 .. 374
        /\ meanOf(app, p) = prometheusMeans[p]
  <1> SUFFICES ASSUME NEW p \in endpoints
               PROVE  /\ prometheusMeans[p] \in 12 .. 374
                      /\ otelMeans[p] = prometheusMeans[p]
                      /\ uninstrumentedMeans[p] = prometheusMeans[p]
    BY DEF meanOf, Apps, prometheusRoutes, otelRoutes, uninstrumentedRoutes
  <1>1. prometheusMeans[p] \in 12 .. 374
    BY DEF prometheusMeans, endpoints
  <1>2. otelMeans = prometheusMeans /\ uninstrumentedMeans = prometheusMeans
    BY DEF prometheusMeans, otelMeans, uninstrumentedMeans
  <1> QED BY <1>1, <1>2

\* Whatever is drawn stays within a tenth of the mean, which is at least 12.
LEMMA WithinATenth ==
    ASSUME NEW mean \in 12 .. 374, NEW v \in simulateLatency(mean)
    PROVE  /\ v \in 11 .. 411
           /\ 9 * mean <= 10 * v /\ 10 * v <= 11 * mean
  <1> DEFINE j == mean \div 10
  <1>1. jitterOf(mean) = j /\ j \in 1 .. 37 /\ 10 * j <= mean
    BY DEF jitterOf
  <1>2. PICK n \in 0 .. 2 * j : v = mean - j + n
    BY <1>1 DEF simulateLatency, draws
  <1>3. mean - j >= 11 /\ mean + j <= 411
    OBVIOUS
  <1> QED BY <1>1, <1>2, <1>3

-------------------------------------------------------------------------------

\* An app that has answered the round under way took within a tenth of the mean
\* of its path, which is the same for every app.
AnsweredInv ==
    \A app \in Apps :
        path # NoPath /\ app \notin pending =>
            /\ 9 * prometheusMeans[path] <= 10 * elapsed[app]
            /\ 10 * elapsed[app] <= 11 * prometheusMeans[path]

\* Nobody is asked between two rounds.
PendingInv == path = NoPath => pending = {}

WorkInv ==
    /\ WorkTypeOK
    /\ PendingInv
    /\ LatenciesInRange
    /\ AnsweredInv
    /\ EvenWork

LEMMA StartOfWork == WorkInit => WorkInv
  BY DEF WorkInit, WorkInv, WorkTypeOK, PendingInv, LatenciesInRange, AnsweredInv, EvenWork

LEMMA RoundKeepsWork == ASSUME WorkInv, NEW p \in endpoints, Round(p) PROVE WorkInv'
  <1>1. WorkTypeOK' BY DEF WorkInv, WorkTypeOK, Round
  <1>2. LatenciesInRange' BY DEF WorkInv, Round, LatenciesInRange
  <1>3. AnsweredInv' BY DEF WorkInv, Round, AnsweredInv
  <1>4. EvenWork' BY DEF WorkInv, Round, EvenWork
  <1>5. PendingInv' BY DEF PendingInv, Round, endpoints, NoPath
  <1> QED BY <1>1, <1>2, <1>3, <1>4, <1>5 DEF WorkInv

LEMMA HandleKeepsWork ==
    ASSUME WorkInv, NEW app \in Apps, handleAPI(app) PROVE WorkInv'
  <1> DEFINE mean == meanOf(app, path)
  <1>0. path # NoPath BY DEF WorkInv, PendingInv, handleAPI
  <1>1. path \in endpoints BY <1>0 DEF WorkInv, WorkTypeOK
  <1>2. mean \in 12 .. 374 /\ mean = prometheusMeans[path] BY <1>1, MeansOf
  <1>3. PICK v \in simulateLatency(mean) : elapsed' = [elapsed EXCEPT ![app] = v]
    BY DEF handleAPI
  <1> HIDE DEF mean
  <1>4. /\ v \in 11 .. 411
        /\ 9 * mean <= 10 * v /\ 10 * v <= 11 * mean
    BY ZenonT(60), <1>2, <1>3, WithinATenth
  <1>5. elapsed \in [Apps -> Nat] BY DEF WorkInv, WorkTypeOK
  <1>6. WorkTypeOK' BY <1>3, <1>4 DEF WorkInv, WorkTypeOK, handleAPI
  <1>7. LatenciesInRange'
    BY <1>3, <1>4, <1>5 DEF WorkInv, LatenciesInRange
  <1>8. AnsweredInv'
    BY <1>2, <1>3, <1>4, <1>5 DEF WorkInv, AnsweredInv, handleAPI
  <1>9. EvenWork' BY DEF WorkInv, handleAPI, EvenWork
  <1>10. PendingInv' BY <1>0 DEF PendingInv, handleAPI
  <1> QED BY <1>6, <1>7, <1>8, <1>9, <1>10 DEF WorkInv

LEMMA RoundEndsKeepsWork == ASSUME WorkInv, RoundEnds PROVE WorkInv'
  <1>1. WorkTypeOK' BY DEF WorkInv, WorkTypeOK, RoundEnds
  <1>2. LatenciesInRange' BY DEF WorkInv, RoundEnds, LatenciesInRange
  <1>3. AnsweredInv' BY DEF RoundEnds, AnsweredInv
  <1>4. EvenWork'
    <2> SUFFICES ASSUME NEW a \in Apps, NEW b \in Apps
                 PROVE  9 * work'[a] <= 11 * work'[b]
      BY DEF EvenWork
    <2> DEFINE mean == prometheusMeans[path]
    <2>1. mean \in Nat BY MeansOf DEF WorkInv, WorkTypeOK, RoundEnds
    <2>2. /\ 10 * elapsed[a] <= 11 * mean
          /\ 9 * mean <= 10 * elapsed[b]
      BY DEF WorkInv, AnsweredInv, RoundEnds
    <2>3. 9 * work[a] <= 11 * work[b] BY DEF WorkInv, EvenWork
    <2>4. /\ work'[a] = work[a] + elapsed[a]
          /\ work'[b] = work[b] + elapsed[b]
      BY DEF RoundEnds
    <2>5. /\ work[a] \in Nat /\ work[b] \in Nat
          /\ elapsed[a] \in Nat /\ elapsed[b] \in Nat
      BY DEF WorkInv, WorkTypeOK
    <2> HIDE DEF mean
    <2> QED BY <2>1, <2>2, <2>3, <2>4, <2>5
  <1>5. PendingInv' BY DEF PendingInv, RoundEnds
  <1> QED BY <1>1, <1>2, <1>3, <1>4, <1>5 DEF WorkInv

LEMMA StepOfWork == WorkInv /\ [WorkNext]_workVars => WorkInv'
  <1> SUFFICES ASSUME WorkInv, [WorkNext]_workVars PROVE WorkInv'
    OBVIOUS
  <1>1. CASE \E p \in endpoints : Round(p) BY <1>1, RoundKeepsWork
  <1>2. CASE \E app \in Apps : handleAPI(app) BY <1>2, HandleKeepsWork
  <1>3. CASE RoundEnds BY <1>3, RoundEndsKeepsWork
  <1>4. CASE UNCHANGED workVars
    BY <1>4 DEF workVars, WorkInv, WorkTypeOK, PendingInv, LatenciesInRange, AnsweredInv,
                EvenWork
  <1> QED BY <1>1, <1>2, <1>3, <1>4 DEF WorkNext, NoMoreRounds

LEMMA WorkInvHolds == WorkSpec => []WorkInv
  <1> QED BY StartOfWork, StepOfWork, PTL DEF WorkSpec

\* However many rounds are sent, no app has spent more than 11/9 of the time of
\* another in its handlers: the 150 handlers and routes do even work.
THEOREM WorkStaysEven == WorkSpec => []EvenWork
  <1>1. WorkInv => EvenWork BY DEF WorkInv
  <1> QED BY <1>1, WorkInvHolds, PTL

\* No handler ever sleeps less than 11 ms or more than 411 ms, the range the
\* histogram's boundaries are sized to.
THEOREM LatenciesStayInRange == WorkSpec => []LatenciesInRange
  <1>1. WorkInv => LatenciesInRange BY DEF WorkInv
  <1> QED BY <1>1, WorkInvHolds, PTL
===============================================================================
