-------------------------- MODULE ServerLifecycleProofs --------------------------
(* Theorems about ServerLifecycle, for any requests, calls, settings, signals *)
(* and usages.                                                               *)
EXTENDS ServerLifecycle, TLAPS

(* Where the programs take their steps. *)

ServeAt ==
    [prometheus |-> 4, otel |-> 7, uninstrumented |-> 4, receiver |-> 1, testClient |-> 4]
WaitAt ==
    [prometheus |-> 5, otel |-> 8, uninstrumented |-> 5, receiver |-> 4, testClient |-> 5]
EndAt ==
    [prometheus |-> 6, otel |-> 11, uninstrumented |-> 6, receiver |-> 7, testClient |-> 8]

StepAt(k, i) ==
    /\ Program[k][i] = "serve" <=> i = ServeAt[k]
    /\ Program[k][i] = "wait" <=> i = WaitAt[k]
    /\ Program[k][i] = "shutdown" <=> i = WaitAt[k] + 1
    /\ Program[k][i] \in {"reader", "exporter", "jitter", "provider", "background"}
         => k # "receiver" /\ i < ServeAt[k]
    /\ Program[k][i] = "serveRPC" <=> (k = "receiver" /\ i = 2)
    /\ Program[k][i] = "deadline" <=> (k = "receiver" /\ i = 6)
    /\ Program[k][i] = "graceful" <=> (k = "receiver" /\ i = 7)
    /\ Program[k][i] = "flush"
         <=> (k \in {"otel", "testClient"} /\ i = WaitAt[k] + 2)
    /\ Program[k][i] = "export"
         <=> (k \in {"otel", "testClient"} /\ i = WaitAt[k] + 3)
    /\ Program[k][i] = "notify" => i < WaitAt[k]

LEMMA Places ==
    ASSUME NEW k \in Kinds
    PROVE  /\ Len(Program[k]) = EndAt[k]
           /\ ServeAt[k] \in Nat /\ WaitAt[k] \in Nat /\ EndAt[k] \in Nat
           /\ 1 <= ServeAt[k] /\ ServeAt[k] < WaitAt[k] /\ WaitAt[k] < EndAt[k]
           /\ k \in {"otel", "testClient"} => EndAt[k] = WaitAt[k] + 3
           /\ k \in {"prometheus", "uninstrumented"} => EndAt[k] = WaitAt[k] + 1
           /\ \A i \in 1..EndAt[k] : StepAt(k, i)
<1>1. CASE k = "prometheus"
  <2>1. /\ Len(Program[k]) = 6 /\ EndAt[k] = 6 /\ ServeAt[k] = 4 /\ WaitAt[k] = 5
        /\ Program[k] = <<"reader", "notify", "background", "serve", "wait", "shutdown">>
    BY <1>1 DEF Program, ServeAt, WaitAt, EndAt
  <2>2. \A i \in 1..6 : StepAt(k, i) BY <1>1, <2>1 DEF StepAt
  <2> QED BY <1>1, <2>1, <2>2
<1>2. CASE k = "otel"
  <2>1. /\ Len(Program[k]) = 11 /\ EndAt[k] = 11 /\ ServeAt[k] = 7 /\ WaitAt[k] = 8
        /\ Program[k] = <<"notify", "exporter", "jitter", "provider", "reader",
                          "background", "serve", "wait", "shutdown", "flush", "export">>
    BY <1>2 DEF Program, ServeAt, WaitAt, EndAt
  <2>2. \A i \in 1..11 : StepAt(k, i) BY <1>2, <2>1 DEF StepAt
  <2> QED BY <1>2, <2>1, <2>2
<1>3. CASE k = "uninstrumented"
  <2>1. /\ Len(Program[k]) = 6 /\ EndAt[k] = 6 /\ ServeAt[k] = 4 /\ WaitAt[k] = 5
        /\ Program[k] = <<"reader", "notify", "background", "serve", "wait", "shutdown">>
    BY <1>3 DEF Program, ServeAt, WaitAt, EndAt
  <2>2. \A i \in 1..6 : StepAt(k, i) BY <1>3, <2>1 DEF StepAt
  <2> QED BY <1>3, <2>1, <2>2
<1>4. CASE k = "receiver"
  <2>1. /\ Len(Program[k]) = 7 /\ EndAt[k] = 7 /\ ServeAt[k] = 1 /\ WaitAt[k] = 4
        /\ Program[k] = <<"serve", "serveRPC", "notify", "wait", "shutdown", "deadline",
                          "graceful">>
    BY <1>4 DEF Program, ServeAt, WaitAt, EndAt
  <2>2. \A i \in 1..7 : StepAt(k, i) BY <1>4, <2>1 DEF StepAt
  <2> QED BY <1>4, <2>1, <2>2
<1>5. CASE k = "testClient"
  <2>1. /\ Len(Program[k]) = 8 /\ EndAt[k] = 8 /\ ServeAt[k] = 4 /\ WaitAt[k] = 5
        /\ Program[k] = <<"notify", "exporter", "provider", "serve", "wait", "shutdown",
                          "flush", "export">>
    BY <1>5 DEF Program, ServeAt, WaitAt, EndAt
  <2>2. \A i \in 1..8 : StepAt(k, i) BY <1>5, <2>1 DEF StepAt
  <2> QED BY <1>5, <2>1, <2>2
<1> QED BY <1>1, <1>2, <1>3, <1>4, <1>5 DEF Kinds, Apps

-------------------------------------------------------------------------------
(* The overflow of the export interval. *)

LEMMA NoOverflow ==
    ASSUME setting \in Int, metricExportInterval <= 0
    PROVE  setting * Milli >= Overflow
<1>1. setting > 0 BY DurationAssumption DEF metricExportInterval
<1> DEFINE n == setting * Milli
<1>2. n \in Nat BY <1>1, DurationAssumption
<1>3. n > 0 BY <1>1, DurationAssumption
<1>4. Wrapped(n) <= 0 BY <1>1 DEF metricExportInterval
<1>5. Overflow \in Nat /\ Overflow > 0 BY DurationAssumption
<1> HIDE DEF n
<1>6. SUFFICES ASSUME n < Overflow PROVE FALSE BY <1>2, <1>5 DEF n
<1>7. n % (2 * Overflow) = n BY <1>2, <1>5, <1>6
<1>8. Wrapped(n) = n BY <1>6, <1>7 DEF Wrapped
<1> QED BY <1>2, <1>3, <1>4, <1>8

-------------------------------------------------------------------------------
(* The invariant. *)

\* The differences added so far are the last reading.
SamplerInv ==
    /\ SamplerTypeOK
    /\ \A u \in Usages : counter[u] = last[u] /\ seen[u] = last[u] /\ last[u] <= usage[u]

Shape ==
    /\ kind \in Kinds /\ setting \in Int /\ pc \in 1..EndAt[kind]
    /\ status \in {"running", "exited", "fatal", "killed", "panicked"}
    /\ handler \in [AllRequests -> Progress]
    /\ ~Running => Idle(AllRequests)
    /\ recorded \cup batch \cup exported \subseteq AllRequests \cup {Tick}
    /\ provider = "none" => batch = {}

\* The HTTP server handles nothing before it listens, and takes nothing once
\* main is past the signal; only a receiver has a gRPC server, which takes
\* nothing once main waits for its calls.
ServerInv ==
    /\ pc <= ServeAt[kind] => srv = "new"
    /\ (Running /\ pc > WaitAt[kind]) => srv \in {"closed", "failed"}
    /\ srv \in {"new", "starting", "failed"} => Idle(Requests)
    /\ kind # "receiver" => ~rpc /\ Idle(Calls)
    /\ (kind = "receiver" /\ pc = 7) => ~rpc

\* Nothing is cut while the process runs.  Once Shutdown returned, only what
\* outlived it is being handled, and no more than that is cut when main returns.
CutInv ==
    /\ Running => \A r \in AllRequests : handler[r] # "cut"
    /\ status = "exited" => \A r \in AllRequests : handler[r] = "cut" => r \in late
    /\ (Running /\ pc > WaitAt[kind] + 1) => Idle(Requests \ late)

\* What otel-app handled is recorded, and collected by the last collection, but
\* for what outlived Shutdown.
FlushInv ==
    kind = "otel" =>
        /\ pc <= 10 => provider # "down"
        /\ status = "exited" => pc = 11
        /\ \A r \in Requests \ late :
              handler[r] \in {"recorded", "answered"} => r \in recorded
        /\ pc = 11 => \A r \in Requests \ late : handler[r] = "answered" => r \in batch

IInv == SamplerInv /\ Shape /\ ServerInv /\ CutInv /\ FlushInv /\ StartPanicsOnlyOnOverflow

-------------------------------------------------------------------------------
(* The end of a process, and the next step of main. *)

LEMMA EndIs ==
    ASSUME Shape, NEW how, how # "running", End(how)
    PROVE  /\ status' = how /\ ~Running' /\ sampling' = "off"
           /\ handler' \in [AllRequests -> Progress]
           /\ Idle(AllRequests)'
           /\ \A r \in AllRequests : handler'[r] = handler[r] \/ (Active(r) /\ handler'[r] = "cut")
           /\ Idle(AllRequests) => handler' = handler
<1>1. handler' = [r \in AllRequests |-> IF Active(r) THEN "cut" ELSE handler[r]]
      /\ status' = how /\ sampling' = "off"
  BY DEF End
<1>2. handler \in [AllRequests -> Progress] BY DEF Shape
<1>3. ~Running' BY <1>1 DEF Running
<1>4. handler' \in [AllRequests -> Progress] BY <1>1, <1>2 DEF Progress
<1>5. Idle(AllRequests)' BY <1>1 DEF Idle, Active
<1>6. Idle(AllRequests) => handler' = handler BY <1>1, <1>2 DEF Idle
<1> QED BY <1>1, <1>3, <1>4, <1>5, <1>6

LEMMA ProceedIs ==
    ASSUME Shape, Running, Proceed
    PROVE  \/ /\ pc < EndAt[kind] /\ pc' = pc + 1
              /\ status' = status /\ handler' = handler /\ sampling' = sampling
           \/ pc = EndAt[kind] /\ pc' = pc /\ End("exited")
<1>1. /\ Len(Program[kind]) = EndAt[kind] /\ EndAt[kind] \in Nat /\ pc \in 1..EndAt[kind]
  BY Places DEF Shape
<1> QED BY <1>1 DEF Proceed, Continue

-------------------------------------------------------------------------------
(* The sampler. *)

LEMMA SamplerRests ==
    ASSUME SamplerInv, UNCHANGED SamplerRest,
           sampling' \in {sampling, "off", "waiting", "reading"}
    PROVE  SamplerInv'
BY DEF SamplerInv, SamplerTypeOK, SamplerRest

LEMMA AddDeltaKeeps ==
    ASSUME SamplerInv, NEW u \in Usages, AddDelta(u), usage' = usage,
           depth' \in 0..MaxDepth, sampling' \in {"waiting", "reading"}
    PROVE  SamplerInv'
<1>1. /\ usage[u] \in 0..MaxUsage /\ last[u] \in 0..MaxUsage /\ counter[u] = last[u]
      /\ last[u] <= usage[u] /\ seen[u] = last[u]
  BY DEF SamplerInv, SamplerTypeOK
<1>2. /\ counter' = [counter EXCEPT ![u] = usage[u]]
      /\ last' = [last EXCEPT ![u] = usage[u]]
      /\ seen' = [seen EXCEPT ![u] = usage[u]]
  <2>1. last[u] \in Int /\ usage[u] \in Int /\ counter[u] \in Int BY <1>1
  <2>2. (IF usage[u] > last[u] THEN usage[u] ELSE last[u]) = usage[u] BY <1>1, <2>1
  <2>3. (IF usage[u] > last[u] THEN counter[u] + usage[u] - last[u] ELSE counter[u])
          = usage[u]
    BY <1>1, <2>1
  <2> QED BY <2>2, <2>3 DEF AddDelta
<1>3. SamplerTypeOK' BY <1>1, <1>2 DEF SamplerInv, SamplerTypeOK
<1>4. \A v \in Usages : counter'[v] = last'[v] /\ seen'[v] = last'[v] /\ last'[v] <= usage'[v]
  <2> TAKE v \in Usages
  <2>1. CASE v = u BY <1>1, <1>2, <2>1 DEF SamplerInv, SamplerTypeOK
  <2>2. CASE v # u BY <1>2, <2>2 DEF SamplerInv, SamplerTypeOK
  <2> QED BY <2>1, <2>2
<1> QED BY <1>3, <1>4 DEF SamplerInv

LEMMA SamplerKeeps == ASSUME SamplerInv, SamplerStep PROVE SamplerInv'
<1>1. ASSUME NEW u \in Usages, Use(u) PROVE SamplerInv'
  <2>1. /\ usage' = [usage EXCEPT ![u] = usage[u] + 1] /\ usage["cpu"] + usage["gc"] < MaxUsage
        /\ UNCHANGED <<last, counter, depth, sampling, seen>>
    BY <1>1 DEF Use
  <2>2. usage["cpu"] \in 0..MaxUsage /\ usage["gc"] \in 0..MaxUsage /\ MaxUsage \in Nat
    BY UsageAssumption DEF SamplerInv, SamplerTypeOK, Usages
  <2>3. u = "cpu" \/ u = "gc" BY DEF Usages
  <2>4. usage[u] + 1 \in 0..MaxUsage /\ usage[u] \in Nat BY <2>1, <2>2, <2>3
  <2>5. SamplerTypeOK' BY <2>1, <2>4 DEF SamplerInv, SamplerTypeOK
  <2>6. \A v \in Usages : last[v] <= usage'[v]
    <3> TAKE v \in Usages
    <3>1. last[v] \in 0..MaxUsage /\ usage[v] \in 0..MaxUsage /\ last[v] <= usage[v]
      BY DEF SamplerInv, SamplerTypeOK
    <3>2. usage'[v] = usage[v] \/ usage'[v] = usage[v] + 1 
      BY <2>1, <2>4 DEF SamplerInv, SamplerTypeOK
    <3> QED BY <3>1, <3>2
  <2> QED BY <2>1, <2>5, <2>6 DEF SamplerInv
<1>2. CASE TickRead
  <2>1. PICK step \in Steps : depth' = Clamped(depth + step) BY <1>2 DEF TickRead
  <2>2. depth + step \in Int BY StepsAssumption DEF SamplerInv, SamplerTypeOK
  <2>3. depth' \in 0..MaxDepth BY <2>1, <2>2, DepthAssumption DEF Clamped
  <2>4. "gc" \in Usages BY DEF Usages
  <2> QED BY <1>2, <2>3, <2>4, AddDeltaKeeps DEF TickRead
<1>3. CASE SampleFails BY <1>3, SamplerRests DEF SampleFails, SamplerRest
<1>4. CASE SampleSucceeds
  <2>1. depth' \in 0..MaxDepth /\ "cpu" \in Usages
    BY <1>4 DEF SampleSucceeds, SamplerInv, SamplerTypeOK, Usages
  <2> QED BY <1>4, <2>1, AddDeltaKeeps DEF SampleSucceeds
<1> QED BY <1>1, <1>2, <1>3, <1>4 DEF SamplerStep

-------------------------------------------------------------------------------
(* A step of main that is over, and the end of a process in the midst of one. *)

Advances ==
    \/ /\ pc < EndAt[kind] /\ pc' = pc + 1
       /\ status' = status /\ handler' = handler
       /\ sampling' \in {sampling, "waiting"}
    \/ pc = EndAt[kind] /\ pc' = pc /\ End("exited")

\* The facts about the places of steps, for the program that runs.
LEMMA Here ==
    ASSUME Shape
    PROVE  /\ pc \in Nat /\ 1 <= pc /\ pc <= EndAt[kind]
           /\ ServeAt[kind] \in Nat /\ WaitAt[kind] \in Nat /\ EndAt[kind] \in Nat
           /\ 1 <= ServeAt[kind] /\ ServeAt[kind] < WaitAt[kind] /\ WaitAt[kind] < EndAt[kind]
           /\ kind \in {"otel", "testClient"} => EndAt[kind] = WaitAt[kind] + 3
           /\ kind \in {"prometheus", "uninstrumented"} => EndAt[kind] = WaitAt[kind] + 1
           /\ kind = "receiver" => WaitAt[kind] = 4 /\ EndAt[kind] = 7 /\ ServeAt[kind] = 1
           /\ kind = "otel" => WaitAt[kind] = 8 /\ EndAt[kind] = 11
           /\ StepAt(kind, pc)
<1>1. kind \in Kinds /\ pc \in 1..EndAt[kind] BY DEF Shape
<1>2. EndAt[kind] \in Nat BY <1>1, Places
<1>3. /\ kind = "receiver" => WaitAt[kind] = 4 /\ EndAt[kind] = 7 /\ ServeAt[kind] = 1
      /\ kind = "otel" => WaitAt[kind] = 8 /\ EndAt[kind] = 11
  BY DEF WaitAt, EndAt, ServeAt
<1> QED BY <1>1, <1>2, <1>3, Places

LEMMA AdvanceShape ==
    ASSUME IInv, Running, Advances, UNCHANGED <<Setup, SamplerRest>>,
           recorded' \cup batch' \cup exported' \subseteq AllRequests \cup {Tick},
           provider' = "none" => batch' = {}
    PROVE  SamplerInv' /\ Shape' /\ StartPanicsOnlyOnOverflow'
<1>1. /\ kind' = kind /\ setting' = setting /\ Shape /\ SamplerInv /\ Running
      /\ status = "running"
  BY DEF IInv, Setup, Running
<1>2. CASE /\ pc < EndAt[kind] /\ pc' = pc + 1
           /\ status' = status /\ handler' = handler
           /\ sampling' \in {sampling, "waiting"}
  <2>1. pc' \in 1..EndAt[kind] BY <1>1, <1>2, Here
  <2>2. SamplerInv' BY <1>1, <1>2, SamplerRests
  <2>3. status' = "running" BY <1>1, <1>2
  <2> QED BY <1>1, <1>2, <2>1, <2>2, <2>3
          DEF Shape, Running, StartPanicsOnlyOnOverflow
<1>3. CASE pc = EndAt[kind] /\ pc' = pc /\ End("exited")
  <2>1. /\ status' = "exited" /\ sampling' = "off" /\ Idle(AllRequests)'
        /\ handler' \in [AllRequests -> Progress]
    BY <1>1, <1>3, EndIs
  <2>2. SamplerInv' BY <1>1, <2>1, SamplerRests
  <2> QED BY <1>1, <1>3, <2>1, <2>2 DEF Shape, StartPanicsOnlyOnOverflow
<1> QED BY <1>2, <1>3 DEF Advances

LEMMA AdvanceServers ==
    ASSUME IInv, Running, Advances, UNCHANGED <<Setup, Servers>>,
           pc # ServeAt[kind], pc # WaitAt[kind], ~(kind = "receiver" /\ pc = 6)
    PROVE  ServerInv'
<1>1. /\ kind' = kind /\ srv' = srv /\ rpc' = rpc /\ Shape /\ ServerInv /\ Running
  BY DEF IInv, Setup, Servers
<1>2. CASE pc < EndAt[kind] /\ pc' = pc + 1 /\ status' = status /\ handler' = handler
  BY <1>1, <1>2, Here DEF ServerInv, Running, Idle, Active
<1>3. CASE pc = EndAt[kind] /\ pc' = pc /\ End("exited")
  <2>1. ~Running' /\ Idle(AllRequests)' BY <1>1, <1>3, EndIs
  <2>2. Idle(Requests)' /\ Idle(Calls)' BY <2>1 DEF Idle, AllRequests
  <2> QED BY <1>1, <1>3, <2>1, <2>2 DEF ServerInv
<1> QED BY <1>2, <1>3 DEF Advances

LEMMA AdvanceCut ==
    ASSUME IInv, Running, Advances, UNCHANGED Setup,
           late \subseteq late',
           pc > WaitAt[kind] => Idle(Requests \ late'),
           pc = EndAt[kind] => Idle(AllRequests \ late')
    PROVE  CutInv'
<1>1. /\ kind' = kind /\ Shape /\ CutInv /\ Running BY DEF IInv, Setup
<1>2. CASE pc < EndAt[kind] /\ pc' = pc + 1 /\ status' = status /\ handler' = handler
  <2>1. Running' /\ status' # "exited" BY <1>1, <1>2 DEF Running
  <2>2. pc' > WaitAt[kind] + 1 => pc > WaitAt[kind] BY <1>1, <1>2, Here
  <2>3. pc' > WaitAt[kind] + 1 => Idle(Requests \ late)'
    BY <1>2, <2>2 DEF Idle, Active
  <2> QED BY <1>1, <1>2, <2>1, <2>3 DEF CutInv
<1>3. CASE pc = EndAt[kind] /\ pc' = pc /\ End("exited")
  <2>1. /\ ~Running'
        /\ \A r \in AllRequests :
             handler'[r] = handler[r] \/ (Active(r) /\ handler'[r] = "cut")
    BY <1>1, <1>3, EndIs
  <2>2. \A r \in AllRequests : handler'[r] = "cut" => r \in late'
    BY <1>1, <1>3, <2>1 DEF CutInv, Idle
  <2> QED BY <2>1, <2>2 DEF CutInv
<1> QED BY <1>2, <1>3 DEF Advances

LEMMA AdvanceFlush ==
    ASSUME IInv, Running, Advances, UNCHANGED <<Setup, recorded, batch>>,
           late \subseteq late', provider' \in {provider, "up"},
           kind = "otel" => pc # 10
    PROVE  FlushInv'
<1>1. /\ kind' = kind /\ recorded' = recorded /\ batch' = batch /\ Shape /\ FlushInv
  BY DEF IInv, Setup
<1>2. \A r \in AllRequests : handler'[r] = handler[r] \/ handler'[r] = "cut"
  BY <1>1, EndIs DEF Advances
<1>3. kind = "otel" => /\ pc \in Nat /\ EndAt[kind] = 11 /\ pc <= 11
                       /\ pc' = (IF pc = 11 THEN 11 ELSE pc + 1)
  BY <1>1, Here DEF Advances
<1>4. ASSUME kind = "otel"
      PROVE  (pc' <= 10 => pc <= 10) /\ (pc' = 11 => pc = 11)
  BY <1>3, <1>4
<1>5. ASSUME kind = "otel", pc' <= 10 PROVE provider' # "down"
  <2>1. pc <= 10 BY <1>4, <1>5
  <2>2. provider # "down" BY <1>1, <1>5, <2>1 DEF FlushInv
  <2> QED BY <2>2
<1>6. ASSUME kind = "otel", NEW r \in Requests \ late', handler'[r] \in {"recorded", "answered"}
      PROVE  r \in recorded'
  BY <1>1, <1>2, <1>6 DEF FlushInv, AllRequests
<1>7. ASSUME kind = "otel", pc' = 11, NEW r \in Requests \ late', handler'[r] = "answered"
      PROVE  r \in batch'
  BY <1>1, <1>2, <1>4, <1>7 DEF FlushInv, AllRequests
<1>8. ASSUME kind = "otel", status' = "exited" PROVE pc' = 11
  BY <1>1, <1>3, <1>8 DEF Advances, Running
<1> QED BY <1>1, <1>5, <1>6, <1>7, <1>8 DEF FlushInv

LEMMA Dies ==
    ASSUME IInv, Running, NEW how \in {"exited", "fatal", "killed", "panicked"}, End(how),
           UNCHANGED <<SamplerRest, Setup, pc, rpc, Metrics>>,
           srv' = srv \/ (srv = "starting" /\ srv' = "failed"),
           late \subseteq late',
           how = "exited" => Idle(AllRequests) /\ kind # "otel",
           how = "panicked" => setting * Milli >= Overflow
    PROVE  IInv'
<1>1. /\ kind' = kind /\ setting' = setting /\ pc' = pc /\ rpc' = rpc
      /\ recorded' = recorded /\ batch' = batch /\ exported' = exported /\ provider' = provider
  BY DEF Setup, Metrics
<1>2. SamplerInv /\ Shape /\ ServerInv /\ CutInv /\ FlushInv BY DEF IInv
<1>3. /\ status' = how /\ ~Running' /\ sampling' = "off" /\ Idle(AllRequests)'
      /\ handler' \in [AllRequests -> Progress]
      /\ \A r \in AllRequests : handler'[r] = handler[r] \/ handler'[r] = "cut"
      /\ Idle(AllRequests) => handler' = handler
  BY <1>2, EndIs
<1>4. SamplerInv' BY <1>2, <1>3, SamplerRests
<1>5. Shape' BY <1>1, <1>2, <1>3 DEF Shape
<1>6. Idle(Requests)' /\ Idle(Calls)' BY <1>3 DEF Idle, AllRequests
<1>7. ServerInv' BY <1>1, <1>2, <1>3, <1>6 DEF ServerInv
<1>8. CutInv' BY <1>2, <1>3 DEF CutInv
<1>9. FlushInv' BY <1>1, <1>2, <1>3 DEF FlushInv, AllRequests
<1>10. StartPanicsOnlyOnOverflow' BY <1>1, <1>3 DEF StartPanicsOnlyOnOverflow
<1> QED BY <1>4, <1>5, <1>7, <1>8, <1>9, <1>10 DEF IInv

-------------------------------------------------------------------------------
(* The steps of main keep the invariant. *)

LEMMA InitIInv == ASSUME Init PROVE IInv
<1>1. /\ kind \in Kinds /\ setting \in Int /\ pc = 1 /\ status = "running"
      /\ srv = "new" /\ rpc = FALSE /\ handler = [r \in AllRequests |-> "none"]
      /\ recorded = {} /\ batch = {} /\ exported = {} /\ provider = "none"
  BY SettingsAssumption DEF Init
<1>2. SamplerInv
  BY UsageAssumption, DepthAssumption DEF Init, SamplerInit, SamplerInv, SamplerTypeOK
<1>3. /\ 1 <= ServeAt[kind] /\ ServeAt[kind] < WaitAt[kind] /\ WaitAt[kind] < EndAt[kind]
      /\ ServeAt[kind] \in Nat /\ WaitAt[kind] \in Nat /\ EndAt[kind] \in Nat
  BY <1>1, Places
<1>4. Idle(AllRequests) /\ Idle(Requests) /\ Idle(Calls)
  BY <1>1 DEF Idle, Active, AllRequests
<1>5. Shape BY <1>1, <1>3, <1>4 DEF Shape, Progress, Running
<1>6. ServerInv BY <1>1, <1>3, <1>4 DEF ServerInv
<1>7. CutInv
  <2>1. \A r \in AllRequests : handler[r] # "cut" BY <1>1
  <2>2. ~(pc > WaitAt[kind] + 1) BY <1>1, <1>3
  <2> QED BY <1>1, <2>1, <2>2 DEF CutInv
<1>8. FlushInv BY <1>1 DEF FlushInv, AllRequests
<1> QED BY <1>1, <1>2, <1>5, <1>6, <1>7, <1>8 DEF IInv, StartPanicsOnlyOnOverflow

\* A step before the servers are waited for, that leaves them as they are.
LEMMA EarlyStep ==
    ASSUME IInv, Running, Advances,
           UNCHANGED <<SamplerRest, Setup, Servers, recorded, batch, exported, Deadlines>>,
           provider' \in {provider, "up"}, pc < WaitAt[kind], pc # ServeAt[kind]
    PROVE  IInv'
<1>1. Shape /\ recorded' = recorded /\ batch' = batch /\ exported' = exported /\ late' = late
  BY DEF IInv, Deadlines
<1>2. SamplerInv' /\ Shape' /\ StartPanicsOnlyOnOverflow'
  <2>1. provider' = "none" => batch' = {} BY <1>1 DEF Shape
  <2>2. recorded' \cup batch' \cup exported' \subseteq AllRequests \cup {Tick}
    BY <1>1 DEF Shape
  <2> QED BY <2>1, <2>2, AdvanceShape
<1>3. /\ pc # WaitAt[kind] /\ ~(pc > WaitAt[kind]) /\ pc # EndAt[kind]
      /\ ~(kind = "receiver" /\ pc = 6) /\ (kind = "otel" => pc # 10)
  BY <1>1, Here
<1>4. ServerInv' BY <1>3, AdvanceServers
<1>5. CutInv' BY <1>1, <1>3, AdvanceCut
<1>6. FlushInv' BY <1>1, <1>3, AdvanceFlush
<1> QED BY <1>2, <1>4, <1>5, <1>6 DEF IInv

LEMMA StartKeeps ==
    ASSUME IInv, SetUp \/ SetUpFails \/ Jitter \/ NewMeterProvider \/ Background
    PROVE  IInv'
<1>1. Shape /\ ServerInv BY DEF IInv
<1>2. ASSUME At("notify") \/ At("reader") \/ At("exporter") \/ At("jitter")
               \/ At("provider") \/ At("background")
      PROVE  Running /\ pc < WaitAt[kind] /\ pc # ServeAt[kind]
  BY <1>1, <1>2, Here DEF At, StepAt
<1>3. CASE SetUp
  <2>1. Running /\ pc < WaitAt[kind] /\ pc # ServeAt[kind] BY <1>2, <1>3 DEF SetUp
  <2>2. Advances BY <1>1, <1>3, <2>1, ProceedIs DEF SetUp, Advances
  <2> QED BY <1>3, <2>1, <2>2, EarlyStep DEF SetUp, Metrics
<1>4. CASE SetUpFails
  <2>1. Running BY <1>4 DEF SetUpFails, At
  <2>2. CASE kind = "testClient"
    <3>1. pc < ServeAt[kind]
      BY <1>1, <1>4, <2>2, Here DEF SetUpFails, At, StepAt
    <3>2. srv = "new" BY <1>1, <3>1, Here DEF ServerInv
    <3>3. Idle(AllRequests) BY <1>1, <2>2, <3>2 DEF ServerInv, Idle, AllRequests
    <3>4. End("exited") BY <1>4, <2>2 DEF SetUpFails
    <3> QED BY <1>4, <2>1, <2>2, <3>3, <3>4, Dies DEF SetUpFails, Servers, Deadlines
  <2>3. CASE kind # "testClient"
    <3>1. End("fatal") BY <1>4, <2>3 DEF SetUpFails
    <3> QED BY <1>4, <2>1, <3>1, Dies DEF SetUpFails, Servers, Deadlines
  <2> QED BY <2>2, <2>3
<1>5. CASE Jitter
  <2>1. Running /\ pc < WaitAt[kind] /\ pc # ServeAt[kind] BY <1>2, <1>5 DEF Jitter
  <2>2. CASE metricExportInterval <= 0
    <3>1. End("panicked") /\ pc' = pc BY <1>5, <2>2 DEF Jitter
    <3>2. setting * Milli >= Overflow BY <1>1, <2>2, NoOverflow DEF Shape
    <3> QED BY <1>5, <2>1, <3>1, <3>2, Dies DEF Jitter, Servers, Deadlines
  <2>3. CASE ~(metricExportInterval <= 0)
    <3>1. Advances BY <1>1, <1>5, <2>1, <2>3, ProceedIs DEF Jitter, Advances
    <3> QED BY <1>5, <2>1, <3>1, EarlyStep DEF Jitter, Metrics
  <2> QED BY <2>2, <2>3
<1>6. CASE NewMeterProvider
  <2>1. Running /\ pc < WaitAt[kind] /\ pc # ServeAt[kind] BY <1>2, <1>6 DEF NewMeterProvider
  <2>2. Advances BY <1>1, <1>6, <2>1, ProceedIs DEF NewMeterProvider, Advances
  <2> QED BY <1>6, <2>1, <2>2, EarlyStep DEF NewMeterProvider
<1>7. CASE Background
  <2>1. Running /\ pc < WaitAt[kind] /\ pc # ServeAt[kind] BY <1>2, <1>7 DEF Background
  <2>2. pc < EndAt[kind] BY <1>1, <2>1, Here
  <2>3. Advances BY <1>7, <2>2 DEF Background, StartSampler, Advances
  <2>4. UNCHANGED SamplerRest BY <1>7 DEF Background, StartSampler, SamplerRest
  <2> QED BY <1>7, <2>1, <2>3, <2>4, EarlyStep DEF Background, Metrics
<1> QED BY <1>3, <1>4, <1>5, <1>6, <1>7

LEMMA ServeKeeps == ASSUME IInv, Serve \/ ServeRPC \/ WaitEnds \/ ListenError PROVE IInv'
<1>1. Shape /\ ServerInv /\ CutInv BY DEF IInv
<1>2. ASSUME UNCHANGED Metrics
      PROVE  /\ recorded' \cup batch' \cup exported' \subseteq AllRequests \cup {Tick}
             /\ provider' = "none" => batch' = {}
             /\ recorded' = recorded /\ batch' = batch /\ provider' \in {provider, "up"}
  BY <1>1, <1>2 DEF Shape, Metrics
<1>3. CASE Serve
  <2>1. Running /\ pc = ServeAt[kind] BY <1>1, <1>3, Here DEF Serve, At, StepAt
  <2>2. Advances BY <1>1, <1>3, <2>1, ProceedIs DEF Serve, Advances
  <2>3. /\ UNCHANGED <<SamplerRest, Setup, rpc, Metrics, Deadlines>> /\ srv' = "starting"
        /\ kind' = kind /\ late' = late
    BY <1>3 DEF Serve, Setup, Deadlines
  <2>4. SamplerInv' /\ Shape' /\ StartPanicsOnlyOnOverflow'
    BY <1>2, <2>1, <2>2, <2>3, AdvanceShape
  <2>5. /\ pc' = pc + 1 /\ status' = status /\ handler' = handler
        /\ pc' > ServeAt[kind] /\ ~(pc > WaitAt[kind]) /\ ~(pc' > WaitAt[kind])
        /\ pc # EndAt[kind] /\ (kind = "otel" => pc # 10) /\ ~(kind = "receiver" /\ pc' = 7)
    BY <1>1, <2>1, <2>2, Here DEF Advances
  <2>6. Idle(Requests)' /\ (kind # "receiver" => Idle(Calls)')
    <3>1. srv = "new" BY <1>1, <2>1, Here DEF ServerInv
    <3> QED BY <1>1, <2>5, <3>1 DEF ServerInv, Idle, Active
  <2>7. ServerInv'
    <3>1. ~(pc' <= ServeAt[kind]) BY <1>1, <2>1, <2>5, Here
    <3> QED BY <1>1, <2>3, <2>5, <2>6, <3>1 DEF ServerInv
  <2>8. CutInv' BY <2>1, <2>2, <2>3, <2>5, AdvanceCut
  <2>9. FlushInv' BY <1>2, <2>1, <2>2, <2>3, <2>5, AdvanceFlush
  <2> QED BY <2>4, <2>7, <2>8, <2>9 DEF IInv
<1>4. CASE ServeRPC
  <2>1. Running /\ kind = "receiver" /\ pc = 2 BY <1>1, <1>4, Here DEF ServeRPC, At, StepAt
  <2>2. Advances BY <1>1, <1>4, <2>1, ProceedIs DEF ServeRPC, Advances
  <2>3. /\ UNCHANGED <<SamplerRest, Setup, srv, Metrics, Deadlines>>
        /\ kind' = kind /\ late' = late
    BY <1>4 DEF ServeRPC, Setup, Deadlines
  <2>4. SamplerInv' /\ Shape' /\ StartPanicsOnlyOnOverflow'
    BY <1>2, <2>1, <2>2, <2>3, AdvanceShape
  <2>5. /\ pc' = 3 /\ status' = status /\ handler' = handler
        /\ WaitAt[kind] = 4 /\ EndAt[kind] = 7 /\ ServeAt[kind] = 1
    BY <1>1, <2>1, <2>2, Here DEF Advances
  <2>6. ServerInv' BY <1>1, <2>1, <2>3, <2>5 DEF ServerInv, Idle, Active
  <2>7. CutInv' BY <2>1, <2>2, <2>3, <2>5, AdvanceCut
  <2>8. FlushInv' BY <1>2, <2>1, <2>2, <2>3, AdvanceFlush
  <2> QED BY <2>4, <2>6, <2>7, <2>8 DEF IInv
<1>5. CASE WaitEnds
  <2>1. Running /\ pc = WaitAt[kind] BY <1>1, <1>5, Here DEF WaitEnds, At, StepAt
  <2>2. Advances BY <1>1, <1>5, <2>1, ProceedIs DEF WaitEnds, Advances
  <2>3. /\ UNCHANGED <<SamplerRest, Setup, rpc, Metrics>> /\ srv' = "closed"
        /\ kind' = kind /\ late' = late
    BY <1>5 DEF WaitEnds, Setup
  <2>4. SamplerInv' /\ Shape' /\ StartPanicsOnlyOnOverflow'
    BY <1>2, <2>1, <2>2, <2>3, AdvanceShape
  <2>5. /\ pc' = pc + 1 /\ status' = status /\ handler' = handler
        /\ ~(pc' <= ServeAt[kind]) /\ ~(pc > WaitAt[kind])
        /\ pc # EndAt[kind] /\ (kind = "otel" => pc # 10) /\ ~(kind = "receiver" /\ pc' = 7)
    BY <1>1, <2>1, <2>2, Here DEF Advances
  <2>6. ServerInv' BY <1>1, <2>3, <2>5 DEF ServerInv, Idle, Active
  <2>7. CutInv' BY <2>1, <2>2, <2>3, <2>5, AdvanceCut
  <2>8. FlushInv' BY <1>2, <2>1, <2>2, <2>3, <2>5, AdvanceFlush
  <2> QED BY <2>4, <2>6, <2>7, <2>8 DEF IInv
<1>6. CASE ListenError
  <2>1. /\ Running /\ pc = WaitAt[kind] /\ srv = "failed"
        /\ UNCHANGED <<SamplerRest, sampling, Setup, status, handler, srv, rpc, Metrics, late>>
        /\ pc' = pc + 2
    BY <1>1, <1>6, Here DEF ListenError, At, StepAt, Servers, Deadlines
  <2>2. kind = "testClient" BY <1>6 DEF ListenError
  <2>3. kind' = kind /\ setting' = setting /\ rpc' = rpc BY <2>1 DEF Setup
  <2>4. /\ pc' \in 1..EndAt[kind] /\ ~(pc' <= ServeAt[kind])
        /\ pc \in Nat
    BY <1>1, <2>1, <2>2, Here
  <2>5. status' = "running" /\ Running' BY <2>1 DEF Running
  <2>6. SamplerInv' BY <2>1, SamplerRests DEF IInv
  <2>7. Shape' BY <1>1, <1>2, <2>1, <2>3, <2>4, <2>5 DEF Shape
  <2>8. ServerInv' BY <1>1, <2>1, <2>2, <2>3, <2>4 DEF ServerInv, Idle, Active
  <2>9. CutInv' BY <1>1, <2>1, <2>3 DEF CutInv, ServerInv, Idle, Active
  <2>10. FlushInv' BY <2>2, <2>3 DEF FlushInv
  <2>11. StartPanicsOnlyOnOverflow' BY <2>5 DEF StartPanicsOnlyOnOverflow
  <2> QED BY <2>6, <2>7, <2>8, <2>9, <2>10, <2>11 DEF IInv
<1> QED BY <1>3, <1>4, <1>5, <1>6

LEMMA StopKeeps ==
    ASSUME IInv,
           \/ ShutdownReturns \/ ShutdownTimesOut \/ Flush \/ FlushReturns
           \/ DeadlineEnds \/ GracefulReturns
    PROVE  IInv'
<1>1. Shape /\ ServerInv /\ CutInv /\ FlushInv BY DEF IInv
<1>2. ASSUME UNCHANGED Metrics
      PROVE  /\ recorded' \cup batch' \cup exported' \subseteq AllRequests \cup {Tick}
             /\ provider' = "none" => batch' = {}
             /\ recorded' = recorded /\ batch' = batch /\ provider' \in {provider, "up"}
  BY <1>1, <1>2 DEF Shape, Metrics
<1>3. kind # "receiver" => (Idle(Requests) => Idle(AllRequests))
  BY <1>1 DEF ServerInv, Idle, AllRequests
<1>4. ASSUME ShutdownReturns \/ ShutdownTimesOut
      PROVE  /\ Running /\ pc = WaitAt[kind] + 1 /\ pc > WaitAt[kind]
             /\ pc # ServeAt[kind] /\ pc # WaitAt[kind]
             /\ ~(kind = "receiver" /\ pc = 6) /\ (kind = "otel" => pc # 10)
             /\ (kind = "receiver" => pc # EndAt[kind])
             /\ UNCHANGED <<SamplerRest, Setup, Servers, Metrics>>
  BY <1>1, <1>4, Here DEF ShutdownReturns, ShutdownTimesOut, At, StepAt
<1>5. CASE ShutdownReturns
  <2>1. Advances BY <1>1, <1>4, <1>5, ProceedIs DEF ShutdownReturns, Advances
  <2>2. Idle(Requests) /\ late' = late /\ Idle(Requests \ late')
    BY <1>5 DEF ShutdownReturns, Deadlines, Idle
  <2>3. SamplerInv' /\ Shape' /\ StartPanicsOnlyOnOverflow'
    BY <1>2, <1>4, <1>5, <2>1, AdvanceShape
  <2>4. ServerInv' BY <1>4, <1>5, <2>1, AdvanceServers
  <2>5. CutInv'
    <3>1. ASSUME pc = EndAt[kind] PROVE Idle(AllRequests \ late')
      <4>1. kind # "receiver" BY <1>4, <1>5, <3>1
      <4>2. Idle(AllRequests) BY <1>3, <2>2, <4>1
      <4> QED BY <4>2 DEF Idle
    <3> QED BY <1>4, <1>5, <2>1, <2>2, <3>1, AdvanceCut
  <2>6. FlushInv' BY <1>2, <1>4, <1>5, <2>1, <2>2, AdvanceFlush
  <2> QED BY <2>3, <2>4, <2>5, <2>6 DEF IInv
<1>6. CASE ShutdownTimesOut
  <2>1. late' = late \cup {r \in Requests : Active(r)} BY <1>6 DEF ShutdownTimesOut
  <2>2. CASE kind = "receiver"
    <3>1. End("fatal") /\ pc' = pc BY <1>6, <2>2 DEF ShutdownTimesOut
    <3> QED BY <1>4, <1>6, <2>1, <3>1, Dies DEF Servers
  <2>3. CASE kind # "receiver"
    <3>1. Advances BY <1>1, <1>4, <1>6, <2>3, ProceedIs DEF ShutdownTimesOut, Advances
    <3>2. SamplerInv' /\ Shape' /\ StartPanicsOnlyOnOverflow'
      BY <1>2, <1>4, <1>6, <3>1, AdvanceShape
    <3>3. ServerInv' BY <1>4, <1>6, <3>1, AdvanceServers
    <3>4. CutInv'
      <4>1. Idle(Calls) BY <1>1, <2>3 DEF ServerInv
      <4>2. Idle(Requests \ late') /\ Idle(AllRequests \ late')
        BY <2>1, <4>1 DEF Idle, AllRequests
      <4> QED BY <1>4, <1>6, <2>1, <3>1, <4>2, AdvanceCut
    <3>5. FlushInv' BY <1>2, <1>4, <1>6, <2>1, <3>1, AdvanceFlush
    <3> QED BY <3>2, <3>3, <3>4, <3>5 DEF IInv
  <2> QED BY <2>2, <2>3
<1>7. CASE Flush
  <2>1. /\ Running /\ kind \in {"otel", "testClient"} /\ pc = WaitAt[kind] + 2
    BY <1>1, <1>7, Here DEF Flush, At, StepAt
  <2>2. Advances BY <1>1, <1>7, <2>1, ProceedIs DEF Flush, Advances
  <2>3. /\ UNCHANGED <<SamplerRest, Setup, Servers>> /\ kind' = kind
        /\ recorded' = recorded /\ exported' = exported /\ batch' = recorded
        /\ provider' = "down" /\ late' = late
    BY <1>7 DEF Flush, Setup
  <2>4. /\ pc' = pc + 1 /\ handler' = handler /\ pc # EndAt[kind]
        /\ pc > WaitAt[kind] + 1 /\ pc # ServeAt[kind] /\ pc # WaitAt[kind]
        /\ ~(kind = "receiver" /\ pc = 6) /\ (kind = "otel" => pc = 10)
    BY <1>1, <2>1, <2>2, Here DEF Advances
  <2>5. SamplerInv' /\ Shape' /\ StartPanicsOnlyOnOverflow'
    <3>1. recorded' \cup batch' \cup exported' \subseteq AllRequests \cup {Tick}
      BY <1>1, <2>3 DEF Shape
    <3> QED BY <2>1, <2>2, <2>3, <3>1, AdvanceShape
  <2>6. ServerInv' BY <2>1, <2>2, <2>3, <2>4, AdvanceServers
  <2>7. CutInv' BY <1>1, <2>1, <2>2, <2>3, <2>4, AdvanceCut DEF CutInv
  <2>8. FlushInv'
    <3>1. status' # "exited" BY <2>1, <2>2, <2>4 DEF Advances, Running
    <3> QED BY <1>1, <2>3, <2>4, <3>1 DEF FlushInv
  <2> QED BY <2>5, <2>6, <2>7, <2>8 DEF IInv
<1>8. CASE FlushReturns
  <2>1. /\ Running /\ kind \in {"otel", "testClient"} /\ pc = WaitAt[kind] + 3
        /\ pc > WaitAt[kind] + 1 /\ pc # ServeAt[kind] /\ pc # WaitAt[kind]
        /\ ~(kind = "receiver" /\ pc = 6) /\ (kind = "otel" => pc # 10)
    BY <1>1, <1>8, Here DEF FlushReturns, At, StepAt
  <2>2. Advances BY <1>1, <1>8, <2>1, ProceedIs DEF FlushReturns, Advances
  <2>3. /\ UNCHANGED <<SamplerRest, Setup, Servers, recorded, batch, provider>>
        /\ exported' \in {exported, batch} /\ late' = late
    BY <1>8 DEF FlushReturns, Deadlines
  <2>4. SamplerInv' /\ Shape' /\ StartPanicsOnlyOnOverflow'
    <3>1. recorded' \cup batch' \cup exported' \subseteq AllRequests \cup {Tick}
      BY <1>1, <2>3 DEF Shape
    <3>2. provider' = "none" => batch' = {} BY <1>1, <2>3 DEF Shape
    <3> QED BY <2>1, <2>2, <2>3, <3>1, <3>2, AdvanceShape
  <2>5. ServerInv' BY <2>1, <2>2, <2>3, AdvanceServers
  <2>6. CutInv'
    <3>1. Idle(Requests \ late') BY <1>1, <2>1, <2>3 DEF CutInv
    <3>2. Idle(AllRequests \ late') BY <1>1, <2>1, <3>1 DEF ServerInv, Idle, AllRequests
    <3> QED BY <2>1, <2>2, <2>3, <3>1, <3>2, AdvanceCut
  <2>7. FlushInv' BY <2>1, <2>2, <2>3, AdvanceFlush
  <2> QED BY <2>4, <2>5, <2>6, <2>7 DEF IInv
<1>9. CASE DeadlineEnds
  <2>1. Running /\ kind = "receiver" /\ pc = 6 BY <1>1, <1>9, Here DEF DeadlineEnds, At, StepAt
  <2>2. Advances BY <1>1, <1>9, <2>1, ProceedIs DEF DeadlineEnds, Advances
  <2>3. /\ UNCHANGED <<SamplerRest, Setup, srv, Metrics>> /\ kind' = kind
        /\ rpc' = FALSE /\ late' = late
    BY <1>9 DEF DeadlineEnds, Setup, Deadlines
  <2>4. /\ pc' = 7 /\ status' = status /\ handler' = handler
        /\ WaitAt[kind] = 4 /\ EndAt[kind] = 7 /\ ServeAt[kind] = 1
    BY <1>1, <2>1, <2>2, Here DEF Advances
  <2>5. SamplerInv' /\ Shape' /\ StartPanicsOnlyOnOverflow'
    BY <1>2, <2>1, <2>2, <2>3, AdvanceShape
  <2>6. ServerInv' BY <1>1, <2>1, <2>3, <2>4 DEF ServerInv, Idle, Active, Running
  <2>7. CutInv'
    <3>1. Idle(Requests \ late') BY <1>1, <2>1, <2>3, <2>4 DEF CutInv
    <3> QED BY <2>1, <2>2, <2>3, <2>4, <3>1, AdvanceCut
  <2>8. FlushInv' BY <2>1, <2>3 DEF FlushInv
  <2> QED BY <2>5, <2>6, <2>7, <2>8 DEF IInv
<1>10. CASE GracefulReturns
  <2>1. Running /\ kind = "receiver" /\ pc = 7 BY <1>1, <1>10, Here DEF GracefulReturns, At, StepAt
  <2>2. Advances BY <1>1, <1>10, <2>1, ProceedIs DEF GracefulReturns, Advances
  <2>3. /\ UNCHANGED <<SamplerRest, Setup, Servers, Metrics>> /\ kind' = kind
        /\ late' = late /\ Idle(Calls)
    BY <1>10 DEF GracefulReturns, Setup, Deadlines
  <2>4. WaitAt[kind] = 4 /\ EndAt[kind] = 7 /\ ServeAt[kind] = 1 BY <1>1, <2>1, Here
  <2>5. SamplerInv' /\ Shape' /\ StartPanicsOnlyOnOverflow'
    BY <1>2, <2>1, <2>2, <2>3, AdvanceShape
  <2>6. ServerInv' BY <2>1, <2>2, <2>3, <2>4, AdvanceServers
  <2>7. CutInv'
    <3>1. Idle(Requests \ late') BY <1>1, <2>1, <2>3, <2>4 DEF CutInv
    <3>2. Idle(AllRequests \ late') BY <2>3, <3>1 DEF Idle, AllRequests
    <3> QED BY <2>1, <2>2, <2>3, <3>1, <3>2, AdvanceCut
  <2>8. FlushInv' BY <2>1, <2>3 DEF FlushInv
  <2> QED BY <2>5, <2>6, <2>7, <2>8 DEF IInv
<1> QED BY <1>5, <1>6, <1>7, <1>8, <1>9, <1>10

-------------------------------------------------------------------------------
(* The other steps keep the invariant. *)

\* What a step of neither main nor the end of the process leaves alone.
Beside == UNCHANGED <<Setup, pc, status, rpc, batch, provider, late>>

\* A step of the rest of the process that leaves the requests alone.
LEMMA BesideKeeps ==
    ASSUME IInv, Beside, SamplerInv', handler' = handler,
           srv' = srv \/ (Running /\ srv = "starting" /\ srv' \in {"listening", "failed"}),
           recorded \subseteq recorded',
           recorded' \cup exported' \subseteq AllRequests \cup {Tick}
    PROVE  IInv'
<1>1. Shape /\ ServerInv /\ CutInv /\ FlushInv /\ StartPanicsOnlyOnOverflow BY DEF IInv
<1>2. /\ kind' = kind /\ setting' = setting /\ pc' = pc /\ status' = status /\ rpc' = rpc
      /\ batch' = batch /\ provider' = provider /\ late' = late
  BY DEF Beside, Setup
<1>3. Shape' BY <1>1, <1>2 DEF Shape, Running, Idle, Active
<1>4. ServerInv' BY <1>1, <1>2 DEF ServerInv, Running, Idle, Active
<1>5. CutInv' BY <1>1, <1>2 DEF CutInv, Running, Idle, Active
<1>6. FlushInv' BY <1>1, <1>2 DEF FlushInv
<1>7. StartPanicsOnlyOnOverflow' BY <1>1, <1>2 DEF StartPanicsOnlyOnOverflow
<1> QED BY <1>3, <1>4, <1>5, <1>6, <1>7 DEF IInv

LEMMA ProcessKeeps ==
    ASSUME IInv, Signal \/ Deadline \/ Listens \/ ListenFails \/ Add \/ Export
                   \/ Sample \/ SamplerEnds \/ Ended
    PROVE  IInv'
<1>1. Shape /\ SamplerInv BY DEF IInv
<1>2. recorded \cup exported \subseteq AllRequests \cup {Tick} BY <1>1 DEF Shape
<1>3. ASSUME UNCHANGED samplerVars PROVE SamplerInv'
  BY <1>1, <1>3, SamplerRests DEF samplerVars, SamplerRest
<1>4. CASE Signal
  <2>1. /\ Running /\ UNCHANGED <<SamplerRest, Setup, pc, Servers, Metrics, Deadlines>>
        /\ End("killed") \/ UNCHANGED <<status, sampling, handler>>
    BY <1>4 DEF Signal
  <2>2. CASE End("killed") BY <2>1, <2>2, Dies DEF Servers, Deadlines
  <2>3. CASE UNCHANGED <<status, sampling, handler>>
    <3>1. SamplerInv' BY <1>1, <2>1, <2>3, SamplerRests
    <3> QED BY <1>2, <2>1, <2>3, <3>1, BesideKeeps DEF Beside, Servers, Metrics, Deadlines
  <2> QED BY <2>1, <2>2, <2>3
<1>5. CASE Deadline
  BY <1>2, <1>3, <1>5, BesideKeeps DEF Deadline, Beside, Servers, Metrics
<1>6. CASE Listens
  BY <1>2, <1>3, <1>6, BesideKeeps DEF Listens, Beside, Metrics, Deadlines
<1>7. CASE ListenFails
  <2>1. /\ Running /\ srv = "starting" /\ srv' = "failed"
        /\ UNCHANGED <<SamplerRest, Setup, pc, rpc, Metrics, Deadlines>>
        /\ End("fatal") \/ UNCHANGED <<status, sampling, handler>>
    BY <1>7 DEF ListenFails
  <2>2. CASE End("fatal") BY <2>1, <2>2, Dies DEF Deadlines
  <2>3. CASE UNCHANGED <<status, sampling, handler>>
    <3>1. SamplerInv' BY <1>1, <2>1, <2>3, SamplerRests
    <3> QED BY <1>2, <2>1, <2>3, <3>1, BesideKeeps DEF Beside, Metrics, Deadlines
  <2> QED BY <2>1, <2>2, <2>3
<1>8. CASE Add
  BY <1>2, <1>3, <1>8, BesideKeeps DEF Add, Beside, Servers, Deadlines
<1>9. CASE Export
  BY <1>2, <1>3, <1>9, BesideKeeps DEF Export, Beside, Servers, Deadlines
<1>10. CASE Sample
  <2>1. SamplerInv' BY <1>1, <1>10, SamplerKeeps DEF Sample
  <2> QED BY <1>2, <1>10, <2>1, BesideKeeps DEF Sample, mainVars, Beside, Setup
<1>11. CASE SamplerEnds
  <2>1. SamplerInv' BY <1>1, <1>11, SamplerRests DEF SamplerEnds, StopSampler, SamplerRest
  <2> QED BY <1>2, <1>11, <2>1, BesideKeeps DEF SamplerEnds, mainVars, Beside, Setup
<1>12. CASE Ended
  BY <1>2, <1>3, <1>12, BesideKeeps DEF Ended, vars, mainVars, Beside, Setup
<1> QED BY <1>4, <1>5, <1>6, <1>7, <1>8, <1>9, <1>10, <1>11, <1>12

LEMMA RequestsKeep ==
    ASSUME IInv, NEW r \in AllRequests, Arrive(r) \/ Record(r) \/ Answer(r)
    PROVE  IInv'
<1>1. Shape /\ SamplerInv /\ ServerInv /\ CutInv /\ FlushInv BY DEF IInv
<1>2. /\ kind' = kind /\ setting' = setting /\ pc' = pc /\ status' = status
      /\ srv' = srv /\ rpc' = rpc /\ batch' = batch /\ exported' = exported
      /\ provider' = provider /\ late' = late /\ status = "running"
      /\ UNCHANGED samplerVars
  BY DEF Arrive, Record, Answer, Setup, Servers, Metrics, Deadlines, Running
<1>3. SamplerInv' BY <1>1, <1>2, SamplerRests DEF samplerVars, SamplerRest
<1>4. Running /\ Running' BY <1>2 DEF Running
<1>5. /\ recorded \subseteq recorded' /\ recorded' \subseteq AllRequests \cup {Tick}
  BY <1>1 DEF Arrive, Record, Answer, Metrics, Shape
<1>6. handler \in [AllRequests -> Progress] BY <1>1 DEF Shape
<1>7. PICK p \in {"running", "recorded", "answered"} :
         /\ handler' = [handler EXCEPT ![r] = p]
         /\ p = "running" => IF r \in Calls THEN rpc ELSE srv = "listening"
         /\ p # "running" => Active(r)
  BY DEF Arrive, Record, Answer, Active
<1>8. Shape' BY <1>1, <1>2, <1>4, <1>5, <1>6, <1>7 DEF Shape, Progress
<1>9. ASSUME NEW rs \in SUBSET Requests, Idle(rs), srv # "listening" \/ r \in Calls
      PROVE  r \notin rs /\ Idle(rs)'
  <2>1. r \notin rs BY <1>7, <1>9, RequestsAssumption DEF Idle, AllRequests
  <2> QED BY <1>6, <1>7, <1>9, <2>1 DEF Idle, Active, AllRequests
<1>10. ASSUME kind # "receiver" PROVE Idle(Calls)'
  <2>1. ~rpc /\ Idle(Calls) BY <1>1, <1>10 DEF ServerInv
  <2>2. r \notin Calls BY <1>7, <2>1 DEF Idle
  <2> QED BY <1>6, <1>7, <2>1, <2>2 DEF Idle, Active, AllRequests
<1>11. ServerInv' BY <1>1, <1>2, <1>4, <1>9, <1>10 DEF ServerInv
<1>12. CutInv'
  <2>1. \A q \in AllRequests : handler'[q] # "cut"
    BY <1>1, <1>4, <1>6, <1>7 DEF CutInv
  <2>2. ASSUME pc > WaitAt[kind] + 1 PROVE Idle(Requests \ late)'
    <3>1. pc > WaitAt[kind] BY <1>1, <2>2, Here
    <3>2. srv # "listening" BY <1>1, <1>4, <3>1 DEF ServerInv
    <3>3. Idle(Requests \ late) BY <1>1, <1>4, <2>2 DEF CutInv
    <3> QED BY <1>2, <1>9, <3>2, <3>3 DEF Idle
  <2> QED BY <1>2, <2>1, <2>2 DEF CutInv
<1>13. FlushInv'
  <2> SUFFICES ASSUME kind = "otel" PROVE FlushInv' BY <1>2 DEF FlushInv
  <2>1. ASSUME pc = 11 PROVE r \notin Requests \ late
    <3>1. pc > WaitAt[kind] + 1 /\ pc > WaitAt[kind] BY <1>1, <2>1, Here
    <3>2. srv # "listening" /\ Idle(Requests \ late)
      BY <1>1, <1>4, <3>1 DEF ServerInv, CutInv
    <3> QED BY <1>9, <3>2
  <2>2. ASSUME NEW q \in Requests \ late, handler'[q] \in {"recorded", "answered"}
        PROVE  q \in recorded'
    <3>1. CASE q # r \/ Answer(r)
      <4>1. handler[q] \in {"recorded", "answered"}
        BY <1>6, <2>2, <3>1 DEF Answer, Arrive, Record, AllRequests
      <4> QED BY <1>1, <1>5, <2>2, <4>1 DEF FlushInv
    <3>2. CASE q = r /\ Record(r)
      <4>1. pc # 11 BY <2>1, <2>2, <3>2
      <4>2. pc <= 10 BY <1>1, <4>1, Here
      <4>3. provider # "down" BY <1>1, <4>2 DEF FlushInv
      <4> QED BY <3>2, <4>3 DEF Record
    <3>3. CASE q = r /\ Arrive(r) BY <1>6, <2>2, <3>3 DEF Arrive, AllRequests
    <3> QED BY <3>1, <3>2, <3>3
  <2>3. ASSUME pc = 11, NEW q \in Requests \ late, handler'[q] = "answered"
        PROVE  q \in batch
    <3>1. handler[q] = "answered" BY <1>6, <1>7, <2>1, <2>3 DEF AllRequests
    <3> QED BY <1>1, <2>3, <3>1 DEF FlushInv
  <2> QED BY <1>1, <1>2, <2>2, <2>3 DEF FlushInv
<1>14. StartPanicsOnlyOnOverflow' BY <1>2 DEF StartPanicsOnlyOnOverflow
<1> QED BY <1>3, <1>8, <1>11, <1>12, <1>13, <1>14 DEF IInv

LEMMA StepIInv == ASSUME IInv, [Next]_vars PROVE IInv'
<1>1. ASSUME MainStep PROVE IInv'
  BY <1>1, StartKeeps, ServeKeeps, StopKeeps DEF MainStep
<1>2. ASSUME UNCHANGED vars PROVE IInv'
  <2>1. SamplerInv' BY <1>2, SamplerRests DEF IInv, vars, samplerVars, SamplerRest
  <2>2. recorded \cup exported \subseteq AllRequests \cup {Tick} BY DEF IInv, Shape
  <2> QED BY <1>2, <2>1, <2>2, BesideKeeps DEF vars, mainVars, Beside, Setup
<1> QED BY <1>1, <1>2, ProcessKeeps, RequestsKeep DEF Next

LEMMA Invariance == Spec => []IInv
BY InitIInv, StepIInv, PTL DEF Spec

-------------------------------------------------------------------------------

\* State keeps its types in every program, and no request is still being handled
\* in a process that has ended.
THEOREM TypesHold == Spec => []TypeOK
<1>1. IInv => TypeOK
  <2> SUFFICES ASSUME IInv PROVE TypeOK OBVIOUS
  <2>1. SamplerTypeOK /\ Shape BY DEF IInv, SamplerInv
  <2>2. pc \in 1..Len(Program[kind]) BY <2>1, Places DEF Shape
  <2> QED BY <2>1, <2>2 DEF TypeOK, Shape
<1> QED BY <1>1, Invariance, PTL

\* The counters built from differences show what the process had used when it
\* was last read, whichever samples fail (simulateBackground).
THEOREM CountersTrack == Spec => []CountersTrackUsage
<1>1. IInv => CountersTrackUsage
  BY DEF IInv, SamplerInv, CountersTrackUsage
<1> QED BY <1>1, Invariance, PTL

\* A stop cuts no request and no call but what outlived the deadline of Shutdown,
\* for any number of them and however they interleave with the stop.
THEOREM OnlyLateCut == Spec => []OnlyLateAreCut
<1>1. IInv => OnlyLateAreCut
  BY DEF IInv, CutInv, OnlyLateAreCut
<1> QED BY <1>1, Invariance, PTL

\* otel-app exports at its end what it has answered, when its flush succeeds, but
\* for what outlived the deadline of Shutdown.
THEOREM FlushComplete == Spec => []AnsweredIsExported
<1>1. IInv => AnsweredIsExported
  <2> SUFFICES ASSUME IInv, kind = "otel", Flushed, NEW r \in Requests,
                      handler[r] = "answered", r \notin late
               PROVE  r \in exported
    BY DEF AnsweredIsExported
  <2> QED BY DEF IInv, FlushInv, Flushed
<1> QED BY <1>1, Invariance, PTL

\* The jitter of otel-app panics only for an interval that overflows.
THEOREM PanicsOnOverflow == Spec => []StartPanicsOnlyOnOverflow
<1>1. IInv => StartPanicsOnlyOnOverflow BY DEF IInv
<1> QED BY <1>1, Invariance, PTL
==================================================================================
