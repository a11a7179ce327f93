-------------------------- MODULE NoopReceiverProofs --------------------------
(* The accounting of the noop receiver and the bound of its sampling counter, *)
(* for any number of handlers and requests.                                   *)
EXTENDS NoopReceiver, SumTheorems

\* Requests on the route that are counted and neither failed nor decoded.
Open(route) == At(route, Undecided)

\* Requests on the route that have passed the test of the cap and have not
\* incremented the counter yet: each may take it one further.
Passed(route) == At(route, {"add"})

\* The increments still to come are part of the bound.
CounterInv ==
    \A route \in Routes :
        sampleCounter[route] + Cardinality(Passed(route))
          <= LogCap + Cardinality(Handlers)

IInv == TypeOK /\ RequestsAccounted /\ CounterInv

-------------------------------------------------------------------------------
(* Sets of handlers, and what one step of one of them does to them. *)

LEMMA AtFinite ==
    ASSUME NEW route, NEW P
    PROVE  /\ IsFiniteSet(At(route, P))
           /\ Cardinality(At(route, P)) \in Nat
           /\ Cardinality(At(route, P)) <= Cardinality(Handlers)
  <1>1. At(route, P) \subseteq Handlers BY DEF At
  <1> QED BY <1>1, HandlersAssumption, FS_Subset, FS_CardinalityType

\* Goroutine h goes to q, and no other goroutine's request changes.
Moves(h, q) ==
    /\ pc' = [pc EXCEPT ![h] = q]
    /\ \A g \in Handlers : g # h => req'[g] = req[g]

LEMMA MoveStays ==
    ASSUME TypeOK, NEW h \in Handlers, NEW q, Moves(h, q), NEW P,
           pc[h] \in P <=> q \in P,
           pc[h] \in P => req'[h].route = req[h].route,
           NEW route
    PROVE  At(route, P)' = At(route, P)
  BY DEF TypeOK, Moves, At

LEMMA MoveLeaves ==
    ASSUME TypeOK, NEW h \in Handlers, NEW q, Moves(h, q), NEW P,
           pc[h] \in P, q \notin P, NEW route
    PROVE  Cardinality(At(route, P)') =
             IF route = req[h].route THEN Cardinality(At(route, P)) - 1
                                     ELSE Cardinality(At(route, P))
  <1>1. CASE route = req[h].route
    <2>1. h \in At(route, P) BY <1>1 DEF At
    <2>2. At(route, P)' = At(route, P) \ {h} BY <1>1 DEF TypeOK, Moves, At
    <2> QED BY ZenonT(60), <1>1, <2>1, <2>2, AtFinite, FS_RemoveElement
  <1>2. CASE route # req[h].route
    <2>1. At(route, P)' = At(route, P) BY <1>2 DEF TypeOK, Moves, At
    <2> QED BY <1>2, <2>1
  <1> QED BY <1>1, <1>2

LEMMA MoveEnters ==
    ASSUME TypeOK, NEW h \in Handlers, NEW q, Moves(h, q), NEW P,
           pc[h] \notin P, q \in P, NEW route
    PROVE  Cardinality(At(route, P)') =
             IF route = req'[h].route THEN Cardinality(At(route, P)) + 1
                                     ELSE Cardinality(At(route, P))
  <1>1. CASE route = req'[h].route
    <2>1. h \notin At(route, P) BY <1>1 DEF At
    <2>2. At(route, P)' = At(route, P) \cup {h} BY <1>1 DEF TypeOK, Moves, At
    <2> QED BY <1>1, <2>1, <2>2, AtFinite, FS_AddElement
  <1>2. CASE route # req'[h].route
    <2>1. At(route, P)' = At(route, P) BY <1>2 DEF TypeOK, Moves, At
    <2> QED BY <1>2, <2>1
  <1> QED BY <1>1, <1>2

-------------------------------------------------------------------------------
(* TypeOK. *)

RequestType == [route : Routes, enc : Encodings, samples : Nat]

\* The conjunct of TypeOK that relates pc and req.
RouteInv ==
    \A h \in Handlers :
        /\ pc[h] \in {"read", "unmarshal"} => req[h].route # "otlpGRPC"
        /\ pc[h] = "decompress" => req[h].route \in {"v1", "v2"}

LEMMA NoRequestTyped == NoRequest \in RequestType
  BY DEF NoRequest, RequestType, Routes, Encodings

LEMMA ExporterTyped ==
    ASSUME TypeOK, NEW h \in Handlers PROVE ExporterFor(h) \in Exporters
  BY DEF TypeOK, ExporterFor, ExporterOf, Exporters, Routes

LEMMA InitTypeOK == Init => TypeOK
  BY DEF Init, TypeOK, PCs, NoRequest, Routes, Encodings

LEMMA ReceiveTypeOK ==
    ASSUME TypeOK, NEW h \in Handlers, Arrive(h) PROVE TypeOK'
  <1>1. PICK sent \in Traffic : Receive(h, sent[1], sent[2]) BY DEF Arrive
  <1>2. sent[1] \in Routes /\ sent[2] \in Encodings BY TrafficAssumption
  <1> DEFINE route == sent[1]  enc == sent[2]
  <1>3. Receive(h, route, enc) /\ route \in Routes /\ enc \in Encodings
    BY <1>1, <1>2
  <1> HIDE DEF route, enc
  <1> DEFINE new == [route |-> route, enc |-> enc, samples |-> 0]
  <1>4. new \in RequestType /\ new.route = route
    BY <1>3 DEF RequestType
  <1>5. req' = [req EXCEPT ![h] = new] BY <1>3 DEF Receive
  <1> HIDE DEF new
  <1>6. req' \in [Handlers -> RequestType]
    BY <1>4, <1>5 DEF TypeOK, RequestType
  <1>7. RouteInv'
    BY <1>3, <1>4, <1>5 DEF TypeOK, RouteInv, Receive, Goto
  <1>8. /\ pc' \in [Handlers -> PCs] /\ taken' \in [Handlers -> Nat]
        /\ requestTotal' \in [Routes -> Nat]
    BY <1>3 DEF TypeOK, Receive, Goto, Bump, PCs
  <1>9. UNCHANGED <<readError, decodeError, requestSize, sampledTotal,
                    sampleCounter, logs, decoded, carried>>
    BY <1>3 DEF Receive, sampling, history
  <1> QED BY <1>6, <1>7, <1>8, <1>9 DEF TypeOK, RequestType, RouteInv

LEMMA ServeTypeOK ==
    ASSUME TypeOK, NEW h \in Handlers, Serve(h) PROVE TypeOK'
  <1>0. ExporterFor(h) \in Exporters BY ExporterTyped
  <1>1. CASE ReadFails(h)
    <2>1. req' \in [Handlers -> RequestType]
      BY <1>1, NoRequestTyped DEF TypeOK, ReadFails, RequestType
    <2>2. RouteInv' BY <1>1 DEF TypeOK, RouteInv, ReadFails, Goto
    <2>3. pc' \in [Handlers -> PCs] /\ readError' \in [Routes -> Nat]
      BY <1>1 DEF TypeOK, ReadFails, Goto, Bump, PCs
    <2> QED BY <1>1, <2>1, <2>2, <2>3
            DEF TypeOK, RequestType, RouteInv, ReadFails, sampling, history
  <1>2. CASE Read(h)
    BY <1>2 DEF TypeOK, Read, Goto, PCs, Routes, counters, sampling, history
  <1>3. CASE DecompressFails(h)
    BY <1>3 DEF TypeOK, DecompressFails, Goto, Bump, PCs, Routes, sampling, history
  <1>4. CASE Decompress(h)
    BY <1>4 DEF TypeOK, Decompress, Goto, PCs, Routes, counters, sampling, history
  <1>5. ASSUME NEW n \in Counts, Size(h, n) PROVE TypeOK'
    <2>1. n \in Nat BY CountsAssumption
    <2>2. pc' \in [Handlers -> PCs] /\ requestSize' \in [Routes -> Nat]
      BY <1>5 DEF TypeOK, Size, Goto, Bump, PCs
    <2>3. CASE req[h].route = "otlpGRPC"
      <3>1. /\ req' = [req EXCEPT ![h].samples = n]
            /\ decoded' = [decoded EXCEPT ![req[h].route] = @ + 1]
            /\ carried' = [carried EXCEPT ![ExporterFor(h)] = @ + n]
            /\ pc' = [pc EXCEPT ![h] = "load"]
        BY <1>5, <2>3 DEF Size, Goto, Bump
      <3>2. req' \in [Handlers -> RequestType]
        BY <2>1, <3>1 DEF TypeOK, RequestType
      <3>3. RouteInv' BY <3>1 DEF TypeOK, RouteInv
      <3>4. decoded' \in [Routes -> Nat] /\ carried' \in [Exporters -> Nat]
        BY <1>0, <2>1, <3>1 DEF TypeOK
      <3> QED BY <1>5, <2>2, <3>2, <3>3, <3>4
              DEF TypeOK, RequestType, RouteInv, Size, sampling
    <2>4. CASE req[h].route # "otlpGRPC"
      <3>1. UNCHANGED <<req, decoded, carried>>
            /\ pc' = [pc EXCEPT ![h] = "unmarshal"]
        BY <1>5, <2>4 DEF Size, Goto, history
      <3>2. RouteInv' BY <2>4, <3>1 DEF TypeOK, RouteInv
      <3> QED BY <1>5, <2>2, <3>1, <3>2 DEF TypeOK, RouteInv, Size, sampling
    <2> QED BY <2>3, <2>4
  <1>6. CASE UnmarshalFails(h)
    BY <1>6 DEF TypeOK, UnmarshalFails, Goto, Bump, PCs, Routes, sampling, history
  <1>7. ASSUME NEW n \in Counts, Unmarshal(h, n) PROVE TypeOK'
    BY <1>0, <1>7, CountsAssumption
    DEF TypeOK, Unmarshal, Goto, Bump, PCs, Routes, counters, sampling
  <1>8. CASE LoadCounter(h)
    BY <1>8 DEF TypeOK, LoadCounter, Goto, PCs, counters, sampling, history
  <1>9. CASE AddCounter(h)
    BY <1>9 DEF TypeOK, AddCounter, Goto, PCs, counters, history
  <1>10. CASE AddSamples(h)
    BY <1>0, <1>10
    DEF TypeOK, AddSamples, Goto, PCs, NoRequest, Routes, Encodings, sampling, history
  <1> QED BY <1>1, <1>2, <1>3, <1>4, <1>5, <1>6, <1>7, <1>8, <1>9, <1>10 DEF Serve

-------------------------------------------------------------------------------
(* RequestsAccounted. *)

\* One request of the route of h leaves Open and one of the three counters of
\* its route goes up.
LEMMA OneDecided ==
    ASSUME TypeOK, RequestsAccounted, NEW h \in Handlers, NEW q,
           pc[h] \in Undecided, q \notin Undecided, Moves(h, q),
           requestTotal' = requestTotal,
           \/ /\ readError' = [readError EXCEPT ![req[h].route] = @ + 1]
              /\ UNCHANGED <<decodeError, decoded>>
           \/ /\ decodeError' = [decodeError EXCEPT ![req[h].route] = @ + 1]
              /\ UNCHANGED <<readError, decoded>>
           \/ /\ decoded' = [decoded EXCEPT ![req[h].route] = @ + 1]
              /\ UNCHANGED <<readError, decodeError>>
    PROVE  RequestsAccounted'
  <1> SUFFICES ASSUME NEW r \in Routes
               PROVE  requestTotal'[r] = readError'[r] + decodeError'[r]
                                           + decoded'[r] + Cardinality(Open(r)')
    BY DEF RequestsAccounted, Open
  <1>1. Cardinality(Open(r)') = IF r = req[h].route THEN Cardinality(Open(r)) - 1
                                                    ELSE Cardinality(Open(r))
    BY MoveLeaves DEF Open
  <1>2. Cardinality(Open(r)) \in Nat BY AtFinite DEF Open
  <1>3. requestTotal[r] = readError[r] + decodeError[r] + decoded[r]
                            + Cardinality(Open(r))
    BY DEF RequestsAccounted, Open
  <1>4. /\ requestTotal[r] \in Nat /\ readError[r] \in Nat
        /\ decodeError[r] \in Nat /\ decoded[r] \in Nat
    BY DEF TypeOK
  <1>5. readError'[r] + decodeError'[r] + decoded'[r]
          = readError[r] + decodeError[r] + decoded[r]
              + (IF r = req[h].route THEN 1 ELSE 0)
    <2>1. ASSUME NEW f, f \in [Routes -> Nat]
          PROVE  [f EXCEPT ![req[h].route] = @ + 1][r]
                   = f[r] + (IF r = req[h].route THEN 1 ELSE 0)
      BY <2>1
    <2>2. CASE readError' = [readError EXCEPT ![req[h].route] = @ + 1]
               /\ UNCHANGED <<decodeError, decoded>>
      <3>1. readError'[r] = readError[r] + (IF r = req[h].route THEN 1 ELSE 0)
        BY <2>1, <2>2 DEF TypeOK
      <3> QED BY <1>4, <2>2, <3>1
    <2>3. CASE decodeError' = [decodeError EXCEPT ![req[h].route] = @ + 1]
               /\ UNCHANGED <<readError, decoded>>
      <3>1. decodeError'[r] = decodeError[r] + (IF r = req[h].route THEN 1 ELSE 0)
        BY <2>1, <2>3 DEF TypeOK
      <3> QED BY <1>4, <2>3, <3>1
    <2>4. CASE decoded' = [decoded EXCEPT ![req[h].route] = @ + 1]
               /\ UNCHANGED <<readError, decodeError>>
      <3>1. decoded'[r] = decoded[r] + (IF r = req[h].route THEN 1 ELSE 0)
        BY <2>1, <2>4 DEF TypeOK
      <3> QED BY <1>4, <2>4, <3>1
    <2> QED BY <2>2, <2>3, <2>4
  <1> HIDE DEF Open
  <1>6. /\ readError'[r] \in Nat /\ decodeError'[r] \in Nat
        /\ decoded'[r] \in Nat
    BY <1>4 DEF TypeOK
  <1> QED BY <1>1, <1>2, <1>3, <1>4, <1>5, <1>6

\* A request that stays in Open or out of it.
LEMMA NoneDecided ==
    ASSUME TypeOK, RequestsAccounted, NEW h \in Handlers, NEW q,
           pc[h] \in Undecided <=> q \in Undecided, Moves(h, q),
           pc[h] \in Undecided => req'[h].route = req[h].route,
           UNCHANGED <<requestTotal, readError, decodeError, decoded>>
    PROVE  RequestsAccounted'
  <1>1. \A r \in Routes : At(r, Undecided)' = At(r, Undecided) BY MoveStays
  <1> QED BY <1>1 DEF RequestsAccounted

LEMMA ReceiveAccounted ==
    ASSUME IInv, NEW h \in Handlers, NEW route \in Routes, NEW enc,
           Receive(h, route, enc)
    PROVE  RequestsAccounted'
  <1> SUFFICES ASSUME NEW r \in Routes
               PROVE  requestTotal'[r] = readError'[r] + decodeError'[r]
                                           + decoded'[r] + Cardinality(Open(r)')
    BY DEF RequestsAccounted, Open
  <1> DEFINE q == IF route = "otlpGRPC" THEN "size" ELSE "read"
  <1>1. /\ pc[h] \notin Undecided /\ q \in Undecided /\ Moves(h, q)
        /\ req'[h].route = route
    BY DEF IInv, TypeOK, Receive, Goto, Moves, Undecided
  <1> HIDE DEF q
  <1>2. TypeOK BY DEF IInv
  <1>3. Cardinality(Open(r)) \in Nat BY AtFinite DEF Open
  <1>4. Cardinality(Open(r)') = IF r = route THEN Cardinality(Open(r)) + 1
                                             ELSE Cardinality(Open(r))
    BY <1>1, <1>2, MoveEnters DEF Open
  <1>5. requestTotal'[r] = IF r = route THEN requestTotal[r] + 1
                                        ELSE requestTotal[r]
    BY DEF IInv, TypeOK, Receive, Bump
  <1>6. UNCHANGED <<readError, decodeError, decoded>>
    BY DEF Receive, history
  <1>7. requestTotal[r] = readError[r] + decodeError[r] + decoded[r]
                            + Cardinality(Open(r))
    BY DEF IInv, RequestsAccounted, Open
  <1>8. /\ requestTotal[r] \in Nat /\ readError[r] \in Nat
        /\ decodeError[r] \in Nat /\ decoded[r] \in Nat
    BY DEF IInv, TypeOK
  <1> HIDE DEF Open
  <1> QED BY <1>3, <1>4, <1>5, <1>6, <1>7, <1>8

LEMMA ServeAccounted ==
    ASSUME IInv, NEW h \in Handlers, Serve(h) PROVE RequestsAccounted'
  <1>0. TypeOK /\ RequestsAccounted BY DEF IInv
  <1>1. CASE ReadFails(h)
    <2>1. /\ pc[h] \in Undecided /\ Moves(h, pc'[h]) /\ pc'[h] \notin Undecided
          /\ requestTotal' = requestTotal
          /\ readError' = [readError EXCEPT ![req[h].route] = @ + 1]
          /\ UNCHANGED <<decodeError, decoded>>
      BY <1>0, <1>1 DEF TypeOK, ReadFails, Goto, Moves, Bump, Undecided, counters, history
    <2> QED BY <1>0, <2>1, OneDecided
  <1>2. CASE Read(h)
    <2>1. /\ Moves(h, pc'[h])
          /\ pc[h] \in Undecided <=> pc'[h] \in Undecided
          /\ pc[h] \in Undecided => req'[h].route = req[h].route
          /\ UNCHANGED <<requestTotal, readError, decodeError, decoded>>
      BY <1>0, <1>2 DEF TypeOK, Read, Goto, Moves, Undecided, counters, history
    <2> QED BY <1>0, <2>1, NoneDecided
  <1>3. CASE DecompressFails(h)
    <2>1. /\ pc[h] \in Undecided /\ Moves(h, pc'[h]) /\ pc'[h] \notin Undecided
          /\ requestTotal' = requestTotal
          /\ decodeError' = [decodeError EXCEPT ![req[h].route] = @ + 1]
          /\ UNCHANGED <<readError, decoded>>
      BY <1>0, <1>3 DEF TypeOK, DecompressFails, Goto, Moves, Bump, Undecided, counters, history
    <2> QED BY <1>0, <2>1, OneDecided
  <1>4. CASE Decompress(h)
    <2>1. /\ Moves(h, pc'[h])
          /\ pc[h] \in Undecided <=> pc'[h] \in Undecided
          /\ pc[h] \in Undecided => req'[h].route = req[h].route
          /\ UNCHANGED <<requestTotal, readError, decodeError, decoded>>
      BY <1>0, <1>4 DEF TypeOK, Decompress, Goto, Moves, Undecided, counters, history
    <2> QED BY <1>0, <2>1, NoneDecided
  <1>5. ASSUME NEW n \in Counts, Size(h, n), req[h].route = "otlpGRPC"
        PROVE  RequestsAccounted'
    <2>1. /\ pc[h] \in Undecided /\ Moves(h, pc'[h]) /\ pc'[h] \notin Undecided
          /\ requestTotal' = requestTotal
          /\ decoded' = [decoded EXCEPT ![req[h].route] = @ + 1]
          /\ UNCHANGED <<readError, decodeError>>
      BY <1>0, <1>5 DEF TypeOK, Size, Goto, Moves, Bump, Undecided, counters, history
    <2> QED BY <1>0, <2>1, OneDecided
  <1>6. ASSUME NEW n \in Counts, Size(h, n), req[h].route # "otlpGRPC"
        PROVE  RequestsAccounted'
    <2>1. /\ Moves(h, pc'[h])
          /\ pc[h] \in Undecided <=> pc'[h] \in Undecided
          /\ pc[h] \in Undecided => req'[h].route = req[h].route
          /\ UNCHANGED <<requestTotal, readError, decodeError, decoded>>
      BY <1>0, <1>6 DEF TypeOK, Size, Goto, Moves, Undecided, counters, history
    <2> QED BY <1>0, <2>1, NoneDecided
  <1>7. CASE UnmarshalFails(h)
    <2>1. /\ pc[h] \in Undecided /\ Moves(h, pc'[h]) /\ pc'[h] \notin Undecided
          /\ requestTotal' = requestTotal
          /\ decodeError' = [decodeError EXCEPT ![req[h].route] = @ + 1]
          /\ UNCHANGED <<readError, decoded>>
      BY <1>0, <1>7 DEF TypeOK, UnmarshalFails, Goto, Moves, Bump, Undecided, counters, history
    <2> QED BY <1>0, <2>1, OneDecided
  <1>8. ASSUME NEW n \in Counts, Unmarshal(h, n) PROVE RequestsAccounted'
    <2>1. /\ pc[h] \in Undecided /\ Moves(h, pc'[h]) /\ pc'[h] \notin Undecided
          /\ requestTotal' = requestTotal
          /\ decoded' = [decoded EXCEPT ![req[h].route] = @ + 1]
          /\ UNCHANGED <<readError, decodeError>>
      BY <1>0, <1>8 DEF TypeOK, Unmarshal, Goto, Moves, Bump, Undecided, counters, history
    <2> QED BY <1>0, <2>1, OneDecided
  <1>9. CASE LoadCounter(h)
    <2>1. /\ Moves(h, pc'[h])
          /\ pc[h] \in Undecided <=> pc'[h] \in Undecided
          /\ pc[h] \in Undecided => req'[h].route = req[h].route
          /\ UNCHANGED <<requestTotal, readError, decodeError, decoded>>
      BY <1>0, <1>9 DEF TypeOK, LoadCounter, Goto, Moves, Undecided, counters, history
    <2> QED BY <1>0, <2>1, NoneDecided
  <1>10. CASE AddCounter(h)
    <2>1. /\ Moves(h, pc'[h])
          /\ pc[h] \in Undecided <=> pc'[h] \in Undecided
          /\ pc[h] \in Undecided => req'[h].route = req[h].route
          /\ UNCHANGED <<requestTotal, readError, decodeError, decoded>>
      BY <1>0, <1>10 DEF TypeOK, AddCounter, Goto, Moves, Undecided, counters, history
    <2> QED BY <1>0, <2>1, NoneDecided
  <1>11. CASE AddSamples(h)
    <2>1. /\ Moves(h, pc'[h])
          /\ pc[h] \in Undecided <=> pc'[h] \in Undecided
          /\ pc[h] \in Undecided => req'[h].route = req[h].route
          /\ UNCHANGED <<requestTotal, readError, decodeError, decoded>>
      BY <1>0, <1>11 DEF TypeOK, AddSamples, Goto, Moves, Undecided, counters, history
    <2> QED BY <1>0, <2>1, NoneDecided
  <1> QED BY <1>1, <1>2, <1>3, <1>4, <1>5, <1>6, <1>7, <1>8, <1>9, <1>10, <1>11
          DEF Serve

-------------------------------------------------------------------------------
(* CounterInv: sampleEvery's counter and the increments still to come. *)

LEMMA PassedBound ==
    ASSUME NEW r PROVE /\ Cardinality(Passed(r)') \in Nat
                       /\ Cardinality(Passed(r)') <= Cardinality(Handlers)
  <1>1. Passed(r)' \subseteq Handlers BY DEF Passed, At
  <1> QED BY <1>1, HandlersAssumption, FS_Subset, FS_CardinalityType

LEMMA CounterRests ==
    ASSUME IInv, NEW h \in Handlers, Moves(h, pc'[h]),
           pc[h] # "add", pc'[h] # "add", sampleCounter' = sampleCounter
    PROVE  CounterInv'
  <1>1. \A r \in Routes : Passed(r)' = Passed(r)
    BY MoveStays DEF IInv, Passed
  <1> QED BY <1>1 DEF IInv, CounterInv

LEMMA LoadBounded ==
    ASSUME IInv, NEW h \in Handlers, LoadCounter(h) PROVE CounterInv'
  <1> DEFINE route == req[h].route
  <1>1. TypeOK /\ route \in Routes /\ sampleCounter' = sampleCounter
    BY DEF IInv, TypeOK, LoadCounter, sampling
  <1>2. CASE sampleCounter[route] > LogCap
    BY <1>1, <1>2, CounterRests DEF TypeOK, LoadCounter, Goto, Moves
  <1>3. CASE ~(sampleCounter[route] > LogCap)
    <2>1. /\ Moves(h, "add") /\ pc[h] \notin {"add"}
          /\ req'[h].route = route
      BY <1>1, <1>3 DEF LoadCounter, Goto, Moves
    <2> SUFFICES ASSUME NEW r \in Routes
                 PROVE  sampleCounter[r] + Cardinality(Passed(r)')
                          <= LogCap + Cardinality(Handlers)
      BY <1>1 DEF CounterInv
    <2>2. sampleCounter[r] \in Nat /\ Cardinality(Handlers) \in Nat
      BY <1>1, HandlersAssumption, FS_CardinalityType DEF TypeOK
    <2>3. CASE r = route
      BY <1>3, <2>2, <2>3, PassedBound, RateAssumption
    <2>4. CASE r # route
      <3>1. Cardinality(Passed(r)') = Cardinality(Passed(r))
        BY <1>1, <2>1, <2>4, MoveEnters DEF Passed
      <3> QED BY <3>1 DEF IInv, CounterInv
    <2> QED BY <2>3, <2>4
  <1> QED BY <1>2, <1>3

LEMMA AddBounded ==
    ASSUME IInv, NEW h \in Handlers, AddCounter(h) PROVE CounterInv'
  <1> DEFINE route == req[h].route
  <1>1. TypeOK /\ route \in Routes BY DEF IInv, TypeOK
  <1>2. /\ Moves(h, "addSamples") /\ pc[h] \in {"add"}
        /\ sampleCounter' = [sampleCounter EXCEPT ![route] = sampleCounter[route] + 1]
    BY DEF AddCounter, Goto, Moves
  <1> SUFFICES ASSUME NEW r \in Routes
               PROVE  sampleCounter'[r] + Cardinality(Passed(r)')
                        <= LogCap + Cardinality(Handlers)
    BY DEF CounterInv
  <1>3. Cardinality(Passed(r)') = IF r = route THEN Cardinality(Passed(r)) - 1
                                               ELSE Cardinality(Passed(r))
    BY <1>1, <1>2, MoveLeaves DEF Passed
  <1>4. sampleCounter'[r] = IF r = route THEN sampleCounter[r] + 1
                                         ELSE sampleCounter[r]
    BY <1>1, <1>2 DEF TypeOK
  <1>5. sampleCounter[r] \in Nat /\ Cardinality(Passed(r)) \in Nat
    BY <1>1, AtFinite DEF TypeOK, Passed
  <1>6. sampleCounter[r] + Cardinality(Passed(r)) <= LogCap + Cardinality(Handlers)
    BY DEF IInv, CounterInv
  <1>7. sampleCounter'[r] + Cardinality(Passed(r)')
          = sampleCounter[r] + Cardinality(Passed(r))
    BY <1>3, <1>4, <1>5
  <1> QED BY <1>6, <1>7

LEMMA ServeBounded ==
    ASSUME IInv, NEW h \in Handlers, Serve(h) PROVE CounterInv'
  <1>1. CASE LoadCounter(h) BY <1>1, LoadBounded
  <1>2. CASE AddCounter(h) BY <1>2, AddBounded
  <1>3. CASE ~(LoadCounter(h) \/ AddCounter(h))
    <2>1. Moves(h, pc'[h]) /\ sampleCounter' = sampleCounter
      BY <1>3 DEF IInv, TypeOK, Serve, ReadFails, Read, DecompressFails,
                  Decompress, Size, UnmarshalFails, Unmarshal, AddSamples, Goto,
                  Moves, sampling
    <2>2. pc[h] # "add" /\ pc'[h] # "add"
      BY <1>3 DEF IInv, TypeOK, Serve, ReadFails, Read, DecompressFails,
                  Decompress, Size, UnmarshalFails, Unmarshal, AddSamples, Goto
    <2> QED BY <2>1, <2>2, CounterRests
  <1> QED BY <1>1, <1>2, <1>3

LEMMA ReceiveBounded ==
    ASSUME IInv, NEW h \in Handlers, Arrive(h) PROVE CounterInv'
  <1>1. PICK sent \in Traffic : Receive(h, sent[1], sent[2]) BY DEF Arrive
  <1>2. /\ Moves(h, pc'[h]) /\ sampleCounter' = sampleCounter
        /\ pc[h] # "add" /\ pc'[h] # "add"
    BY <1>1 DEF IInv, TypeOK, Receive, Goto, Moves, sampling
  <1> QED BY <1>2, CounterRests

-------------------------------------------------------------------------------

LEMMA InitIInv == Init => IInv
  <1> SUFFICES ASSUME Init PROVE IInv OBVIOUS
  <1>1. TypeOK BY InitTypeOK
  <1>2. \A r \in Routes, P \in {Undecided, {"add"}} : At(r, P) = {}
    BY DEF Init, At, Undecided
  <1>3. \A r \in Routes : /\ Cardinality(At(r, Undecided)) = 0
                          /\ Cardinality(At(r, {"add"})) = 0
    BY <1>2, FS_EmptySet
  <1>4. RequestsAccounted BY <1>3 DEF Init, RequestsAccounted
  <1>5. CounterInv
    <2>1. Cardinality(Handlers) \in Nat /\ LogCap \in Nat
      BY HandlersAssumption, RateAssumption, FS_CardinalityType
    <2> QED BY <1>3, <2>1 DEF Init, CounterInv, Passed
  <1> QED BY <1>1, <1>4, <1>5 DEF IInv

LEMMA StepIInv == IInv /\ [Next]_vars => IInv'
  <1> SUFFICES ASSUME IInv, [Next]_vars PROVE IInv' OBVIOUS
  <1>1. ASSUME NEW h \in Handlers, Arrive(h) PROVE IInv'
    <2>1. PICK sent \in Traffic : Receive(h, sent[1], sent[2])
      BY <1>1 DEF Arrive
    <2>2. sent[1] \in Routes BY TrafficAssumption
    <2>3. RequestsAccounted' BY <2>1, <2>2, ReceiveAccounted
    <2> QED BY <1>1, <2>3, ReceiveTypeOK, ReceiveBounded DEF IInv
  <1>2. ASSUME NEW h \in Handlers, Serve(h) PROVE IInv'
    BY <1>2, ServeTypeOK, ServeAccounted, ServeBounded DEF IInv
  <1>3. CASE UNCHANGED vars
    BY <1>3 DEF vars, counters, sampling, history, IInv, TypeOK,
                RequestsAccounted, CounterInv, Passed, At
  <1> QED BY <1>1, <1>2, <1>3 DEF Next, Quiet

LEMMA Invariance == Spec => []IInv
  BY InitIInv, StepIInv, PTL DEF Spec

\* Every request of a route is counted once as a read error, a decode error or
\* decoded, whatever its concurrent requests do.
THEOREM AllAccounted == Spec => []RequestsAccounted
  <1>1. IInv => RequestsAccounted BY DEF IInv
  <1> QED BY <1>1, Invariance, PTL

\* sampleEvery's check of the cap can be outrun, but by no more than the
\* requests that are served at once.
THEOREM CounterStaysBounded == Spec => []CounterBounded
  <1>1. ASSUME IInv PROVE CounterBounded
    <2> SUFFICES ASSUME NEW r \in Routes
                 PROVE  sampleCounter[r] <= LogCap + Cardinality(Handlers)
      BY DEF CounterBounded
    <2>1. sampleCounter[r] \in Nat /\ Cardinality(Passed(r)) \in Nat
      BY <1>1, AtFinite DEF IInv, TypeOK, Passed
    <2>2. sampleCounter[r] + Cardinality(Passed(r)) <= LogCap + Cardinality(Handlers)
      BY <1>1 DEF IInv, CounterInv
    <2>3. LogCap \in Nat /\ Cardinality(Handlers) \in Nat
      BY RateAssumption, HandlersAssumption, FS_CardinalityType
    <2> QED BY <2>1, <2>2, <2>3
  <1> QED BY <1>1, Invariance, PTL
-------------------------------------------------------------------------------
(* PicksExact: the arithmetic of sampleEvery. *)

\* A quotient is determined by a remainder in its range.
LEMMA QuotientIs ==
    ASSUME NEW k \in Nat \ {0}, NEW a \in Nat, NEW b \in Nat,
           NEW c \in 0 .. k - 1, a = b * k + c
    PROVE  a \div k = b
  <1> DEFINE x == a \div k
             y == a % k
             bk == b * k
             xk == x * k
  <1>1. x \in Int /\ y \in 0 .. k - 1 /\ a = x * k + y
    OBVIOUS
  <1> HIDE DEF x, y
  <1>2. x >= b + 1 => x * k >= (b + 1) * k BY <1>1
  <1>3. x + 1 <= b => (x + 1) * k <= b * k BY <1>1
  <1>4. (b + 1) * k = b * k + k /\ (x + 1) * k = x * k + k BY <1>1
  <1>5. bk \in Int /\ xk \in Int BY <1>1
  <1> HIDE DEF bk, xk
  <1>6. ~(x >= b + 1) BY <1>1, <1>2, <1>4, <1>5 DEF bk, xk
  <1>7. ~(x + 1 <= b) BY <1>1, <1>3, <1>4, <1>5 DEF bk, xk
  <1> QED BY <1>1, <1>6, <1>7 DEF x

\* Rounding up n / k: it goes up with the first of every k.
LEMMA RoundedUp ==
    ASSUME NEW n \in Nat, NEW k \in Nat \ {0}
    PROVE  (n + k) \div k
             = (n + k - 1) \div k + (IF n % k = 0 THEN 1 ELSE 0)
  <1> DEFINE q == n \div k
             r == n % k
  <1>1. q \in Nat /\ r \in 0 .. k - 1 /\ n = q * k + r
    OBVIOUS
  <1> HIDE DEF q, r
  <1>2. (n + k) \div k = q + 1
    <2>1. n + k = (q + 1) * k + r BY <1>1
    <2> QED BY <2>1, <1>1, QuotientIs
  <1>3. CASE r = 0
    <2>1. n + k - 1 = q * k + (k - 1) BY <1>1, <1>3
    <2>2. (n + k - 1) \div k = q BY <2>1, <1>1, QuotientIs
    <2> QED BY <2>2, <1>1, <1>2, <1>3 DEF r
  <1>4. CASE r # 0
    <2>1. n + k - 1 = (q + 1) * k + (r - 1) BY <1>1, <1>4
    <2>2. (n + k - 1) \div k = q + 1 BY <2>1, <1>1, <1>4, QuotientIs
    <2> QED BY <2>2, <1>1, <1>2, <1>4 DEF r
  <1> QED BY <1>3, <1>4

LEMMA InitPicks == Init => PicksExact
  <1> SUFFICES ASSUME Init, NEW r \in Routes
               PROVE  0 = (0 + logSampleRate - 1) \div logSampleRate
    BY DEF Init, PicksExact
  <1>1. logSampleRate - 1 = 0 * logSampleRate + (logSampleRate - 1)
    BY RateAssumption
  <1> QED BY <1>1, RateAssumption, QuotientIs

LEMMA StepPicks == TypeOK /\ PicksExact /\ [Next]_vars => PicksExact'
  <1> SUFFICES ASSUME TypeOK, PicksExact, [Next]_vars, NEW r \in Routes
               PROVE  logs'[r] = (sampleCounter'[r] + logSampleRate - 1)
                                   \div logSampleRate
    BY DEF PicksExact
  <1> DEFINE n == sampleCounter[r]
  <1>1. logs[r] = (n + logSampleRate - 1) \div logSampleRate
    BY DEF PicksExact
  <1>2. ASSUME NEW h \in Handlers, AddCounter(h), req[h].route = r
        PROVE  logs'[r] = (sampleCounter'[r] + logSampleRate - 1)
                            \div logSampleRate
    <2>1. n \in Nat /\ logs[r] \in Nat BY DEF TypeOK
    <2>2. sampleCounter'[r] = n + 1
      BY <1>2 DEF TypeOK, AddCounter
    <2>3. logs'[r] = IF n % logSampleRate = 0 THEN logs[r] + 1 ELSE logs[r]
      BY <1>2, <2>1 DEF TypeOK, AddCounter
    <2> HIDE DEF n
    <2>4. n + 1 + logSampleRate - 1 = n + logSampleRate
      BY <2>1, RateAssumption
    <2>5. (n + logSampleRate) \div logSampleRate
            = logs[r] + (IF n % logSampleRate = 0 THEN 1 ELSE 0)
      BY <1>1, <2>1, RateAssumption, RoundedUp
    <2> QED BY <2>1, <2>2, <2>3, <2>4, <2>5
  <1>3. ASSUME NEW h \in Handlers, AddCounter(h), req[h].route # r
        PROVE  logs'[r] = logs[r] /\ sampleCounter'[r] = sampleCounter[r]
    BY <1>3 DEF TypeOK, AddCounter
  <1>4. CASE ~\E h \in Handlers : AddCounter(h)
    BY <1>4 DEF Next, Quiet, vars, sampling, Arrive, Receive, Serve, ReadFails,
                Read, DecompressFails, Decompress, Size, UnmarshalFails,
                Unmarshal, LoadCounter, AddSamples, PicksExact
  <1> QED BY <1>1, <1>2, <1>3, <1>4

\* Counters and the fields of every request keep their types for any number of
\* handlers and of requests, and a request is on the route it was sent to.
THEOREM TypesHold == Spec => []TypeOK
  <1>1. IInv => TypeOK BY DEF IInv
  <1> QED BY <1>1, Invariance, PTL

-------------------------------------------------------------------------------
(* SamplesExact: the samples on their way to sampled_total. *)

\* The samples of the requests, and the requests of an exporter.
Samples == [h \in Handlers |-> req[h].samples]
Of(x) == {h \in Handlers : ExporterFor(h) = x}

\* A request that has not been decoded carries no samples.
SamplesInv ==
    /\ SamplesExact
    /\ \A h \in Handlers :
          pc[h] \notin {"load", "add", "addSamples"} => req[h].samples = 0

\* When only the request of h changes, the sum for an exporter loses what h
\* carried for it and gains what h carries for it now.
LEMMA OneRequestMoves ==
    ASSUME TypeOK, TypeOK', NEW h \in Handlers,
           \A g \in Handlers \ {h} : req'[g] = req[g],
           NEW x \in Exporters
    PROVE  /\ SumFunctionOnSet(Samples, Of(x)) \in Nat
           /\ SumFunctionOnSet(Samples, Of(x))' \in Nat
           /\ SumFunctionOnSet(Samples, Of(x))'
                + (IF ExporterFor(h) = x THEN req[h].samples ELSE 0)
               = SumFunctionOnSet(Samples, Of(x))
                + (IF ExporterFor(h)' = x THEN req'[h].samples ELSE 0)
  <1>1. /\ Of(x) \ {h} = Of(x)' \ {h}
        /\ IsFiniteSet(Of(x)) /\ IsFiniteSet(Of(x)')
    <2>1. Of(x) \subseteq Handlers /\ Of(x)' \subseteq Handlers
      BY DEF Of
    <2> QED BY <2>1, HandlersAssumption, FS_Subset DEF Of, ExporterFor
  <1>2. /\ \A g \in Of(x) : Samples[g] = req[g].samples /\ Samples[g] \in Nat
        /\ \A g \in Of(x)' : Samples'[g] = req'[g].samples /\ Samples'[g] \in Nat
        /\ \A g \in Of(x) \ {h} : Samples'[g] = Samples[g]
    BY DEF Samples, Of, TypeOK
  <1>3. /\ h \in Of(x) <=> ExporterFor(h) = x
        /\ h \in Of(x)' <=> ExporterFor(h)' = x
    BY DEF Of
  <1>4. /\ SumFunctionOnSet(Samples, Of(x)) \in Nat
        /\ SumFunctionOnSet(Samples', Of(x)') \in Nat
    BY <1>1, <1>2, SumNat
  <1>5. SumFunctionOnSet(Samples', Of(x)')
           + (IF h \in Of(x) THEN Samples[h] ELSE 0)
          = SumFunctionOnSet(Samples, Of(x))
           + (IF h \in Of(x)' THEN Samples'[h] ELSE 0)
    BY <1>1, <1>2, SumsDiffer
  <1> QED BY <1>2, <1>3, <1>4, <1>5

\* A step that leaves the requests and their counters of samples alone.
LEMMA SamplesRest ==
    ASSUME TypeOK, TypeOK', SamplesInv, NEW h \in Handlers,
           \A g \in Handlers \ {h} : req'[g] = req[g] /\ pc'[g] = pc[g],
           req[h].samples = 0, req'[h].samples = 0,
           UNCHANGED <<sampledTotal, carried>>
    PROVE  SamplesInv'
  <1>1. ASSUME NEW x \in Exporters
        PROVE  sampledTotal'[x] + SumFunctionOnSet(Samples, Of(x))' = carried'[x]
    <2>1. sampledTotal[x] + SumFunctionOnSet(Samples, Of(x)) = carried[x]
      BY DEF SamplesInv, SamplesExact, Samples, Of
    <2>2. SumFunctionOnSet(Samples, Of(x))' = SumFunctionOnSet(Samples, Of(x))
      BY OneRequestMoves
    <2> QED BY <2>1, <2>2
  <1>2. SamplesExact' BY <1>1 DEF SamplesExact, Samples, Of
  <1> QED BY <1>2 DEF SamplesInv

\* The request of h has been decoded, with n samples.
LEMMA SamplesDecoded ==
    ASSUME TypeOK, TypeOK', SamplesInv, NEW h \in Handlers, NEW n \in Nat,
           pc[h] \notin {"load", "add", "addSamples"}, pc'[h] = "load",
           \A g \in Handlers \ {h} : pc'[g] = pc[g],
           req' = [req EXCEPT ![h].samples = n],
           carried' = [carried EXCEPT ![ExporterFor(h)] = @ + n],
           sampledTotal' = sampledTotal
    PROVE  SamplesInv'
  <1>0. /\ req[h].samples = 0 /\ req'[h].samples = n
        /\ ExporterFor(h)' = ExporterFor(h) /\ ExporterFor(h) \in Exporters
        /\ \A g \in Handlers \ {h} : req'[g] = req[g]
    BY ExporterTyped DEF SamplesInv, TypeOK, ExporterFor
  <1>1. ASSUME NEW x \in Exporters
        PROVE  sampledTotal'[x] + SumFunctionOnSet(Samples, Of(x))' = carried'[x]
    <2>1. sampledTotal[x] + SumFunctionOnSet(Samples, Of(x)) = carried[x]
      BY DEF SamplesInv, SamplesExact, Samples, Of
    <2>2. /\ SumFunctionOnSet(Samples, Of(x)) \in Nat
          /\ SumFunctionOnSet(Samples, Of(x))'
               = SumFunctionOnSet(Samples, Of(x))
                   + (IF ExporterFor(h) = x THEN n ELSE 0)
      BY <1>0, OneRequestMoves
    <2>3. carried'[x] = carried[x] + (IF ExporterFor(h) = x THEN n ELSE 0)
      BY <1>0 DEF TypeOK
    <2> QED BY <2>1, <2>2, <2>3 DEF TypeOK
  <1>2. SamplesExact' BY <1>1 DEF SamplesExact, Samples, Of
  <1> QED BY <1>0, <1>2 DEF SamplesInv

\* The samples of h have been added to its exporter's series.
LEMMA SamplesAdded ==
    ASSUME TypeOK, TypeOK', SamplesInv, NEW h \in Handlers, AddSamples(h)
    PROVE  SamplesInv'
  <1>0. /\ req'[h].samples = 0 /\ ExporterFor(h) \in Exporters
        /\ req[h].samples \in Nat /\ carried' = carried
        /\ \A g \in Handlers \ {h} : req'[g] = req[g] /\ pc'[g] = pc[g]
    BY ExporterTyped DEF AddSamples, Goto, TypeOK, NoRequest, history
  <1>1. ASSUME NEW x \in Exporters
        PROVE  sampledTotal'[x] + SumFunctionOnSet(Samples, Of(x))' = carried'[x]
    <2>1. sampledTotal[x] + SumFunctionOnSet(Samples, Of(x)) = carried[x]
      BY DEF SamplesInv, SamplesExact, Samples, Of
    <2>2. /\ SumFunctionOnSet(Samples, Of(x)) \in Nat
          /\ SumFunctionOnSet(Samples, Of(x))' \in Nat
          /\ SumFunctionOnSet(Samples, Of(x))'
                + (IF ExporterFor(h) = x THEN req[h].samples ELSE 0)
               = SumFunctionOnSet(Samples, Of(x))
      BY <1>0, OneRequestMoves
    <2>3. sampledTotal'[x]
            = sampledTotal[x] + (IF ExporterFor(h) = x THEN req[h].samples ELSE 0)
      BY <1>0 DEF AddSamples, TypeOK
    <2> QED BY <1>0, <2>1, <2>2, <2>3 DEF TypeOK
  <1>2. SamplesExact' BY <1>1 DEF SamplesExact, Samples, Of
  <1> QED BY <1>0, <1>2 DEF SamplesInv

LEMMA SamplesStep == TypeOK /\ TypeOK' /\ SamplesInv /\ [Next]_vars => SamplesInv'
  <1> SUFFICES ASSUME TypeOK, TypeOK', SamplesInv, [Next]_vars PROVE SamplesInv'
    OBVIOUS
  <1>1. ASSUME NEW h \in Handlers, Arrive(h) PROVE SamplesInv'
    <2>1. PICK sent \in Traffic : Receive(h, sent[1], sent[2]) BY <1>1 DEF Arrive
    <2>2. /\ \A g \in Handlers \ {h} : req'[g] = req[g] /\ pc'[g] = pc[g]
          /\ req[h].samples = 0 /\ req'[h].samples = 0
          /\ UNCHANGED <<sampledTotal, carried>>
      BY <2>1 DEF Receive, Goto, TypeOK, SamplesInv, history
    <2> QED BY <2>2, SamplesRest
  <1>2. ASSUME NEW h \in Handlers, ReadFails(h) PROVE SamplesInv'
    <2>1. /\ \A g \in Handlers \ {h} : req'[g] = req[g] /\ pc'[g] = pc[g]
          /\ req[h].samples = 0 /\ req'[h].samples = 0
          /\ UNCHANGED <<sampledTotal, carried>>
      BY <1>2 DEF ReadFails, Goto, TypeOK, SamplesInv, NoRequest, history
    <2> QED BY <2>1, SamplesRest
  <1>3. ASSUME NEW h \in Handlers, UNCHANGED <<req, sampledTotal, carried>>,
               NEW to, pc' = [pc EXCEPT ![h] = to],
               \/ to \in {"load", "add", "addSamples"}
               \/ pc[h] \notin {"load", "add", "addSamples"}
        PROVE  SamplesInv'
    <2>1. SamplesExact' BY <1>3 DEF SamplesInv, SamplesExact, ExporterFor
    <2> QED BY <1>3, <2>1 DEF SamplesInv, TypeOK
  <1>4. ASSUME NEW h \in Handlers,
               Read(h) \/ DecompressFails(h) \/ Decompress(h)
                 \/ UnmarshalFails(h) \/ LoadCounter(h) \/ AddCounter(h)
        PROVE  SamplesInv'
    <2>1. UNCHANGED <<req, sampledTotal, carried>>
      BY <1>4 DEF Read, DecompressFails, Decompress, UnmarshalFails, LoadCounter,
                  AddCounter, counters, history
    <2>2. \E from, to \in PCs :
             /\ Goto(h, from, to)
             /\ \/ to \in {"load", "add", "addSamples"}
                \/ from \notin {"load", "add", "addSamples"}
      BY <1>4 DEF Read, DecompressFails, Decompress, UnmarshalFails, LoadCounter,
                  AddCounter, Goto, PCs
    <2> QED BY <1>3, <2>1, <2>2 DEF Goto
  <1>5. ASSUME NEW h \in Handlers, NEW n \in Counts, Size(h, n) PROVE SamplesInv'
    <2>1. CASE req[h].route = "otlpGRPC"
      BY <1>5, <2>1, SamplesDecoded, CountsAssumption DEF Size, Goto, TypeOK
    <2>2. CASE req[h].route # "otlpGRPC"
      BY <1>3, <1>5, <2>2 DEF Size, Goto, history
    <2> QED BY <2>1, <2>2
  <1>6. ASSUME NEW h \in Handlers, NEW n \in Counts, Unmarshal(h, n)
        PROVE  SamplesInv'
    BY <1>6, SamplesDecoded, CountsAssumption
       DEF Unmarshal, Goto, TypeOK, counters
  <1>7. ASSUME NEW h \in Handlers, AddSamples(h) PROVE SamplesInv'
    BY <1>7, SamplesAdded
  <1>8. CASE UNCHANGED vars
    BY <1>8 DEF vars, counters, history, SamplesInv, SamplesExact, ExporterFor
  <1> QED BY <1>1, <1>2, <1>4, <1>5, <1>6, <1>7, <1>8 DEF Next, Quiet, Serve

\* Every sample of a request that was decoded is added once to the series of its
\* exporter, and a request that fails adds none, for any number of concurrent
\* requests.
THEOREM SamplesStayExact == Spec => []SamplesExact
  <1>1. Init => SamplesInv
    <2> SUFFICES ASSUME Init PROVE SamplesInv OBVIOUS
    <2>1. \A h \in Handlers : req[h].samples = 0 BY DEF Init, NoRequest
    <2>2. ASSUME NEW x \in Exporters PROVE SumFunctionOnSet(Samples, Of(x)) = 0
      <3>1. Of(x) \subseteq Handlers /\ \A h \in Of(x) : Samples[h] = 0
        BY <2>1 DEF Of, Samples
      <3> QED BY <3>1, HandlersAssumption, FS_Subset, SumOfZeros
    <2>3. SamplesExact BY <2>2 DEF Init, SamplesExact, Samples, Of
    <2> QED BY <2>1, <2>3 DEF SamplesInv
  <1>2. IInv => TypeOK BY DEF IInv
  <1>3. SamplesInv => SamplesExact BY DEF SamplesInv
  <1> QED BY <1>1, <1>2, <1>3, Invariance, SamplesStep, PTL DEF Spec

\* The requests logged are the 1st, the logSampleRate + 1st and so on of those
\* numbered, whatever the rate: no number is skipped or given twice.
THEOREM PicksStayExact == Spec => []PicksExact
  <1>1. IInv => TypeOK BY DEF IInv
  <1> QED BY <1>1, InitPicks, StepPicks, Invariance, PTL DEF Spec
===============================================================================
