------------------------------- MODULE RemoteWrite -------------------------------
(* internal/v2_hack with the counting of internal/receiver: a Remote Write   *)
(* 2.0 request from Prometheus' own types to the receiver and back.  The     *)
(* caller (external; the package is used by its tests only) does what the    *)
(* tests do: it symbolizes the strings of a series one by one, adds the      *)
(* series, marshals the request of all series so far with one of the two     *)
(* marshallers, and resets the table for the next request.                   *)
(*                                                                           *)
(* A metric is [points, series]: the data points that OTLP sends of it, and  *)
(* the series that a scrape makes of them.  A series is [labels, inline,     *)
(* Type, Unit, Help, samples, exemplars, hists, created], with the labels    *)
(* that are symbolized and those of the field Labels; a histogram is [float, *)
(* Ts, h].                                                                   *)
EXTENDS Codec, DataPoints, SymbolsTable

CONSTANTS
    Metrics,        \* the metrics there are
    MaxMetrics,     \* how many are added in all
    MaxRequests     \* how many requests are made

(* What Prometheus' types hold: strings of bytes, integers of 64 or 32 bits  *)
(* or one byte, and floats by their codes.                                   *)

\* Labels are sorted by name, and no name is there twice (labels.Labels).
Labels ==
    {ls \in Seq([Name : Strings, Value : Strings]) :
        \A i, j \in DOMAIN ls : i < j => Precedes(ls[i].Name, ls[j].Name)}

\* An exemplar at time 0 is one without a time: see ToExemplar.
Exemplars ==
    {e \in [Labels : Labels, Value : Floats, Ts : Int64, HasTs : BOOLEAN] :
        e.HasTs <=> e.Ts # 0}

Spans == [Offset : Int32, Length : Uint32]
Histograms(number) ==
    [CounterResetHint : Bytes, Schema : Int32, ZeroThreshold : Floats, Sum : Floats,
     ZeroCount : number, Count : number,
     PositiveSpans : Seq(Spans), PositiveBuckets : Seq(number),
     NegativeSpans : Seq(Spans), NegativeBuckets : Seq(number),
     CustomValues : Seq(Floats)]

Series ==
    [labels : Labels, inline : Seq([Name : Seq(Bytes), Value : Seq(Bytes)]),
     Type : {MetricTypes[n] : n \in DOMAIN MetricTypes} \cup {"unknown"},
     Unit : Strings, Help : Strings, samples : Seq([Value : Floats, Ts : Int64]),
     exemplars : Seq(Exemplars),
     hists : Seq([float : {FALSE}, Ts : Int64, h : Histograms(Int64)]
                   \cup [float : {TRUE}, Ts : Int64, h : Histograms(Floats)]),
     created : Int64]

\* The data points of OTLP (see DataPoints), but for exponential histograms, which
\* are not scraped as samples.
Points ==
    [kind : {"gauge", "sum", "histogram", "summary"}, buckets : Nat, sum : BOOLEAN]

ASSUME StringsAssumption == Strings \subseteq Seq(Bytes)

ASSUME MetricsAssumption == Metrics \subseteq [points : Seq(Points), series : Seq(Series)]

-------------------------------------------------------------------------------
(* What Prometheus makes of metrics (external). *)

\* The samples in the exposition of a data point, by what they are samples of.
Exposition(dp) ==
    IF dp.kind \in {"gauge", "sum"} THEN {<<"value", 1>>}
    ELSE ({"bucket"} \X (1..dp.buckets)) \cup {<<"count", 1>>}
           \cup IF dp.sum \/ dp.kind = "summary" THEN {<<"sum", 1>>} ELSE {}

\* A scrape makes a sample of each.
ASSUME ScrapeAssumption ==
    \A metric \in Metrics :
        Sum(Each(metric.series, LAMBDA s : Len(s.samples))) =
            Sum(Each(metric.points, LAMBDA dp : Cardinality(Exposition(dp))))

\* The buckets of a histogram, of integers or floats, and how many its spans say
\* it has.
BucketsOf(h) == h.NegativeBuckets \o h.PositiveBuckets
SpanLengths(h) == Sum(Each(h.NegativeSpans \o h.PositiveSpans, LAMBDA s : s.Length))

\* As many buckets as the spans say, and the observations in them and in the zero
\* bucket are the count.
InSpans(h, counts) == Len(counts) = SpanLengths(h)
AddsUp(h, counts) == InSpans(h, counts) /\ Sum(counts) + h.ZeroCount = h.Count

\* The buckets of integers hold the differences of such counts.
Differences(deltas, counts) ==
    \A i \in DOMAIN deltas : deltas[i] = counts[i] - (IF i = 1 THEN 0 ELSE counts[i - 1])
CountsOf(deltas, most) ==
    {counts \in [DOMAIN deltas -> 0..most] : Differences(deltas, counts)}

\* Histogram.Validate, of a histogram that observed no NaN, and
\* FloatHistogram.Validate, which adds no floats up.
Valid(x) ==
    IF x.float THEN InSpans(x.h, BucketsOf(x.h))
    ELSE \E negative \in CountsOf(x.h.NegativeBuckets, x.h.Count),
            positive \in CountsOf(x.h.PositiveBuckets, x.h.Count) :
            AddsUp(x.h, negative \o positive)

ASSUME HistogramsAssumption ==
    \A metric \in Metrics : \A s \in Range(metric.series) : \A x \in Range(s.hists) : Valid(x)

VARIABLES
    making,         \* the metric whose strings are being symbolized, if any
    todo,           \* its strings that are still to be symbolized
    refs,           \* the references of those that were
    series,         \* the TimeSeries of the request
    sent,           \* the metrics they stand for
    dst,            \* the buffer given to OptimizedMarshal
    optimized,      \* was the last request marshalled by OptimizedMarshal?
    wire,           \* the bytes on the way, if any
    got,            \* what they were unmarshalled to, if anything
    added,          \* how many metrics were added, in all
    requests        \* how many requests were begun

requestVars == <<making, todo, refs, series, sent, dst, optimized, wire, got, added, requests>>
vars == <<tableVars, requestVars>>

None == <<>>

\* The strings of a series in the order of the calls of Symbolize.
LabelStrings(labels) == FlattenSeq(Each(labels, LAMBDA l : <<l.Name, l.Value>>))
SeriesStrings(s) ==
    LabelStrings(s.labels) \o <<s.Unit, s.Help>>
      \o FlattenSeq(Each(s.exemplars, LAMBDA e : LabelStrings(e.Labels)))
MetricStrings(metric) == FlattenSeq(Each(metric.series, SeriesStrings))

-------------------------------------------------------------------------------
(* From Prometheus' types. *)

\* What SymbolizeLabels returns.
LabelsRefs(labels) ==
    FlattenSeq(Each(labels, LAMBDA l : <<refs[l.Name], refs[l.Value]>>))

ToProto(s) ==
    [NoSeries EXCEPT
        !.LabelsRefs = LabelsRefs(s.labels),
        !.Samples = Each(s.samples, LAMBDA v : [NoSample EXCEPT !.Value = v.Value,
                                                                !.Timestamp = v.Ts]),
        !.Exemplars = Each(s.exemplars, LAMBDA e :
            [NoExemplar EXCEPT !.LabelsRefs = LabelsRefs(e.Labels),
                               !.Value = e.Value, !.Timestamp = e.Ts]),
        !.Histograms = Each(s.hists, LAMBDA x :
            IF x.float THEN FromFloatHistogram(x.Ts, x.h) ELSE FromIntHistogram(x.Ts, x.h)),
        !.Metadata = [NoMetadata EXCEPT !.Type = FromMetadataType(s.Type),
                                        !.UnitRef = refs[s.Unit],
                                        !.HelpRef = refs[s.Help]],
        !.CreatedTimestamp = s.created,
        !.Labels = Each(s.inline, LAMBDA l : [NoLabel EXCEPT !.Name = l.Name,
                                                             !.Value = l.Value])]

\* The request there is now.
TheRequest == [NoRequest EXCEPT !.Symbols = Symbols(table), !.Timeseries = series]

-------------------------------------------------------------------------------

Init ==
    /\ TableInit
    /\ making = None /\ todo = <<>> /\ refs = <<>>
    /\ series = <<>> /\ sent = <<>>
    /\ dst = <<>> /\ optimized = FALSE /\ wire = None /\ got = None
    /\ added = 0 /\ requests = 1

Begin(metric) ==
    /\ making = None /\ wire = None
    /\ added < MaxMetrics
    /\ making' = metric
    /\ todo' = MetricStrings(metric)
    /\ added' = added + 1
    /\ got' = None
    /\ UNCHANGED <<tableVars, refs, series, sent, dst, optimized, wire, requests>>

\* A reference has 32 bits, and the table no more strings than that.
SymbolizeNext ==
    /\ todo # <<>>
    /\ RefOf(table, Head(todo)) \in Uint32
    /\ Symbolize(Head(todo))
    /\ refs' = [s \in DOMAIN refs \cup {Head(todo)} |->
                  IF s = Head(todo) THEN RefOf(table, s) ELSE refs[s]]
    /\ todo' = Tail(todo)
    /\ UNCHANGED <<making, series, sent, dst, optimized, wire, got, added, requests>>

\* Mutant of AddSeries: a metric of several series keeps its first.
AddFirstSeries ==
    /\ making # None /\ todo = <<>>
    /\ series' = Append(series, ToProto(making.series[1]))
    /\ sent' = Append(sent, making)
    /\ making' = None
    /\ UNCHANGED <<tableVars, todo, refs, dst, optimized, wire, got, added, requests>>

AddSeries ==
    /\ making # None /\ todo = <<>>
    /\ series' = series \o Each(making.series, ToProto)
    /\ sent' = Append(sent, making)
    /\ making' = None
    /\ UNCHANGED <<tableVars, todo, refs, dst, optimized, wire, got, added, requests>>

\* The size is an int; make panics at another.
Encode ==
    /\ making = None /\ wire = None
    /\ RequestSize(TheRequest) \in Int64
    /\ Lend
    /\ wire' = Marshal(TheRequest)
    /\ optimized' = FALSE
    /\ got' = None
    /\ UNCHANGED <<making, todo, refs, series, sent, dst, added, requests>>

\* The buffer of the last one is given again.
EncodeOptimized ==
    /\ making = None /\ wire = None
    /\ RequestSize(TheRequest) \in Int64
    /\ Lend
    /\ wire' = OptimizedMarshal(TheRequest, dst)
    /\ dst' = OptimizedBuffer(TheRequest, dst)
    /\ optimized' = TRUE
    /\ got' = None
    /\ UNCHANGED <<making, todo, refs, series, sent, added, requests>>

\* The receiver's Unmarshal.
Receive ==
    /\ wire # None
    /\ got' = RequestUnmarshal(wire)
    /\ wire' = None
    /\ UNCHANGED <<tableVars, making, todo, refs, series, sent, dst, optimized, added, requests>>

\* The next request: what was encoded before is on its way or gone.
NextRequest ==
    /\ making = None /\ wire = None
    /\ requests < MaxRequests
    /\ Reset
    /\ series' = <<>> /\ sent' = <<>> /\ refs' = <<>> /\ got' = None
    /\ requests' = requests + 1
    /\ UNCHANGED <<making, todo, dst, optimized, wire, added>>

Next ==
    \/ \E metric \in Metrics : Begin(metric)
    \/ SymbolizeNext \/ AddSeries
    \/ Encode \/ EncodeOptimized \/ Receive
    \/ NextRequest

Spec == Init /\ [][Next]_vars

-------------------------------------------------------------------------------
(* Properties. *)

SentSeries == FlattenSeq(Each(sent, LAMBDA metric : metric.series))

\* OptimizedMarshal is for requests that do not use the field Labels: see
\* OptimizedUnmarshals.
NoInlineLabels == \A i \in DOMAIN series : series[i].Labels = <<>>
Arrived == got # None /\ (optimized => NoInlineLabels)

\* The table, and what is on the way: bytes, a request of as many series as
\* were sent.
TypeOK ==
    /\ TableTypeOK
    /\ wire \in Seq(Bytes) /\ dst \in Seq(Bytes)
    /\ Len(series) = Len(SentSeries)

\* The series as Prometheus' types again.
Delivered(ts) ==
    [labels |-> ToLabels(ts, got.Symbols),
     inline |-> Each(ts.Labels, LAMBDA l : [Name |-> l.Name, Value |-> l.Value]),
     Type |-> ToMetadata(ts, got.Symbols).Type,
     Unit |-> ToMetadata(ts, got.Symbols).Unit,
     Help |-> ToMetadata(ts, got.Symbols).Help,
     samples |-> Each(ts.Samples, LAMBDA v : [Value |-> v.Value, Ts |-> v.Timestamp]),
     exemplars |-> Each(ts.Exemplars, LAMBDA e : ToExemplar(e, got.Symbols)),
     hists |-> Each(ts.Histograms, LAMBDA m :
        [float |-> IsFloatHistogram(m), Ts |-> m.Timestamp,
         h |-> IF IsFloatHistogram(m) THEN ToFloatHistogram(m) ELSE ToIntHistogram(m)]),
     created |-> ts.CreatedTimestamp]

\* What a request of Prometheus' types becomes by symbolizing, either way of
\* marshalling, in a new buffer or over an earlier and longer request, and by
\* unmarshalling and conversion (symbols.go, types.pb.go, custom.go, codec.go)
\* is that request: every label, number, histogram and zero value of it, and
\* nothing the decoder could not place.
DeliveredIsSent ==
    Arrived =>
        /\ got # Error
        /\ got.unrecognized = <<>>
        /\ Each(got.Timeseries, Delivered) = SentSeries

\* Size, which both marshallers allocate by and write backwards from, is what
\* is written: one byte more would leave the request without its last byte and
\* with a byte before its first, one less would write out of the buffer.
SizeIsWritten ==
    wire # None =>
        /\ Len(RequestMarshal(TheRequest)) = RequestSize(TheRequest)
        /\ NoInlineLabels =>
             Len(OptimizedRequestMarshal(TheRequest)) = RequestSize(TheRequest)

\* A float64 holds its count and that of its zero bucket.
Countable(m) == {m.Count.v, m.ZeroCount.v} \subseteq 0..Exact

\* An integer histogram read as a float one (deltasToCounts, ToFloatHistogram)
\* has as many buckets as its spans say, and up to 2^53 observations they hold
\* those it was sent with: with the zero bucket's they are its count, although
\* every difference and every sum of them goes through a float.
FloatViewAddsUp ==
    Arrived =>
        \A i \in DOMAIN got.Timeseries : \A m \in Range(got.Timeseries[i].Histograms) :
            LET h == ToFloatHistogram(m)
            IN  ~IsFloatHistogram(m) =>
                    /\ InSpans(h, BucketsOf(h))
                    /\ Countable(m) => AddsUp(h, BucketsOf(h))

\* The data points of a native histogram: its buckets, or its bounds, or one.
NativePoints(x) ==
    IF SpanLengths(x.h) > 0 THEN SpanLengths(x.h)
    ELSE IF x.h.CustomValues # <<>> THEN Len(x.h.CustomValues) ELSE 1

\* The receiver counts as many data points in a request of Remote Write as in
\* the export of the same metrics by OTLP (remotewrite_datapoints.go and
\* otlp_samples.go: "the same accounting"), and for a native histogram, of
\* either kind, one for each bucket its spans say it has.
PointsAgree ==
    Arrived =>
        countRemoteWriteV2DataPoints(got) =
            countSamples(FlattenSeq(Each(sent, LAMBDA metric : metric.points)))
              + Sum(Each(FlattenSeq(Each(SentSeries, LAMBDA s : s.hists)), NativePoints))

\* custom_test.go:91, "Unmarshal should work too.": what OptimizedMarshal
\* returns is unmarshalled to the request that was marshalled, which may be
\* done whenever no metric is in the making.
OptimizedUnmarshals ==
    making = None =>
        RequestUnmarshal(OptimizedMarshal(TheRequest, dst)) = TheRequest
==================================================================================
