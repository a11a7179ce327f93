--------------------------------- MODULE Codec ---------------------------------
(* internal/v2_hack/codec.go, and desymbolizeLabels of symbols.go: between   *)
(* the messages of Remote Write 2.0 and Prometheus' own types (external).    *)
(* Labels are sequences of [Name, Value], as Range visits them; a native     *)
(* histogram is a record of Prometheus' fields with integer or float buckets.*)
EXTENDS WriteRequest, TLC

CONSTANT
    Exact           \* a float64 holds every integer up to here: 2^53

ASSUME ExactAssumption == Exact \in Nat \ {0} /\ \E p \in 1..53 : Exact = 2^p

\* The metric types, at their numbers in the enumeration.
MetricTypes == <<"counter", "gauge", "histogram", "gaugehistogram", "summary",
                 "info", "stateset">>

\* FromMetadataType; 0 is METRIC_TYPE_UNSPECIFIED.
FromMetadataType(t) ==
    IF t \in Range(MetricTypes) THEN CHOOSE n \in DOMAIN MetricTypes : MetricTypes[n] = t
    ELSE 0

\* ToMetadataType
TypeOf(n) == IF n \in DOMAIN MetricTypes THEN MetricTypes[n] ELSE "unknown"

\* TimeSeries.ToMetadata
ToMetadata(m, symbols) ==
    [Type |-> TypeOf(m.Metadata.Type),
     Unit |-> symbols[m.Metadata.UnitRef + 1],
     Help |-> symbols[m.Metadata.HelpRef + 1]]

\* Strings are compared byte by byte.
Precedes(a, b) ==
    \/ Len(a) < Len(b) /\ SubSeq(b, 1, Len(a)) = a
    \/ \E i \in DOMAIN a \cap DOMAIN b :
          a[i] < b[i] /\ \A j \in 1..(i - 1) : a[j] = b[j]

\* ScratchBuilder.Sort (external), by name; equal names stay in their order.
Before(ls, k, j) ==
    Precedes(ls[k].Name, ls[j].Name) \/ (ls[k].Name = ls[j].Name /\ k < j)
Rank(ls, j) == 1 + Cardinality({k \in DOMAIN ls : Before(ls, k, j)})
Sorted(ls) == [i \in DOMAIN ls |-> ls[CHOOSE j \in DOMAIN ls : Rank(ls, j) = i]]

\* The pairs of references looked up, and sorted by name.
desymbolizeLabels(refs, symbols) ==
    Sorted([i \in 1..(Len(refs) \div 2) |->
              [Name |-> symbols[refs[2 * i - 1] + 1], Value |-> symbols[refs[2 * i] + 1]]])

ToLabels(m, symbols) == desymbolizeLabels(m.LabelsRefs, symbols)

\* Exemplar.ToExemplar: a timestamp of 0 is none.
ToExemplar(m, symbols) ==
    [Labels |-> desymbolizeLabels(m.LabelsRefs, symbols), Value |-> m.Value,
     Ts |-> m.Timestamp, HasTs |-> m.Timestamp # 0]

-------------------------------------------------------------------------------
(* Native histograms. *)

spansToSpansProto(spans) ==
    Each(spans, LAMBDA s : [NoSpan EXCEPT !.Offset = s.Offset, !.Length = s.Length])

spansProtoToSpans(spans) ==
    Each(spans, LAMBDA s : [Offset |-> s.Offset, Length |-> s.Length])

\* What FromIntHistogram and FromFloatHistogram have in common.
HistogramFrom(timestamp, h) ==
    [NoHistogram EXCEPT
        !.Sum = h.Sum, !.Schema = h.Schema, !.ZeroThreshold = h.ZeroThreshold,
        !.NegativeSpans = spansToSpansProto(h.NegativeSpans),
        !.PositiveSpans = spansToSpansProto(h.PositiveSpans),
        !.ResetHint = h.CounterResetHint, !.CustomValues = h.CustomValues,
        !.Timestamp = timestamp]

FromIntHistogram(timestamp, h) ==
    [HistogramFrom(timestamp, h) EXCEPT
        !.Count = IntCount(h.Count), !.ZeroCount = IntCount(h.ZeroCount),
        !.NegativeDeltas = h.NegativeBuckets, !.PositiveDeltas = h.PositiveBuckets]

FromFloatHistogram(timestamp, h) ==
    [HistogramFrom(timestamp, h) EXCEPT
        !.Count = FloatCount(h.Count), !.ZeroCount = FloatCount(h.ZeroCount),
        !.NegativeCounts = h.NegativeBuckets, !.PositiveCounts = h.PositiveBuckets]

IsFloatHistogram(m) == m.Count.is = "float"

\* GetCountInt, GetZeroCountFloat and the like: 0 when the oneof holds the other.
GetOneof(c, is) == IF c.is = is THEN c.v ELSE 0

HistogramTo(m, is, negative, positive) ==
    [CounterResetHint |-> m.ResetHint, Schema |-> m.Schema,
     ZeroThreshold |-> m.ZeroThreshold, ZeroCount |-> GetOneof(m.ZeroCount, is),
     Count |-> GetOneof(m.Count, is), Sum |-> m.Sum,
     PositiveSpans |-> spansProtoToSpans(m.PositiveSpans), PositiveBuckets |-> positive,
     NegativeSpans |-> spansProtoToSpans(m.NegativeSpans), NegativeBuckets |-> negative,
     CustomValues |-> m.CustomValues]

\* Of an integer histogram; the code returns nil for a float one.
ToIntHistogram(m) == HistogramTo(m, "int", m.NegativeDeltas, m.PositiveDeltas)

\* The distance between two floats of the size of n.
Spacing[n \in Nat] == IF n < Exact THEN 1 ELSE 2 * Spacing[n \div 2]

\* float64(n), as the number it is: n, or the nearest that there is, the even one
\* of two.
float64(n) ==
    IF n \in -Exact..Exact THEN n
    ELSE LET unit == Spacing[IF n < 0 THEN -n ELSE n]
             down == n \div unit
             rest == n % unit
             up == 2 * rest > unit \/ (2 * rest = unit /\ down % 2 = 1)
         IN  unit * (IF up THEN down + 1 ELSE down)

\* What the 64 bits of v are as a uint64.
Unsigned(v) == IF v < 0 THEN v + 2 * (2097152 * 2097152 * 2097152) ELSE v

\* Mutant of deltasToCounts: the deltas are not added up.
DeltasAsCounts(deltas) == Each(deltas, float64)

\* An addition of floats is rounded too.
deltasToCounts(deltas) ==
    LET count[i \in DOMAIN deltas] ==
            float64(float64(deltas[i]) + (IF i = 1 THEN 0 ELSE count[i - 1]))
    IN  count

\* An integer histogram is converted: its counts are given as the numbers their
\* floats are, and not by codes.
ToFloatHistogram(m) ==
    IF IsFloatHistogram(m) THEN HistogramTo(m, "float", m.NegativeCounts, m.PositiveCounts)
    ELSE [HistogramTo(m, "int", deltasToCounts(m.NegativeDeltas),
                      deltasToCounts(m.PositiveDeltas))
            EXCEPT !.ZeroCount = float64(Unsigned(@)), !.Count = float64(Unsigned(@))]
===============================================================================
