------------------------------ MODULE WriteRequest ------------------------------
(* internal/v2_hack/types.pb.go: the messages of a Remote Write 2.0 request, *)
(* each with its Marshal (the bytes MarshalToSizedBuffer writes), its Size   *)
(* and its Unmarshal; and custom.go, the marshalling of Request and          *)
(* TimeSeries that is "mostly a copy" of the generated one.                  *)
EXTENDS WireFormat

-------------------------------------------------------------------------------
(* Label, Sample, Exemplar, Metadata, BucketSpan *)

NoLabel == [Name |-> <<>>, Value |-> <<>>, unrecognized |-> <<>>]

LabelMarshal(m) ==
    BytesField(1, m.Name) \o BytesField(2, m.Value) \o m.unrecognized

LabelSize(m) == BytesSize(m.Name) + BytesSize(m.Value) + Len(m.unrecognized)

LabelFields ==
    [n \in {1, 2} |-> Single(IF n = 1 THEN "Name" ELSE "Value", 2, Contents)]

LabelUnmarshal(b) == Decode(b, NoLabel, LabelFields)

NoSample == [Value |-> 0, Timestamp |-> 0, unrecognized |-> <<>>]

SampleMarshal(m) ==
    FloatField(1, m.Value) \o VarintField(2, m.Timestamp) \o m.unrecognized

SampleSize(m) == FloatSize(m.Value) + VarintSize(m.Timestamp) + Len(m.unrecognized)

SampleFields ==
    [n \in {1, 2} |-> IF n = 1 THEN Single("Value", 1, Decoded) ELSE Single("Timestamp", 0, Same)]

SampleUnmarshal(b) == Decode(b, NoSample, SampleFields)

NoExemplar == [LabelsRefs |-> <<>>, Value |-> 0, Timestamp |-> 0, unrecognized |-> <<>>]

ExemplarMarshal(m) ==
    PackedField(1, Each(m.LabelsRefs, Varint)) \o FloatField(2, m.Value)
      \o VarintField(3, m.Timestamp) \o m.unrecognized

ExemplarSize(m) ==
    PackedSize(Each(m.LabelsRefs, sovTypes)) + FloatSize(m.Value)
      + VarintSize(m.Timestamp) + Len(m.unrecognized)

ExemplarFields ==
    [n \in 1..3 |->
        IF n = 1 THEN Numbers("LabelsRefs", Same)
        ELSE IF n = 2 THEN Single("Value", 1, Decoded)
        ELSE Single("Timestamp", 0, Same)]

ExemplarUnmarshal(b) == Decode(b, NoExemplar, ExemplarFields)

NoMetadata == [Type |-> 0, HelpRef |-> 0, UnitRef |-> 0, unrecognized |-> <<>>]

MetadataMarshal(m) ==
    VarintField(1, m.Type) \o VarintField(3, m.HelpRef) \o VarintField(4, m.UnitRef)
      \o m.unrecognized

MetadataSize(m) ==
    VarintSize(m.Type) + VarintSize(m.HelpRef) + VarintSize(m.UnitRef)
      + Len(m.unrecognized)

MetadataFields ==
    [n \in {1, 3, 4} |->
        Single(IF n = 1 THEN "Type" ELSE IF n = 3 THEN "HelpRef" ELSE "UnitRef", 0, Same)]

\* A TimeSeries unmarshals its metadata into the one it has.
MetadataUnmarshal(b, into) == Decode(b, into, MetadataFields)

NoSpan == [Offset |-> 0, Length |-> 0, unrecognized |-> <<>>]

SpanMarshal(m) ==
    VarintField(1, Zigzag(m.Offset)) \o VarintField(2, m.Length) \o m.unrecognized

SpanSize(m) ==
    (IF m.Offset = 0 THEN 0 ELSE 1 + sozTypes(m.Offset)) + VarintSize(m.Length)
      + Len(m.unrecognized)

SpanFields ==
    [n \in {1, 2} |->
        IF n = 1 THEN Single("Offset", 0, Unzigzagged) ELSE Single("Length", 0, Same)]

SpanUnmarshal(b) == Decode(b, NoSpan, SpanFields)

-------------------------------------------------------------------------------
(* Histogram.  Count and ZeroCount are oneofs: nil, an integer or a float.   *)

Nil == [is |-> "nil", v |-> 0]
IntCount(v) == [is |-> "int", v |-> v]
FloatCount(v) == [is |-> "float", v |-> v]

\* A oneof that is not nil is written even when its value is zero.
CountMarshal(c, intNum, floatNum) ==
    IF c.is = "int" THEN Tag(intNum, 0) \o Varint(c.v)
    ELSE IF c.is = "float" THEN Tag(floatNum, 1) \o Fixed64(c.v)
    ELSE <<>>

CountSize(c) ==
    IF c.is = "int" THEN 1 + sovTypes(c.v) ELSE IF c.is = "float" THEN 9 ELSE 0

NoHistogram ==
    [Count |-> Nil, Sum |-> 0, Schema |-> 0, ZeroThreshold |-> 0, ZeroCount |-> Nil,
     NegativeSpans |-> <<>>, NegativeDeltas |-> <<>>, NegativeCounts |-> <<>>,
     PositiveSpans |-> <<>>, PositiveDeltas |-> <<>>, PositiveCounts |-> <<>>,
     ResetHint |-> 0, Timestamp |-> 0, CustomValues |-> <<>>, unrecognized |-> <<>>]

HistogramMarshal(m) ==
    CountMarshal(m.Count, 1, 2) \o FloatField(3, m.Sum)
      \o VarintField(4, Zigzag(m.Schema)) \o FloatField(5, m.ZeroThreshold)
      \o CountMarshal(m.ZeroCount, 6, 7)
      \o RepeatedField(8, Each(m.NegativeSpans, SpanMarshal))
      \o PackedField(9, Each(m.NegativeDeltas, ZigzagVarint))
      \o PackedField(10, Each(m.NegativeCounts, Fixed64))
      \o RepeatedField(11, Each(m.PositiveSpans, SpanMarshal))
      \o PackedField(12, Each(m.PositiveDeltas, ZigzagVarint))
      \o PackedField(13, Each(m.PositiveCounts, Fixed64))
      \o VarintField(14, m.ResetHint) \o VarintField(15, m.Timestamp)
      \o PackedField(16, Each(m.CustomValues, Fixed64)) \o m.unrecognized

\* Mutant of HistogramSize: every tag has one byte.
HistogramSizeShort(m) ==
    CountSize(m.Count) + FloatSize(m.Sum)
      + (IF m.Schema = 0 THEN 0 ELSE 1 + sozTypes(m.Schema))
      + FloatSize(m.ZeroThreshold) + CountSize(m.ZeroCount)
      + RepeatedSize(Each(m.NegativeSpans, SpanSize))
      + PackedSize(Each(m.NegativeDeltas, sozTypes))
      + PackedSize(Each(m.NegativeCounts, Eight))
      + RepeatedSize(Each(m.PositiveSpans, SpanSize))
      + PackedSize(Each(m.PositiveDeltas, sozTypes))
      + PackedSize(Each(m.PositiveCounts, Eight))
      + VarintSize(m.ResetHint) + VarintSize(m.Timestamp)
      + PackedSize(Each(m.CustomValues, Eight)) + Len(m.unrecognized)

\* The tag of field 16 has two bytes.
HistogramSize(m) ==
    CountSize(m.Count) + FloatSize(m.Sum)
      + (IF m.Schema = 0 THEN 0 ELSE 1 + sozTypes(m.Schema))
      + FloatSize(m.ZeroThreshold) + CountSize(m.ZeroCount)
      + RepeatedSize(Each(m.NegativeSpans, SpanSize))
      + PackedSize(Each(m.NegativeDeltas, sozTypes))
      + PackedSize(Each(m.NegativeCounts, Eight))
      + RepeatedSize(Each(m.PositiveSpans, SpanSize))
      + PackedSize(Each(m.PositiveDeltas, sozTypes))
      + PackedSize(Each(m.PositiveCounts, Eight))
      + VarintSize(m.ResetHint) + VarintSize(m.Timestamp)
      + (IF m.CustomValues = <<>> THEN 0
         ELSE 1 + PackedSize(Each(m.CustomValues, Eight)))
      + Len(m.unrecognized)

\* The later of two entries of a oneof replaces the earlier.
IntOf == [v \in Int |-> IntCount(v)]
FloatOf == [b \in Seq(Bytes) |-> FloatCount(Float(b))]
SpanOf == [b \in Seq(Bytes) |-> SpanUnmarshal(b)]

HistogramFields ==
    [n \in 1..16 |->
        CASE n = 1 -> Single("Count", 0, IntOf)       [] n = 2 -> Single("Count", 1, FloatOf)
          [] n = 3 -> Single("Sum", 1, Decoded)       [] n = 4 -> Single("Schema", 0, Unzigzagged)
          [] n = 5 -> Single("ZeroThreshold", 1, Decoded)
          [] n = 6 -> Single("ZeroCount", 0, IntOf)   [] n = 7 -> Single("ZeroCount", 1, FloatOf)
          [] n = 8 -> Many("NegativeSpans", SpanOf)
          [] n = 9 -> Numbers("NegativeDeltas", Unzigzagged)
          [] n = 10 -> FloatsInto("NegativeCounts")
          [] n = 11 -> Many("PositiveSpans", SpanOf)
          [] n = 12 -> Numbers("PositiveDeltas", Unzigzagged)
          [] n = 13 -> FloatsInto("PositiveCounts")
          [] n = 14 -> Single("ResetHint", 0, Same)   [] n = 15 -> Single("Timestamp", 0, Same)
          [] n = 16 -> FloatsInto("CustomValues")]

HistogramUnmarshal(b) == Decode(b, NoHistogram, HistogramFields)

-------------------------------------------------------------------------------
(* TimeSeries and Request *)

NoSeries ==
    [LabelsRefs |-> <<>>, Samples |-> <<>>, Histograms |-> <<>>, Exemplars |-> <<>>,
     Metadata |-> NoMetadata, CreatedTimestamp |-> 0, Labels |-> <<>>,
     unrecognized |-> <<>>]

\* The metadata is written even when it is empty.
TimeSeriesMarshal(m) ==
    PackedField(1, Each(m.LabelsRefs, Varint))
      \o RepeatedField(2, Each(m.Samples, SampleMarshal))
      \o RepeatedField(3, Each(m.Histograms, HistogramMarshal))
      \o RepeatedField(4, Each(m.Exemplars, ExemplarMarshal))
      \o Delimited(5, MetadataMarshal(m.Metadata))
      \o VarintField(6, m.CreatedTimestamp)
      \o RepeatedField(7, Each(m.Labels, LabelMarshal)) \o m.unrecognized

TimeSeriesSize(m) ==
    PackedSize(Each(m.LabelsRefs, sovTypes)) + RepeatedSize(Each(m.Samples, SampleSize))
      + RepeatedSize(Each(m.Histograms, HistogramSize))
      + RepeatedSize(Each(m.Exemplars, ExemplarSize))
      + DelimitedSize(MetadataSize(m.Metadata)) + VarintSize(m.CreatedTimestamp)
      + RepeatedSize(Each(m.Labels, LabelSize)) + Len(m.unrecognized)

\* The metadata a TimeSeries can hold.
Metadatas ==
    [Type : Int, HelpRef : Int, UnitRef : Int, unrecognized : Seq(Bytes)]

TimeSeriesFields ==
    [n \in 1..7 |->
        CASE n = 1 -> Numbers("LabelsRefs", Same)
          [] n = 2 -> Many("Samples", [b \in Seq(Bytes) |-> SampleUnmarshal(b)])
          [] n = 3 -> Many("Histograms", [b \in Seq(Bytes) |-> HistogramUnmarshal(b)])
          [] n = 4 -> Many("Exemplars", [b \in Seq(Bytes) |-> ExemplarUnmarshal(b)])
          [] n = 5 -> Merged("Metadata", [into \in Metadatas |->
                                  [b \in Seq(Bytes) |-> MetadataUnmarshal(b, into)]])
          [] n = 6 -> Single("CreatedTimestamp", 0, Same)
          [] n = 7 -> Many("Labels", [b \in Seq(Bytes) |-> LabelUnmarshal(b)])]

TimeSeriesUnmarshal(b) == Decode(b, NoSeries, TimeSeriesFields)

NoRequest == [Symbols |-> <<>>, Timeseries |-> <<>>, unrecognized |-> <<>>]

\* A repeated string is written even when it is empty.
RequestMarshal(m) ==
    RepeatedField(4, m.Symbols)
      \o RepeatedField(5, Each(m.Timeseries, TimeSeriesMarshal)) \o m.unrecognized

RequestSize(m) ==
    RepeatedSize(Each(m.Symbols, Len)) + RepeatedSize(Each(m.Timeseries, TimeSeriesSize))
      + Len(m.unrecognized)

RequestFields ==
    [n \in {4, 5} |->
        IF n = 4 THEN ManyStrings("Symbols")
        ELSE Many("Timeseries", [b \in Seq(Bytes) |-> TimeSeriesUnmarshal(b)])]

RequestUnmarshal(b) == Decode(b, NoRequest, RequestFields)

-------------------------------------------------------------------------------
(* Marshalling into a buffer.  What is written ends where the buffer of      *)
(* Size() bytes ends; what is returned starts where it starts.               *)

\* The buffer after the bytes are written, from its end on.
WriteAtEnd(buffer, bytes) ==
    SubSeq(buffer, 1, Len(buffer) - Len(bytes)) \o bytes

\* make([]byte, n)
Make(n) == [i \in 1..n |-> 0]

\* Request.Marshal: a new buffer.
Marshal(m) ==
    LET bytes == RequestMarshal(m)
        size  == RequestSize(m)
    IN  IF Len(bytes) > size THEN Error
        ELSE SubSeq(WriteAtEnd(Make(size), bytes), 1, Len(bytes))

-------------------------------------------------------------------------------
(* custom.go *)

\* The label references, encoded backwards in the buffer and then reversed.
RefsInPlace(refs) ==
    LET backwards == Reverse(FlattenSeq(Each(refs, Varint)))
    IN  BytesField(1, Reverse(backwards))

\* Histograms are written before exemplars, from the end, and Labels never.
OptimizedSeriesMarshal(m) ==
    RefsInPlace(m.LabelsRefs)
      \o RepeatedField(2, Each(m.Samples, SampleMarshal))
      \o RepeatedField(4, Each(m.Exemplars, ExemplarMarshal))
      \o RepeatedField(3, Each(m.Histograms, HistogramMarshal))
      \o Delimited(5, MetadataMarshal(m.Metadata))
      \o VarintField(6, m.CreatedTimestamp) \o m.unrecognized

OptimizedRequestMarshal(m) ==
    RepeatedField(4, m.Symbols)
      \o RepeatedField(5, Each(m.Timeseries, OptimizedSeriesMarshal)) \o m.unrecognized

\* The array OptimizedMarshal writes into, given the array of dst: a new one
\* when the capacity of dst is too small.
OptimizedBuffer(m, dst) ==
    LET size   == RequestSize(m)
        buffer == IF Len(dst) < size THEN Make(size) ELSE dst
    IN  WriteAtEnd(SubSeq(buffer, 1, size), OptimizedRequestMarshal(m))
          \o SubSeq(buffer, size + 1, Len(buffer))

\* Mutant of OptimizedMarshal: all of dst is returned.
OptimizedMarshalWhole(m, dst) ==
    IF Len(OptimizedRequestMarshal(m)) > RequestSize(m) THEN Error
    ELSE OptimizedBuffer(m, dst)

\* Request.OptimizedMarshal: as many bytes from the start of that array as
\* were written at the end of its first Size() bytes.
OptimizedMarshal(m, dst) ==
    LET n == Len(OptimizedRequestMarshal(m))
    IN  IF n > RequestSize(m) THEN Error ELSE SubSeq(OptimizedBuffer(m, dst), 1, n)
===============================================================================
