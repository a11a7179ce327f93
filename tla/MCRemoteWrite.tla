----------------------------- MODULE MCRemoteWrite -----------------------------
EXTENDS RemoteWrite

\* Strings: empty, one byte, and one that another is a prefix of.
E == <<>>
A == <<97>>
AB == <<97, 98>>
B == <<98>>
MCStrings == {E, A, AB, B, <<195>>}

Plain == [labels |-> <<[Name |-> A, Value |-> B]>>, inline |-> <<>>, Type |-> "unknown", Unit |-> E,
          Help |-> E, samples |-> <<>>, exemplars |-> <<>>, hists |-> <<>>, created |-> 0]

One(points, s) == [points |-> points, series |-> <<s>>]

\* A counter, as a sum of OTLP: a sample of zeros, a created timestamp of two bytes.
Counter == One(<<[kind |-> "sum", buckets |-> 0, sum |-> FALSE]>>,
    [Plain EXCEPT !.labels = <<[Name |-> A, Value |-> E], [Name |-> AB, Value |-> A]>>,
                  !.Type = "counter", !.Help = AB, !.samples = <<[Value |-> 0, Ts |-> 0]>>,
                  !.exemplars = <<[Labels |-> <<[Name |-> B, Value |-> A]>>, Value |-> 9,
                                   Ts |-> 0, HasTs |-> FALSE]>>,
                  !.created = 300])

\* A classic histogram with two buckets and a sum and a summary of one quantile,
\* a series for each of their samples; one has a label that is not symbolized.
Sampled(v, ts) == [Plain EXCEPT !.Type = "histogram", !.samples = <<[Value |-> v, Ts |-> ts]>>]
Classic == [points |-> <<[kind |-> "histogram", buckets |-> 2, sum |-> TRUE],
                         [kind |-> "summary", buckets |-> 1, sum |-> TRUE]>>,
            series |-> <<[Sampled(1, 1) EXCEPT !.inline = <<[Name |-> B, Value |-> E]>>],
                         Sampled(2, 1), Sampled(2, 127), Sampled(700, 128),
                         Sampled(3, -1), Sampled(2, -1), Sampled(5, 300)>>]

\* A native histogram of integers, with an exemplar at a time, and one of floats
\* with bounds.
Native == [CounterResetHint |-> 2, Schema |-> -4, ZeroThreshold |-> 1, ZeroCount |-> 0,
           Count |-> 8, Sum |-> 77,
           PositiveSpans |-> <<[Offset |-> -3, Length |-> 2], [Offset |-> 70, Length |-> 1]>>,
           PositiveBuckets |-> <<3, -2, 2>>,
           NegativeSpans |-> <<[Offset |-> 0, Length |-> 1]>>, NegativeBuckets |-> <<1>>,
           CustomValues |-> <<>>]
\* One of 20 observations, more than an Exact of 8: its counts are 0, 9, 11 and 0, and
\* as floats 0, 8, 10 and -2.
Rounded == [Native EXCEPT !.Count = 20, !.PositiveBuckets = <<9, 2, -11>>,
                          !.NegativeBuckets = <<0>>]
Natives == [points |-> <<>>, series |-> <<
    [Plain EXCEPT !.Unit = <<195>>, !.Type = "gaugehistogram",
                  !.hists = <<[float |-> FALSE, Ts |-> 5, h |-> Native],
                              [float |-> FALSE, Ts |-> 5, h |-> Rounded]>>,
                  !.exemplars = <<[Labels |-> <<>>, Value |-> 0, Ts |-> -7, HasTs |-> TRUE]>>],
    [Plain EXCEPT !.hists = <<
        [float |-> TRUE, Ts |-> 0,
         h |-> [Native EXCEPT !.ZeroCount = 1, !.Count = 10, !.CustomValues = <<4, 600>>,
                              !.PositiveBuckets = <<3, 0, 5>>]],
        [float |-> TRUE, Ts |-> 1,
         h |-> [Native EXCEPT !.Schema = -53, !.Count = 0, !.CustomValues = <<4, 600>>,
                              !.PositiveSpans = <<>>, !.PositiveBuckets = <<>>,
                              !.NegativeSpans = <<>>, !.NegativeBuckets = <<>>]]>>]>>]

MCMetrics == {Counter, Classic, Natives}
=================================================================================
