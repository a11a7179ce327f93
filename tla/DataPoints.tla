------------------------------- MODULE DataPoints -------------------------------
(* internal/receiver/otlp_samples.go and remotewrite_datapoints.go: how many *)
(* samples the receiver says a request carries.  A data point of OTLP is     *)
(* [kind, buckets, sum]: the kind of its metric, the lengths of its bucket   *)
(* counts (of its quantile values, for a summary), and whether it has a sum. *)
EXTENDS WireFormat

\* countMetricSamples for one data point of the metric.
countMetricSamples(dp) ==
    IF dp.kind \in {"gauge", "sum", "exponential"} THEN 1
    ELSE IF dp.kind = "histogram" THEN dp.buckets + 1 + (IF dp.sum THEN 1 ELSE 0)
    ELSE IF dp.kind = "summary" THEN dp.buckets + 2
    ELSE 0

\* countSamples of a request with these data points.
countSamples(dps) == Sum(Each(dps, countMetricSamples))

\* Mutant of countHistogramDataPoints: the bounds of custom buckets are left out.
CountBucketsOnly(h) ==
    LET n == Len(h.PositiveDeltas) + Len(h.PositiveCounts)
               + Len(h.NegativeDeltas) + Len(h.NegativeCounts)
    IN  IF n > 0 THEN n ELSE 1

\* countHistogramDataPoints
countHistogramDataPoints(h) ==
    LET n == Len(h.PositiveDeltas) + Len(h.PositiveCounts)
               + Len(h.NegativeDeltas) + Len(h.NegativeCounts)
    IN  IF n > 0 THEN n
        ELSE IF h.CustomValues # <<>> THEN Len(h.CustomValues) ELSE 1

\* countRemoteWriteV2DataPoints, and V1 on the same shape of request.
countRemoteWriteV2DataPoints(req) ==
    Sum(Each(req.Timeseries, LAMBDA ts :
               Len(ts.Samples) + Sum(Each(ts.Histograms, countHistogramDataPoints))))
===============================================================================
