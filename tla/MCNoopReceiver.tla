--------------------------- MODULE MCNoopReceiver ---------------------------
(* Instances of NoopReceiver small enough for TLC. *)
EXTENDS NoopReceiver, TLC

CONSTANTS a1, a2

AllTraffic == {"v1", "v2"} \X Encodings
                \cup {"otlpHTTP", "otlpGRPC"} \X {"other"}

HandlerSymmetry == Permutations(Handlers)
=============================================================================
