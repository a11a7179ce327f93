---------------------------- MODULE MCLoadClient ----------------------------
(* Instances of LoadClient small enough for TLC. *)
EXTENDS LoadClient, TLC

CONSTANTS w1, w2, h1, h2, e1, e2, none

OneHost == [t \in Targets |-> h1]
TwoHosts == [t \in Targets |-> IF t = NumTargets THEN h2 ELSE h1]

NoTarget == {}
LastTarget == {NumTargets}

WorkerSymmetry == Permutations(Workers)
=============================================================================
