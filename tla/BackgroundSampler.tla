---------------------------- MODULE BackgroundSampler ----------------------------
(* simulateBackground of the three apps, and procstats: a tick walks the     *)
(* queue depth, adds to a counter the garbage collections since the last     *)
(* tick, samples the process and adds the CPU time since the last sample.    *)
(* The other gauges are set to what was read and are left out.               *)
(* cmd/uninstrumented-app computes the same differences and drops them:      *)
(* there counter is only their sum.  Usages are whole numbers.               *)
EXTENDS Integers

CONSTANTS
    Steps,      \* the steps of the depth's random walk
    MaxDepth,   \* where it is clamped
    MaxUsage    \* bound on the CPU time and the garbage collections together

ASSUME StepsAssumption == Steps \subseteq Int
ASSUME DepthAssumption == MaxDepth \in Nat
ASSUME UsageAssumption == MaxUsage \in Nat

Usages == {"cpu", "gc"}

VARIABLES
    usage,      \* what the process has used so far (external)
    last,       \* lastCPUSeconds and lastGCCycles
    counter,    \* cpuSeconds and gcCycles
    depth,      \* depth
    sampling,   \* "off", "waiting" for the tick, or "reading" the process
    seen        \* the usages when they were last read without an error

samplerVars == <<usage, last, counter, depth, sampling, seen>>

SamplerInit ==
    /\ usage = [u \in Usages |-> 0]
    /\ last = [u \in Usages |-> 0]
    /\ counter = [u \in Usages |-> 0]
    /\ depth = 0
    /\ sampling = "off"
    /\ seen = [u \in Usages |-> 0]

\* The process goes on using CPU time and collecting garbage.
Use(u) ==
    /\ sampling # "off" /\ usage["cpu"] + usage["gc"] < MaxUsage
    /\ usage' = [usage EXCEPT ![u] = @ + 1]
    /\ UNCHANGED <<last, counter, depth, sampling, seen>>

Clamped(d) == IF d < 0 THEN 0 ELSE IF d > MaxDepth THEN MaxDepth ELSE d

\* The difference to the last reading is added, and the reading kept.
AddDelta(u) ==
    /\ counter' = [counter EXCEPT ![u] = IF usage[u] > last[u] THEN @ + usage[u] - last[u]
                                         ELSE @]
    /\ last' = [last EXCEPT ![u] = IF usage[u] > last[u] THEN usage[u] ELSE @]
    /\ seen' = [seen EXCEPT ![u] = usage[u]]

\* A tick, up to the sampling of the process.
TickRead ==
    /\ sampling = "waiting"
    /\ \E step \in Steps : depth' = Clamped(depth + step)
    /\ AddDelta("gc")
    /\ sampling' = "reading"
    /\ UNCHANGED usage

\* Sample() returns an error: continue.
SampleFails ==
    /\ sampling = "reading"
    /\ sampling' = "waiting"
    /\ UNCHANGED <<usage, last, counter, depth, seen>>

\* Mutant of SampleSucceeds: the reading is not kept.
SampleForgotten ==
    /\ sampling = "reading"
    /\ counter' = [counter EXCEPT !["cpu"] = @ + usage["cpu"] - last["cpu"]]
    /\ seen' = [seen EXCEPT !["cpu"] = usage["cpu"]]
    /\ sampling' = "waiting"
    /\ UNCHANGED <<usage, last, depth>>

SampleSucceeds ==
    /\ sampling = "reading"
    /\ AddDelta("cpu")
    /\ sampling' = "waiting"
    /\ UNCHANGED <<usage, depth>>

\* go simulateBackground
StartSampler ==
    /\ sampling' = "waiting"
    /\ UNCHANGED <<usage, last, counter, depth, seen>>

\* The select takes the end of the context, also when a tick is waiting.
StopSampler ==
    /\ sampling = "waiting"
    /\ sampling' = "off"
    /\ UNCHANGED <<usage, last, counter, depth, seen>>

SamplerStep == (\E u \in Usages : Use(u)) \/ TickRead \/ SampleFails \/ SampleSucceeds

-------------------------------------------------------------------------------
(* Properties. *)

SamplerTypeOK ==
    /\ usage \in [Usages -> 0..MaxUsage]
    /\ last \in [Usages -> 0..MaxUsage]
    /\ counter \in [Usages -> 0..MaxUsage]
    /\ seen \in [Usages -> 0..MaxUsage]
    /\ depth \in 0..MaxDepth
    /\ sampling \in {"off", "waiting", "reading"}

\* The counters of CPU time and of garbage collections, which are built from
\* differences, show what the process had used when it was last read: what a
\* failed sample skipped is caught up with, and nothing is counted twice
\* (simulateBackground's continue after proc.Sample()).
CountersTrackUsage ==
    \A u \in Usages : counter[u] = seen[u] /\ counter[u] <= usage[u]
==================================================================================
