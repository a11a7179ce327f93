----------------------------- MODULE EncoderCache -----------------------------
(* internal/zstd/zstd_pure.go: getEncoder keeps one encoder per compression  *)
(* level in a map that is published through an atomic and never written      *)
(* after that.  A caller looks without the lock first; one that misses takes *)
(* the lock, looks again, and publishes a copy of the map with a new encoder *)
(* if it is still missing.                                                   *)
EXTENDS Integers, FiniteSets

CONSTANTS
    Callers,    \* goroutines that call CompressLevel
    Levels,     \* compression levels asked for
    NoLevel,    \* no call under way
    NoCaller,   \* nobody holds the lock
    MaxCalls    \* bound: calls one goroutine makes

ASSUME LevelsAssumption == NoLevel \notin Levels /\ IsFiniteSet(Levels)
ASSUME CallersAssumption == NoCaller \notin Callers
ASSUME BoundAssumption == MaxCalls \in Nat

\* The nil that a lookup of a missing level returns.  Encoders are numbered in
\* the order newEncoder makes them.
NoEncoder == 0

VARIABLES
    av,      \* the published map: its encoder of every level, or NoEncoder
    mu,      \* who holds mu
    made,    \* encoders made so far
    pc,      \* pc[c]: the next step of the goroutine
    level,   \* level[c]: the compressionLevel it asks for
    r1,      \* r1[c]: the map it loaded under the lock
    e,       \* e[c]: the local e, or the result of its last call
    calls    \* calls[c]: calls it has begun (bounded by MaxCalls)

vars == <<av, mu, made, pc, level, r1, e, calls>>

PCs == {"idle", "look", "lock", "lookAgain", "make", "store", "unlock"}

\* A caller past Lock and not past Unlock.
Holding == {"lookAgain", "make", "store", "unlock"}

NoMap == [l \in Levels |-> NoEncoder]

TypeOK ==
    /\ av \in [Levels -> Nat]
    /\ mu \in Callers \cup {NoCaller}
    /\ made \in Nat
    /\ pc \in [Callers -> PCs]
    /\ level \in [Callers -> Levels \cup {NoLevel}]
    /\ \A c \in Callers : level[c] = NoLevel <=> pc[c] = "idle"
    /\ mu # NoCaller => pc[mu] \in Holding
    /\ r1 \in [Callers -> [Levels -> Nat]]
    /\ e \in [Callers -> Nat]
    /\ calls \in [Callers -> Nat]

Init ==
    /\ av = NoMap
    /\ mu = NoCaller
    /\ made = 0
    /\ pc = [c \in Callers |-> "idle"]
    /\ level = [c \in Callers |-> NoLevel]
    /\ r1 = [c \in Callers |-> NoMap]
    /\ e = [c \in Callers |-> NoEncoder]
    /\ calls = [c \in Callers |-> 0]

Goto(c, from, to) ==
    /\ pc[c] = from
    /\ pc' = [pc EXCEPT ![c] = to]

Call(c, l) ==
    /\ Goto(c, "idle", "look")
    /\ calls[c] < MaxCalls
    /\ calls' = [calls EXCEPT ![c] = @ + 1]
    /\ level' = [level EXCEPT ![c] = l]
    /\ e' = [e EXCEPT ![c] = NoEncoder]
    /\ UNCHANGED <<av, mu, made, r1>>

\* av.Load and the lookup without the lock: a hit returns.
Hit(c) ==
    /\ Goto(c, "look", "idle")
    /\ av[level[c]] # NoEncoder
    /\ e' = [e EXCEPT ![c] = av[level[c]]]
    /\ level' = [level EXCEPT ![c] = NoLevel]
    /\ UNCHANGED <<av, mu, made, r1, calls>>

Miss(c) ==
    /\ Goto(c, "look", "lock")
    /\ av[level[c]] = NoEncoder
    /\ UNCHANGED <<av, mu, made, level, r1, e, calls>>

\* Mutant of Lock: the mutex is forgotten.
LockNothing(c) ==
    /\ Goto(c, "lock", "lookAgain")
    /\ UNCHANGED <<av, mu, made, level, r1, e, calls>>

Lock(c) ==
    /\ Goto(c, "lock", "lookAgain")
    /\ mu = NoCaller
    /\ mu' = c
    /\ UNCHANGED <<av, made, level, r1, e, calls>>

\* Mutant of LookAgain: no second look, the miss is taken for granted.
LookNoMore(c) ==
    /\ pc[c] = "lookAgain"
    /\ r1' = [r1 EXCEPT ![c] = av]
    /\ pc' = [pc EXCEPT ![c] = "make"]
    /\ UNCHANGED <<av, mu, made, level, e, calls>>

\* The second lookup, under the lock, in the map that is published now.
LookAgain(c) ==
    /\ pc[c] = "lookAgain"
    /\ r1' = [r1 EXCEPT ![c] = av]
    /\ e' = [e EXCEPT ![c] = av[level[c]]]
    /\ pc' = [pc EXCEPT ![c] =
                 IF av[level[c]] = NoEncoder THEN "make" ELSE "unlock"]
    /\ UNCHANGED <<av, mu, made, level, calls>>

newEncoder(c) ==
    /\ Goto(c, "make", "store")
    /\ made' = made + 1
    /\ e' = [e EXCEPT ![c] = made + 1]
    /\ UNCHANGED <<av, mu, level, r1, calls>>

\* Mutant of Store: the new map is not a copy, it holds the new level alone.
StoreAlone(c) ==
    /\ Goto(c, "store", "unlock")
    /\ av' = [NoMap EXCEPT ![level[c]] = e[c]]
    /\ UNCHANGED <<mu, made, level, r1, e, calls>>

\* The copy of r1 with the new encoder is published.
Store(c) ==
    /\ Goto(c, "store", "unlock")
    /\ av' = [r1[c] EXCEPT ![level[c]] = e[c]]
    /\ UNCHANGED <<mu, made, level, r1, e, calls>>

\* Mutant of Unlock: the lock is kept on the way out.
UnlockForgotten(c) ==
    /\ Goto(c, "unlock", "idle")
    /\ level' = [level EXCEPT ![c] = NoLevel]
    /\ r1' = [r1 EXCEPT ![c] = NoMap]
    /\ UNCHANGED <<av, mu, made, e, calls>>

\* mu.Unlock, and the return of e.
Unlock(c) ==
    /\ Goto(c, "unlock", "idle")
    /\ mu' = NoCaller
    /\ level' = [level EXCEPT ![c] = NoLevel]
    /\ r1' = [r1 EXCEPT ![c] = NoMap]
    /\ UNCHANGED <<av, made, e, calls>>

-------------------------------------------------------------------------------

getEncoder(c) ==
    \/ Hit(c) \/ Miss(c)
    \/ Lock(c) \/ LookAgain(c) \/ newEncoder(c) \/ Store(c) \/ Unlock(c)

\* No further call is made (the bound is reached) and all have returned.
Quiet ==
    /\ \A c \in Callers : pc[c] = "idle" /\ calls[c] = MaxCalls
    /\ UNCHANGED vars

Next ==
    \/ \E c \in Callers : getEncoder(c)
    \/ \E c \in Callers, l \in Levels : Call(c, l)
    \/ Quiet

Spec == Init /\ [][Next]_vars

\* The scheduler runs every goroutine that can run.  sync.Mutex hands a lock
\* that is free again and again to every waiter in the end (its starvation
\* mode), hence strong fairness.
FairSpec == Spec /\ \A c \in Callers : WF_vars(getEncoder(c)) /\ SF_vars(Lock(c))

-------------------------------------------------------------------------------
(* Properties. *)

\* One encoder per level, however many callers miss at once: what is made is
\* what is published, plus the one under way, so no encoder is made twice or
\* made and lost.
NoWastedEncoder ==
    made = Cardinality({l \in Levels : av[l] # NoEncoder})
           + Cardinality({c \in Callers : pc[c] = "store"})

\* A published encoder is never withdrawn or replaced by another, so a copy
\* taken before a store cannot undo it.
PublishedForever ==
    [][\A l \in Levels : av[l] # NoEncoder => av'[l] = av[l]]_vars

\* getEncoder implements a memo: every call returns the encoder of its level,
\* the same to all.  A call is answered when it returns.
Memo == INSTANCE EncoderMemo WITH
    memo <- av,
    asked <- [c \in Callers |-> {level[c]} \cap Levels],
    answer <- [c \in Callers |-> IF pc[c] = "idle" THEN e[c] ELSE NoEncoder]

ImplementsMemo == Memo!Spec

\* Every call returns: the lock is given back on every path.
CallsReturn == \A c \in Callers : pc[c] = "look" ~> pc[c] = "idle"
===============================================================================
