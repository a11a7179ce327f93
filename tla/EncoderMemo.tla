------------------------------ MODULE EncoderMemo ------------------------------
(* What the encoder cache promises: a call for a compression level returns   *)
(* the one encoder of that level, which is made when it is first needed and  *)
(* never replaced.                                                           *)
EXTENDS Integers, FiniteSets

CONSTANTS
    Callers,    \* goroutines that compress
    Levels,     \* compression levels
    NoEncoder   \* no encoder: not a positive number

VARIABLES
    memo,       \* memo[l]: the encoder of level l, or NoEncoder
    asked,      \* asked[c]: the levels caller c is waiting for, {} or one
    answer      \* answer[c]: what c's last call returned

vars == <<memo, asked, answer>>

Init ==
    /\ memo = [l \in Levels |-> NoEncoder]
    /\ asked = [c \in Callers |-> {}]
    /\ answer = [c \in Callers |-> NoEncoder]

Ask(c, l) ==
    /\ asked[c] = {}
    /\ asked' = [asked EXCEPT ![c] = {l}]
    /\ answer' = [answer EXCEPT ![c] = NoEncoder]
    /\ UNCHANGED memo

\* The encoders in use.  They are named by the order they are made in, so the
\* next one has the first name that is free: none is made and not used.
InUse == {l \in Levels : memo[l] # NoEncoder}

\* The encoder of level l comes into being, while someone waits for it.
Make(l) ==
    /\ memo[l] = NoEncoder
    /\ \E c \in Callers : l \in asked[c]
    /\ memo' = [memo EXCEPT ![l] = Cardinality(InUse) + 1]
    /\ UNCHANGED <<asked, answer>>

Answer(c, l) ==
    /\ l \in asked[c]
    /\ memo[l] # NoEncoder
    /\ answer' = [answer EXCEPT ![c] = memo[l]]
    /\ asked' = [asked EXCEPT ![c] = {}]
    /\ UNCHANGED memo

Next ==
    \/ \E c \in Callers, l \in Levels : Ask(c, l) \/ Answer(c, l)
    \/ \E l \in Levels : Make(l)

Spec == Init /\ [][Next]_vars

===============================================================================
