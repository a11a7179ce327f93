---------------------------- MODULE LockstepRounds ----------------------------
(* What the load client promises about the load it offers: each worker works *)
(* in rounds; one round sends one request shape to every target, and no      *)
(* worker opens a round before every target has finished its previous one.   *)
EXTENDS Integers

CONSTANTS
    Workers,    \* the tickLoop goroutines
    Targets,    \* the app instances under load
    Endpoints,  \* the request shapes a round can pick
    NoEndpoint  \* no round opened yet

VARIABLES
    round,      \* round[w]: rounds worker w has opened
    shape,      \* shape[w]: the request shape of w's current round
    served      \* served[w]: targets that finished w's current round

vars == <<round, shape, served>>

TypeOK ==
    /\ round \in [Workers -> Nat]
    /\ shape \in [Workers -> Endpoints \cup {NoEndpoint}]
    /\ served \in [Workers -> SUBSET Targets]

Init ==
    /\ round = [w \in Workers |-> 0]
    /\ shape = [w \in Workers |-> NoEndpoint]
    /\ served = [w \in Workers |-> Targets]

Open(w, e) ==
    /\ served[w] = Targets
    /\ round' = [round EXCEPT ![w] = @ + 1]
    /\ shape' = [shape EXCEPT ![w] = e]
    /\ served' = [served EXCEPT ![w] = {}]

Serve(w, t) ==
    /\ t \notin served[w]
    /\ served' = [served EXCEPT ![w] = @ \cup {t}]
    /\ UNCHANGED <<round, shape>>

Next == \E w \in Workers :
    \/ \E e \in Endpoints : Open(w, e)
    \/ \E t \in Targets : Serve(w, t)

Spec == Init /\ [][Next]_vars

===============================================================================
