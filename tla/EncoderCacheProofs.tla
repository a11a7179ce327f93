-------------------------- MODULE EncoderCacheProofs --------------------------
(* The lock and the second look of getEncoder make it a memo, for any number *)
(* of callers, levels and calls.                                             *)
EXTENDS EncoderCache, FiniteSetTheorems, TLAPS

\* The lock belongs to the one caller past Lock and not past Unlock.
MutexInv == \A c \in Callers : pc[c] \in Holding <=> mu = c

\* What a caller has read under the lock is still so: the map it loaded is the
\* published one, without its level until it stores the encoder it made last.
ReadInv ==
    \A c \in Callers :
        /\ pc[c] \in {"make", "store"} =>
              r1[c] = av /\ av[level[c]] = NoEncoder
        /\ pc[c] = "store" => made # 0 /\ e[c] = made
        /\ pc[c] = "unlock" => e[c] # NoEncoder /\ e[c] = av[level[c]]

InUse == {l \in Levels : av[l] # NoEncoder}

\* The caller between newEncoder and Store, if there is one.
Storing == {c \in Callers : pc[c] = "store"}

IInv == TypeOK /\ MutexInv /\ ReadInv /\ NoWastedEncoder

-------------------------------------------------------------------------------

LEMMA InitIInv == Init => IInv
  <1> SUFFICES ASSUME Init PROVE IInv OBVIOUS
  <1>1. TypeOK BY DEF Init, TypeOK, PCs, NoMap, NoEncoder
  <1>2. MutexInv BY CallersAssumption DEF Init, MutexInv, Holding
  <1>3. ReadInv BY DEF Init, ReadInv
  <1>4. NoWastedEncoder
    <2>1. {l \in Levels : av[l] # NoEncoder} = {} BY DEF Init, NoMap
    <2>2. {c \in Callers : pc[c] = "store"} = {} BY DEF Init
    <2> QED BY <2>1, <2>2, FS_EmptySet DEF Init, NoWastedEncoder
  <1> QED BY <1>1, <1>2, <1>3, <1>4 DEF IInv

\* A level that is asked for is a level.
LEMMA LevelAsked ==
    ASSUME TypeOK, NEW c \in Callers, pc[c] # "idle" PROVE level[c] \in Levels
  BY DEF TypeOK

-------------------------------------------------------------------------------
(* The steps outside the lock, which leave av, made and the storers alone. *)

LEMMA CallIInv ==
    ASSUME IInv, NEW c \in Callers, NEW l \in Levels, Call(c, l) PROVE IInv'
  <1>1. TypeOK'
    BY LevelsAssumption, CallersAssumption
    DEF IInv, TypeOK, Call, Goto, PCs, Holding, NoEncoder
  <1>2. MutexInv' BY DEF IInv, TypeOK, MutexInv, Call, Goto, Holding
  <1>3. ReadInv' BY DEF IInv, TypeOK, ReadInv, Call, Goto
  <1>4. Storing' = Storing BY DEF IInv, TypeOK, Storing, Call, Goto
  <1>5. NoWastedEncoder' BY <1>4 DEF IInv, NoWastedEncoder, Storing, Call
  <1> QED BY <1>1, <1>2, <1>3, <1>5 DEF IInv

LEMMA HitIInv == ASSUME IInv, NEW c \in Callers, Hit(c) PROVE IInv'
  <1>0. level[c] \in Levels BY LevelAsked DEF IInv, Hit, Goto
  <1>1. TypeOK'
    BY <1>0, LevelsAssumption, CallersAssumption
    DEF IInv, TypeOK, Hit, Goto, PCs, Holding
  <1>2. MutexInv' BY DEF IInv, TypeOK, MutexInv, Hit, Goto, Holding
  <1>3. ReadInv' BY DEF IInv, TypeOK, ReadInv, Hit, Goto
  <1>4. Storing' = Storing BY DEF IInv, TypeOK, Storing, Hit, Goto
  <1>5. NoWastedEncoder' BY <1>4 DEF IInv, NoWastedEncoder, Storing, Hit
  <1> QED BY <1>1, <1>2, <1>3, <1>5 DEF IInv

LEMMA MissIInv == ASSUME IInv, NEW c \in Callers, Miss(c) PROVE IInv'
  <1>1. TypeOK'
    BY CallersAssumption DEF IInv, TypeOK, Miss, Goto, PCs, Holding
  <1>2. MutexInv' BY DEF IInv, TypeOK, MutexInv, Miss, Goto, Holding
  <1>3. ReadInv' BY DEF IInv, TypeOK, ReadInv, Miss, Goto
  <1>4. Storing' = Storing BY DEF IInv, TypeOK, Storing, Miss, Goto
  <1>5. NoWastedEncoder' BY <1>4 DEF IInv, NoWastedEncoder, Storing, Miss
  <1> QED BY <1>1, <1>2, <1>3, <1>5 DEF IInv

LEMMA LockIInv == ASSUME IInv, NEW c \in Callers, Lock(c) PROVE IInv'
  <1>1. TypeOK'
    BY CallersAssumption DEF IInv, TypeOK, Lock, Goto, PCs, Holding
  <1>2. MutexInv'
    BY CallersAssumption DEF IInv, TypeOK, MutexInv, Lock, Goto, Holding
  <1>3. ReadInv' BY DEF IInv, TypeOK, ReadInv, Lock, Goto
  <1>4. Storing' = Storing BY DEF IInv, TypeOK, Storing, Lock, Goto
  <1>5. NoWastedEncoder' BY <1>4 DEF IInv, NoWastedEncoder, Storing, Lock
  <1> QED BY <1>1, <1>2, <1>3, <1>5 DEF IInv

-------------------------------------------------------------------------------
(* The steps under the lock. *)

LEMMA LookAgainIInv == ASSUME IInv, NEW c \in Callers, LookAgain(c) PROVE IInv'
  <1>0. level[c] \in Levels BY LevelAsked DEF IInv, LookAgain
  <1>1. TypeOK'
    BY <1>0, CallersAssumption DEF IInv, TypeOK, LookAgain, PCs, Holding
  <1>2. MutexInv' BY DEF IInv, TypeOK, MutexInv, LookAgain, Holding
  <1>3. ReadInv' BY DEF IInv, TypeOK, ReadInv, LookAgain
  <1>4. Storing' = Storing BY DEF IInv, TypeOK, Storing, LookAgain
  <1>5. NoWastedEncoder' BY <1>4 DEF IInv, NoWastedEncoder, Storing, LookAgain
  <1> QED BY <1>1, <1>2, <1>3, <1>5 DEF IInv

LEMMA NewEncoderIInv == ASSUME IInv, NEW c \in Callers, newEncoder(c) PROVE IInv'
  <1>0. \A d \in Callers : d # c => pc[d] \notin Holding
    BY DEF IInv, MutexInv, newEncoder, Goto, Holding
  <1>1. TypeOK'
    BY CallersAssumption DEF IInv, TypeOK, newEncoder, Goto, PCs, Holding
  <1>2. MutexInv' BY DEF IInv, TypeOK, MutexInv, newEncoder, Goto, Holding
  <1>3. ReadInv'
    BY <1>0 DEF IInv, TypeOK, ReadInv, newEncoder, Goto, Holding
  <1>4. NoWastedEncoder'
    <2>1. Storing = {} /\ Storing' = {c}
      BY <1>0 DEF IInv, TypeOK, Storing, newEncoder, Goto, Holding
    <2>2. Cardinality(Storing) = 0 /\ Cardinality(Storing') = 1
      BY <2>1, FS_EmptySet, FS_Singleton
    <2>3. Cardinality(InUse) \in Nat
      BY LevelsAssumption, FS_Subset, FS_CardinalityType DEF InUse
    <2>4. made = Cardinality(InUse) + Cardinality(Storing)
      BY DEF IInv, NoWastedEncoder, InUse, Storing
    <2>5. made' = Cardinality(InUse') + Cardinality(Storing')
      <3>1. InUse' = InUse /\ made' = made + 1 BY DEF InUse, newEncoder
      <3> QED BY <2>2, <2>3, <2>4, <3>1
    <2> QED BY <2>5 DEF NoWastedEncoder, InUse, Storing
  <1> QED BY <1>1, <1>2, <1>3, <1>4 DEF IInv

\* What Store does to the map, in terms of the map it finds.
LEMMA StoreMap ==
    ASSUME IInv, NEW c \in Callers, Store(c)
    PROVE  /\ level[c] \in Levels
           /\ av[level[c]] = NoEncoder
           /\ av' = [av EXCEPT ![level[c]] = made]
           /\ made # NoEncoder
           /\ Storing = {c} /\ Storing' = {}
           /\ InUse' = InUse \cup {level[c]} /\ level[c] \notin InUse
           /\ IsFiniteSet(InUse)
           /\ made = Cardinality(InUse) + 1
  <1>0. \A d \in Callers : d # c => pc[d] \notin Holding
    BY DEF IInv, MutexInv, Store, Goto, Holding
  <1>1. level[c] \in Levels BY LevelAsked DEF IInv, Store, Goto
  <1>2. av[level[c]] = NoEncoder /\ av' = [av EXCEPT ![level[c]] = made]
    BY DEF IInv, ReadInv, Store, Goto
  <1>3. made # NoEncoder BY DEF IInv, ReadInv, Store, Goto, NoEncoder
  <1>4. Storing = {c} /\ Storing' = {}
    BY <1>0 DEF IInv, TypeOK, Storing, Store, Goto, Holding
  <1>5. InUse' = InUse \cup {level[c]} /\ level[c] \notin InUse
    BY <1>1, <1>2, <1>3 DEF IInv, TypeOK, InUse
  <1>6. IsFiniteSet(InUse) BY LevelsAssumption, FS_Subset DEF InUse
  <1>7. made = Cardinality(InUse) + 1
    BY <1>4, FS_Singleton DEF IInv, NoWastedEncoder, InUse, Storing
  <1> QED BY <1>1, <1>2, <1>3, <1>4, <1>5, <1>6, <1>7

LEMMA StoreIInv == ASSUME IInv, NEW c \in Callers, Store(c) PROVE IInv'
  <1>0. \A d \in Callers : d # c => pc[d] \notin Holding
    BY DEF IInv, MutexInv, Store, Goto, Holding
  <1>1. TypeOK'
    BY StoreMap, CallersAssumption DEF IInv, TypeOK, Store, Goto, PCs, Holding
  <1>2. MutexInv' BY DEF IInv, TypeOK, MutexInv, Store, Goto, Holding
  <1>3. ReadInv'
    <2>1. /\ pc' = [pc EXCEPT ![c] = "unlock"] /\ e[c] = made
          /\ UNCHANGED <<level, r1, e, made>>
      BY DEF IInv, ReadInv, Store, Goto
    <2>2. av'[level[c]] = made /\ made # NoEncoder
      BY StoreMap DEF IInv, TypeOK
    <2> QED BY <1>0, <2>1, <2>2 DEF IInv, TypeOK, ReadInv, Holding
  <1>4. NoWastedEncoder'
    <2>1. Cardinality(InUse') = Cardinality(InUse) + 1
      BY StoreMap, FS_AddElement
    <2>2. Cardinality(Storing') = 0 BY StoreMap, FS_EmptySet
    <2>3. made' = made /\ made \in Nat BY DEF IInv, TypeOK, Store
    <2>4. made' = Cardinality(InUse') + Cardinality(Storing')
      BY <2>1, <2>2, <2>3, StoreMap
    <2> QED BY <2>4 DEF NoWastedEncoder, InUse, Storing
  <1> QED BY <1>1, <1>2, <1>3, <1>4 DEF IInv

LEMMA UnlockIInv == ASSUME IInv, NEW c \in Callers, Unlock(c) PROVE IInv'
  <1>1. TypeOK'
    BY LevelsAssumption, CallersAssumption
    DEF IInv, TypeOK, Unlock, Goto, PCs, Holding, NoMap, NoEncoder
  <1>2. MutexInv'
    BY CallersAssumption DEF IInv, TypeOK, MutexInv, Unlock, Goto, Holding
  <1>3. ReadInv' BY DEF IInv, TypeOK, ReadInv, Unlock, Goto
  <1>4. Storing' = Storing BY DEF IInv, TypeOK, Storing, Unlock, Goto
  <1>5. NoWastedEncoder' BY <1>4 DEF IInv, NoWastedEncoder, Storing, Unlock
  <1> QED BY <1>1, <1>2, <1>3, <1>5 DEF IInv

LEMMA StepIInv == IInv /\ [Next]_vars => IInv'
  <1> SUFFICES ASSUME IInv, [Next]_vars PROVE IInv' OBVIOUS
  <1>1. ASSUME NEW c \in Callers, getEncoder(c) PROVE IInv'
    BY <1>1, HitIInv, MissIInv, LockIInv, LookAgainIInv, NewEncoderIInv,
       StoreIInv, UnlockIInv DEF getEncoder
  <1>2. ASSUME NEW c \in Callers, NEW l \in Levels, Call(c, l) PROVE IInv'
    BY <1>2, CallIInv
  <1>3. CASE UNCHANGED vars
    BY <1>3 DEF vars, IInv, TypeOK, MutexInv, ReadInv, NoWastedEncoder
  <1> QED BY <1>1, <1>2, <1>3 DEF Next, Quiet

LEMMA Invariance == Spec => []IInv
  BY InitIInv, StepIInv, PTL DEF Spec

-------------------------------------------------------------------------------

\* State keeps its types for any callers and levels; the owner of the mutex is
\* between its Lock and its Unlock, and a level is known exactly during a call.
THEOREM TypesHold == Spec => []TypeOK
  <1>1. IInv => TypeOK BY DEF IInv
  <1> QED BY <1>1, Invariance, PTL

\* Concurrent misses waste no encoder: what was made is what is published and,
\* at most, the one about to be.
THEOREM NothingWasted == Spec => []NoWastedEncoder
  <1>1. IInv => NoWastedEncoder BY DEF IInv
  <1> QED BY <1>1, Invariance, PTL

LEMMA StepPublished ==
    ASSUME IInv, [Next]_vars, NEW l \in Levels, av[l] # NoEncoder
    PROVE  av'[l] = av[l]
  <1>1. ASSUME NEW c \in Callers, Store(c) PROVE av'[l] = av[l]
    BY <1>1, StoreMap DEF IInv, TypeOK
  <1>2. (\E c \in Callers : Store(c)) \/ av' = av
    BY DEF Next, Quiet, vars, getEncoder, Hit, Miss, Lock, LookAgain, newEncoder,
           Unlock, Call
  <1> QED BY <1>1, <1>2

\* No store undoes another: a published encoder stays the encoder of its level.
THEOREM PublishedStays == Spec => PublishedForever
  <1>1. IInv /\ [Next]_vars =>
          [\A l \in Levels : av[l] # NoEncoder => av'[l] = av[l]]_vars
    BY StepPublished
  <1> QED BY <1>1, Invariance, PTL DEF Spec, PublishedForever

-------------------------------------------------------------------------------
(* getEncoder implements EncoderMemo. *)

asked == [c \in Callers |-> {level[c]} \cap Levels]
answer == [c \in Callers |-> IF pc[c] = "idle" THEN e[c] ELSE NoEncoder]

LEMMA InitMemo == Init => Memo!Init
  BY LevelsAssumption DEF Init, Memo!Init, NoMap

\* A call begins: its level is asked for.
LEMMA CallAsks ==
    ASSUME IInv, NEW c \in Callers, NEW l \in Levels, Call(c, l)
    PROVE  Memo!Ask(c, l)
  <1>1. asked[c] = {}
    BY LevelsAssumption DEF IInv, TypeOK, Call, Goto, asked
  <1>2. asked' = [asked EXCEPT ![c] = {l}]
    BY DEF IInv, TypeOK, Call, asked
  <1>3. answer' = [answer EXCEPT ![c] = NoEncoder]
    BY DEF IInv, TypeOK, Call, Goto, answer
  <1> QED BY <1>1, <1>2, <1>3 DEF Memo!Ask, Call, asked, answer

\* A call returns, from the first look or after the lock: it is answered.
LEMMA ReturnAnswers ==
    ASSUME IInv, NEW c \in Callers, NEW l \in Levels, l = level[c],
           Hit(c) \/ Unlock(c)
    PROVE  Memo!Answer(c, l)
  <1>1. pc[c] # "idle" /\ pc' = [pc EXCEPT ![c] = "idle"]
    BY DEF Hit, Unlock, Goto
  <1>2. level[c] \in Levels BY <1>1, LevelAsked DEF IInv
  <1>3. av[level[c]] # NoEncoder /\ e' = [e EXCEPT ![c] = av[level[c]]]
    BY DEF IInv, TypeOK, ReadInv, Hit, Unlock, Goto
  <1>4. level' = [level EXCEPT ![c] = NoLevel] /\ av' = av
    BY DEF Hit, Unlock
  <1>5. level[c] \in asked[c] BY <1>2 DEF asked
  <1>6. answer' = [answer EXCEPT ![c] = av[level[c]]]
    BY <1>1, <1>3 DEF IInv, TypeOK, answer
  <1>7. asked' = [asked EXCEPT ![c] = {}]
    BY ZenonT(60), <1>4, LevelsAssumption DEF IInv, TypeOK, asked
  <1> QED BY <1>3, <1>4, <1>5, <1>6, <1>7 DEF Memo!Answer, asked, answer

\* The encoder of a level is made when it is published.
LEMMA StoreMakes ==
    ASSUME IInv, NEW c \in Callers, Store(c) PROVE Memo!Make(level[c])
  <1>1. pc[c] = "store" /\ pc' = [pc EXCEPT ![c] = "unlock"]
        /\ level' = level /\ e' = e
    BY DEF Store, Goto
  <1>2. asked' = asked /\ answer' = answer
    BY <1>1 DEF IInv, TypeOK, asked, answer
  <1>3. level[c] \in asked[c] BY StoreMap DEF asked
  <1>4. av' = [av EXCEPT ![level[c]] = Cardinality(InUse) + 1]
    BY StoreMap
  <1> QED BY <1>2, <1>3, <1>4, StoreMap
          DEF Memo!Make, Memo!InUse, Memo!Cardinality, Cardinality, InUse, asked,
              answer

\* The other steps change nothing a caller of the memo sees.
LEMMA RestStutters ==
    ASSUME IInv, NEW c \in Callers,
           Miss(c) \/ Lock(c) \/ LookAgain(c) \/ newEncoder(c)
    PROVE  UNCHANGED Memo!vars
  <1>1. av' = av /\ level' = level
    BY DEF Miss, Lock, LookAgain, newEncoder
  <1>2. pc[c] # "idle" /\ pc'[c] # "idle"
    BY DEF IInv, TypeOK, Miss, Lock, LookAgain, newEncoder, Goto
  <1>3. \A d \in Callers : d # c => pc'[d] = pc[d] /\ e'[d] = e[d]
    BY DEF IInv, TypeOK, Miss, Lock, LookAgain, newEncoder, Goto
  <1>4. asked' = asked BY <1>1 DEF asked
  <1>5. answer' = answer BY <1>2, <1>3 DEF answer
  <1> QED BY <1>1, <1>4, <1>5 DEF Memo!vars, asked, answer

LEMMA StepMemo == IInv /\ [Next]_vars => [Memo!Next]_(Memo!vars)
  <1> SUFFICES ASSUME IInv, [Next]_vars PROVE [Memo!Next]_(Memo!vars) OBVIOUS
  <1>1. ASSUME NEW c \in Callers, NEW l \in Levels, Call(c, l)
        PROVE  Memo!Next
    BY <1>1, CallAsks DEF Memo!Next
  <1>2. ASSUME NEW c \in Callers, getEncoder(c)
        PROVE  [Memo!Next]_(Memo!vars)
    <2>1. CASE Hit(c) \/ Unlock(c)
      <3>1. PICK l \in Levels : l = level[c]
        BY <2>1, LevelAsked DEF IInv, Hit, Unlock, Goto
      <3>2. Memo!Answer(c, l) BY <2>1, <3>1, ReturnAnswers
      <3>3. \E d \in Callers, k \in Levels : Memo!Answer(d, k) BY <3>2
      <3> QED BY <3>3 DEF Memo!Next
    <2>2. CASE Store(c) BY <2>2, StoreMakes, StoreMap DEF Memo!Next
    <2>3. CASE Miss(c) \/ Lock(c) \/ LookAgain(c) \/ newEncoder(c)
      BY <2>3, RestStutters
    <2> QED BY <1>2, <2>1, <2>2, <2>3 DEF getEncoder
  <1>3. CASE UNCHANGED vars BY <1>3 DEF vars, Memo!vars
  <1> QED BY <1>1, <1>2, <1>3 DEF Next, Quiet

\* getEncoder is a memo: concurrent callers of a level get the one encoder of
\* that level.
THEOREM MemoImplemented == Spec => ImplementsMemo
  BY InitMemo, StepMemo, Invariance, PTL DEF Spec, ImplementsMemo, Memo!Spec
===============================================================================
