--------------------------- MODULE RemoteWriteProofs ---------------------------
(* Theorems of Remote Write 2.0, for all strings and metrics.  The table of   *)
(* the strings keeps its promises; a request is used, marshalled and sent as  *)
(* it may be; the conversions undo each other.  So what is delivered is what  *)
(* was sent, and what the receiver counts of it is what OTLP counts.          *)
EXTENDS RemoteWrite, WriteRequestProofs

-------------------------------------------------------------------------------
(* The table of the strings, as TableSpec specifies it: references and the    *)
(* slices handed out stand until the next Reset.                              *)

\* strings lies within its array, whose first cell holds symbol 0.
ShapeInv ==
    /\ table.strings.array \in 1..Len(table.arrays)
    /\ table.strings.len \in 1..Len(table.arrays[table.strings.array])
    /\ table.arrays[table.strings.array][1] = Empty

\* The map leads to the cell of each of its strings.
MapInv ==
    /\ Empty \in DOMAIN table.symbolsMap /\ table.symbolsMap[Empty] = 0
    /\ \A s \in DOMAIN table.symbolsMap :
          /\ table.symbolsMap[s] < table.strings.len
          /\ table.arrays[table.strings.array][table.symbolsMap[s] + 1] = s

\* A reference returned is the map's.
GivenInv ==
    \A g \in given : g[2] \in DOMAIN table.symbolsMap /\ table.symbolsMap[g[2]] = g[1]

\* A slice handed out is of an array left behind, or a prefix of strings: the
\* cells that are written next are not among its own.
LentInv ==
    \A l \in lent :
        /\ l.slice.array \in 1..Len(table.arrays)
        /\ l.slice.len <= Len(table.arrays[l.slice.array])
        /\ l.slice.array = table.strings.array => l.slice.len <= table.strings.len

Inv == TableTypeOK /\ ShapeInv /\ MapInv /\ GivenInv /\ LentInv /\ SlicesStable

-------------------------------------------------------------------------------
(* The arrays after an append. *)

\* t is the table after an append of str: what it leaves of the arrays there
\* were, and what its slice shows.
IsAppended(t, str) ==
    /\ t.arrays \in Seq(Seq(Strings))
    /\ t.strings = [array |-> t.strings.array, len |-> table.strings.len + 1]
    /\ t.strings.array \in 1..Len(t.arrays)
    /\ t.strings.len <= Len(t.arrays[t.strings.array])
    /\ \A i \in 1..table.strings.len :
          t.arrays[t.strings.array][i] = table.arrays[table.strings.array][i]
    /\ t.arrays[t.strings.array][t.strings.len] = str
    /\ Len(table.arrays) <= Len(t.arrays)
    /\ \A k \in 1..Len(table.arrays) :
          /\ Len(t.arrays[k]) = Len(table.arrays[k])
          /\ k = t.strings.array => k = table.strings.array
          /\ \A i \in 1..Len(table.arrays[k]) :
                (k # table.strings.array \/ i <= table.strings.len)
                  => t.arrays[k][i] = table.arrays[k][i]

\* A cell of a sequence replaced.
LEMMA Replaced ==
    ASSUME NEW S, NEW q \in Seq(S), NEW k \in 1..Len(q), NEW x \in S,
           NEW r, r = [q EXCEPT ![k] = x]
    PROVE  /\ r \in Seq(S) /\ Len(r) = Len(q)
           /\ r[k] = x
           /\ \A i \in 1..Len(q) : i # k => r[i] = q[i]
OBVIOUS

\* A sequence extended.
LEMMA Extended ==
    ASSUME NEW S, NEW q \in Seq(S), NEW x \in S, NEW r, r = Append(q, x)
    PROVE  /\ r \in Seq(S) /\ Len(r) = Len(q) + 1
           /\ r[Len(q) + 1] = x
           /\ \A i \in 1..Len(q) : r[i] = q[i]
OBVIOUS

\* A full array copied into a larger one.
LEMMA Copied ==
    ASSUME NEW S, NEW q \in Seq(S), NEW n \in 1..Len(q), NEW x \in S, NEW e \in S,
           NEW r, r = [i \in 1..(2 * n) |-> IF i <= n THEN q[i]
                                            ELSE IF i = n + 1 THEN x ELSE e]
    PROVE  /\ r \in Seq(S) /\ Len(r) = 2 * n
           /\ n + 1 <= 2 * n
           /\ r[n + 1] = x
           /\ \A i \in 1..n : r[i] = q[i]
<1>1. n \in Nat /\ n >= 1 /\ Len(q) \in Nat /\ n <= Len(q) OBVIOUS
<1>2. 2 * n \in Nat /\ n + 1 \in 1..(2 * n) BY <1>1
<1>3. \A i \in 1..n : i \in 1..(2 * n) /\ q[i] \in S BY <1>1
<1>4. \A i \in 1..(2 * n) : r[i] \in S
  <2> TAKE i \in 1..(2 * n)
  <2>1. CASE i <= n BY <1>1, <2>1
  <2>2. CASE ~(i <= n) BY <2>2
  <2> QED BY <2>1, <2>2
<1>5. r \in [1..(2 * n) -> S] BY <1>4
<1> QED BY <1>1, <1>2, <1>3, <1>5

LEMMA Appended ==
    ASSUME TableTypeOK, ShapeInv, NEW str \in Strings,
           str \notin DOMAIN table.symbolsMap
    PROVE  IsAppended(Symbolized(table, str), str)
<1> DEFINE arrays == table.arrays
           a == table.strings.array
           n == table.strings.len
           old == arrays[a]
           t == Symbolized(table, str)
<1>1. /\ arrays \in Seq(Seq(Strings)) /\ a \in 1..Len(arrays)
      /\ old \in Seq(Strings) /\ n \in 1..Len(old) /\ Empty \in Strings
      /\ Len(old) \in Nat /\ Len(arrays) \in Nat
  BY EmptyAssumption DEF TableTypeOK, ShapeInv
<1>2. /\ t.arrays = ArraysWith(table, str)
      /\ t.strings = [array |-> IF Room(table) THEN a ELSE Len(arrays) + 1,
                      len |-> n + 1]
      /\ t.strings.len = n + 1
      /\ t.strings.array = IF Room(table) THEN a ELSE Len(arrays) + 1
  BY DEF Symbolized
<1> DEFINE written == [old EXCEPT ![n + 1] = str]
           copied == [i \in 1..(2 * n) |-> IF i <= n THEN old[i]
                                           ELSE IF i = n + 1 THEN str ELSE Empty]
<1>3. /\ Room(table) <=> n < Len(old)
      /\ Room(table) => t.arrays = [arrays EXCEPT ![a] = written]
      /\ ~Room(table) => t.arrays = Append(arrays, copied)
  BY <1>2 DEF Room, ArraysWith
<1>4. ASSUME Room(table)
      PROVE  /\ written \in Seq(Strings) /\ Len(written) = Len(old)
             /\ written[n + 1] = str
             /\ \A i \in 1..Len(old) : i # n + 1 => written[i] = old[i]
  <2> HIDE DEF old, n
  <2>1. n + 1 \in 1..Len(old) BY <1>1, <1>3, <1>4
  <2> QED BY <1>1, <2>1, Replaced
<1>5. /\ copied \in Seq(Strings) /\ Len(copied) = 2 * n
      /\ n + 1 <= 2 * n
      /\ copied[n + 1] = str
      /\ \A i \in 1..n : copied[i] = old[i]
  <2> HIDE DEF old, n
  <2> QED BY <1>1, Copied
<1> HIDE DEF written, copied, t
<1>6. ASSUME Room(table) PROVE IsAppended(t, str)
  <2>1. /\ t.arrays \in Seq(Seq(Strings)) /\ Len(t.arrays) = Len(arrays)
        /\ t.arrays[a] = written
        /\ \A k \in 1..Len(arrays) : k # a => t.arrays[k] = arrays[k]
    <3> HIDE DEF arrays, a
    <3> QED BY <1>1, <1>3, <1>4, <1>6, Replaced
  <2>2. t.strings.array = a BY <1>2, <1>6
  <2> HIDE DEF arrays, a, n, old
  <2>3. \A i \in 1..n : written[i] = old[i] BY <1>1, <1>4, <1>6
  <2>4. \A k \in 1..Len(arrays) : \A i \in 1..Len(arrays[k]) :
           (k # a \/ i <= n) => t.arrays[k][i] = arrays[k][i]
    <3> TAKE k \in 1..Len(arrays)
    <3>1. CASE k = a BY <1>1, <1>4, <1>6, <2>1, <3>1 DEF old
    <3>2. CASE k # a BY <2>1, <3>2
    <3> QED BY <3>1, <3>2
  <2>5. \A k \in 1..Len(arrays) : Len(t.arrays[k]) = Len(arrays[k])
    BY <1>4, <1>6, <2>1 DEF old
  <2>6. n + 1 <= Len(old) BY <1>1, <1>3, <1>6
  <2>7. /\ t.strings = [array |-> t.strings.array, len |-> n + 1]
        /\ t.strings.array \in 1..Len(t.arrays)
        /\ t.strings.len <= Len(t.arrays[t.strings.array])
        /\ t.arrays[t.strings.array][t.strings.len] = str
    BY <1>1, <1>2, <1>4, <1>6, <2>1, <2>2, <2>6
  <2>8. \A i \in 1..n : t.arrays[t.strings.array][i] = old[i] BY <2>1, <2>2, <2>3
  <2>9. Len(arrays) <= Len(t.arrays) BY <1>1, <2>1
  <2>10. \A k \in 1..Len(arrays) : k = t.strings.array => k = a BY <2>2
  <2> QED BY <2>1, <2>4, <2>5, <2>7, <2>8, <2>9, <2>10 DEF IsAppended, arrays, a, n, old
<1>7. ASSUME ~Room(table) PROVE IsAppended(t, str)
  <2>1. /\ t.arrays \in Seq(Seq(Strings)) /\ Len(t.arrays) = Len(arrays) + 1
        /\ t.arrays[Len(arrays) + 1] = copied
        /\ \A k \in 1..Len(arrays) : t.arrays[k] = arrays[k]
    <3>1. copied \in Seq(Strings) BY <1>5
    <3>2. t.arrays = Append(arrays, copied) BY <1>3, <1>7
    <3> HIDE DEF arrays, old, n, a
    <3>3. arrays \in Seq(Seq(Strings)) BY <1>1
    <3> QED BY <3>1, <3>2, <3>3, Extended
  <2>2. t.strings.array = Len(arrays) + 1 BY <1>2, <1>7
  <2> HIDE DEF arrays, a, n, old
  <2>3. /\ t.strings = [array |-> t.strings.array, len |-> n + 1]
        /\ t.strings.array \in 1..Len(t.arrays)
        /\ t.strings.len <= Len(t.arrays[t.strings.array])
        /\ t.arrays[t.strings.array][t.strings.len] = str
    BY SMTT(30), <1>1, <1>2, <1>5, <1>7, <2>1, <2>2
  <2>4. \A i \in 1..n : t.arrays[t.strings.array][i] = old[i] BY <1>5, <2>1, <2>2
  <2>5. Len(arrays) <= Len(t.arrays) BY <1>1, <2>1
  <2>6. \A k \in 1..Len(arrays) : k # t.strings.array BY <1>1, <2>2
  <2> QED BY <2>1, <2>3, <2>4, <2>5, <2>6 DEF IsAppended, arrays, a, n, old
<1> QED BY <1>6, <1>7 DEF t

-------------------------------------------------------------------------------
(* The invariant is inductive. *)

LEMMA InvInit == ASSUME TableInit PROVE Inv
<1> DEFINE t == NewSymbolTable
<1>1. /\ table = t /\ given = {} /\ lent = {} BY DEF TableInit
<1>2. /\ t.arrays = << <<Empty>> >> /\ t.strings = [array |-> 1, len |-> 1]
      /\ t.symbolsMap = [s \in {Empty} |-> 0]
      /\ DOMAIN t = {"arrays", "strings", "symbolsMap"}
  BY DEF NewSymbolTable
<1> HIDE DEF t
<1>3. TableTypeOK
  <2>1. <<Empty>> \in Seq(Strings) BY EmptyAssumption
  <2>2. t.arrays \in Seq(Seq(Strings)) BY <1>2, <2>1
  <2> QED BY <1>1, <1>2, <2>2, EmptyAssumption DEF TableTypeOK
<1>4. ShapeInv BY <1>1, <1>2 DEF ShapeInv
<1>5. MapInv BY <1>1, <1>2 DEF MapInv
<1> QED BY <1>1, <1>3, <1>4, <1>5 DEF Inv, GivenInv, LentInv, SlicesStable

LEMMA SymbolizeKeepsInv ==
    ASSUME Inv, NEW str \in Strings, Symbolize(str)
    PROVE  Inv'
<1> DEFINE t == Symbolized(table, str)
<1>1. /\ table' = t /\ lent' = lent
      /\ given' = given \cup {<<t.symbolsMap[str], str>>}
  BY DEF Symbolize, RefOf
<1>2. TableTypeOK /\ ShapeInv /\ MapInv /\ GivenInv /\ LentInv /\ SlicesStable BY DEF Inv
<1>3. CASE str \in DOMAIN table.symbolsMap
  <2>1. table' = table BY <1>1, <1>3 DEF Symbolized
  <2>2. table.symbolsMap[str] \in Nat BY <1>2, <1>3 DEF TableTypeOK
  <2>3. given' = given \cup {<<table.symbolsMap[str], str>>} BY <1>1, <2>1
  <2>4. TableTypeOK' BY <1>1, <1>2, <2>1, <2>2, <2>3 DEF TableTypeOK
  <2>5. GivenInv' BY <1>2, <1>3, <2>1, <2>3 DEF GivenInv
  <2> QED BY <1>1, <1>2, <2>1, <2>4, <2>5
          DEF Inv, ShapeInv, MapInv, LentInv, SlicesStable, View
<1>4. CASE str \notin DOMAIN table.symbolsMap
  <2> DEFINE n == table.strings.len
  <2>1. /\ t.symbolsMap = [s \in DOMAIN table.symbolsMap \cup {str} |->
                            IF s = str THEN n ELSE table.symbolsMap[s]]
        /\ DOMAIN t = {"arrays", "strings", "symbolsMap"}
    BY <1>4 DEF Symbolized
  <2>2. t = Symbolized(table, str) OBVIOUS
  <2> HIDE DEF t
  <2>3. IsAppended(t, str) BY <1>2, <1>4, <2>2, Appended
  <2>4. n \in Nat /\ n >= 1 /\ t.strings.len = n + 1
    BY <1>2, <2>3 DEF TableTypeOK, ShapeInv, IsAppended
  <2>5. /\ str \in DOMAIN t.symbolsMap /\ t.symbolsMap[str] = n
        /\ \A s \in DOMAIN table.symbolsMap :
              s \in DOMAIN t.symbolsMap /\ t.symbolsMap[s] = table.symbolsMap[s]
        /\ \A s \in DOMAIN t.symbolsMap : s = str \/ s \in DOMAIN table.symbolsMap
    BY <1>4, <2>1
  <2>6. \A s \in DOMAIN table.symbolsMap : s \in Strings /\ table.symbolsMap[s] \in Nat
    BY <1>2 DEF TableTypeOK
  <2>7. TableTypeOK'
    <3>1. t.symbolsMap \in [DOMAIN t.symbolsMap -> Nat] BY <2>1, <2>4, <2>6
    <3>2. DOMAIN t.symbolsMap \subseteq Strings BY <2>5, <2>6
    <3>3. t.strings \in [array : Nat, len : Nat] BY <2>3, <2>4 DEF IsAppended
    <3>4. given' \subseteq Nat \X Strings BY <1>1, <1>2, <2>4, <2>5 DEF TableTypeOK
    <3> QED BY <1>1, <1>2, <2>1, <2>3, <3>1, <3>2, <3>3, <3>4 DEF TableTypeOK, IsAppended
  <2>8. ShapeInv'
    <3>1. t.strings.array \in 1..Len(t.arrays) BY <2>3 DEF IsAppended
    <3>2. /\ t.arrays \in Seq(Seq(Strings))
          /\ t.arrays[t.strings.array] \in Seq(Strings)
          /\ Len(t.arrays[t.strings.array]) \in Nat
      BY <2>3, <3>1 DEF IsAppended
    <3>3. t.strings.len \in 1..Len(t.arrays[t.strings.array])
      BY <2>3, <2>4, <3>2 DEF IsAppended
    <3>4. 1 \in 1..table.strings.len BY <2>4
    <3>5. \A i \in 1..table.strings.len :
             t.arrays[t.strings.array][i] = table.arrays[table.strings.array][i]
      BY <2>3 DEF IsAppended
    <3>6. t.arrays[t.strings.array][1] = Empty BY <1>2, <3>4, <3>5 DEF ShapeInv
    <3> QED BY <1>1, <3>1, <3>3, <3>6 DEF ShapeInv
  <2>9. MapInv'
    <3>1. Empty \in DOMAIN t.symbolsMap /\ t.symbolsMap[Empty] = 0
      BY <1>2, <2>5 DEF MapInv
    <3>2. ASSUME NEW s \in DOMAIN t.symbolsMap
          PROVE  /\ t.symbolsMap[s] < t.strings.len
                 /\ t.arrays[t.strings.array][t.symbolsMap[s] + 1] = s
      <4>1. CASE s = str BY SMTT(30), <2>3, <2>4, <2>5, <4>1 DEF IsAppended
      <4>2. CASE s \in DOMAIN table.symbolsMap
        <5>1. /\ table.symbolsMap[s] \in Nat /\ table.symbolsMap[s] < n
              /\ table.arrays[table.strings.array][table.symbolsMap[s] + 1] = s
          BY <1>2, <2>6, <4>2 DEF MapInv
        <5>2. table.symbolsMap[s] + 1 \in 1..n BY <2>4, <5>1
        <5>3. t.symbolsMap[s] = table.symbolsMap[s] BY <2>5, <4>2
        <5>4. \A i \in 1..n :
                 t.arrays[t.strings.array][i] = table.arrays[table.strings.array][i]
          BY <2>3 DEF IsAppended
        <5>5. t.arrays[t.strings.array][t.symbolsMap[s] + 1] = s
          BY <5>1, <5>2, <5>3, <5>4
        <5> QED BY <2>4, <5>1, <5>3, <5>5
      <4> QED BY <2>5, <4>1, <4>2
    <3> QED BY <1>1, <3>1, <3>2 DEF MapInv
  <2>10. GivenInv' BY <1>1, <1>2, <2>5 DEF GivenInv
  <2>11. ASSUME NEW l \in lent
         PROVE  /\ l.slice.array \in 1..Len(t.arrays)
                /\ l.slice.len <= Len(t.arrays[l.slice.array])
                /\ l.slice.array = t.strings.array => l.slice.len <= t.strings.len
                /\ View(t, l.slice) = View(table, l.slice)
    <3>1. /\ l.slice.array \in 1..Len(table.arrays)
          /\ l.slice.len <= Len(table.arrays[l.slice.array])
          /\ l.slice.array = table.strings.array => l.slice.len <= n
          /\ l.slice.len \in Nat
      BY <1>2 DEF LentInv, TableTypeOK
    <3>2. table.arrays \in Seq(Seq(Strings)) BY <1>2 DEF TableTypeOK
    <3>3. \A i \in 1..l.slice.len :
             t.arrays[l.slice.array][i] = table.arrays[l.slice.array][i]
      <4> TAKE i \in 1..l.slice.len
      <4>1. i \in 1..Len(table.arrays[l.slice.array])
        <5>1. Len(table.arrays[l.slice.array]) \in Nat BY <3>1, <3>2
        <5> QED BY <3>1, <5>1
      <4>2. l.slice.array # table.strings.array \/ i <= n BY <2>4, <3>1
      <4> QED BY <2>3, <3>1, <4>1, <4>2 DEF IsAppended
    <3>4. View(t, l.slice) = View(table, l.slice) BY <3>3 DEF View
    <3>5. l.slice.array \in 1..Len(t.arrays)
      <4>1. Len(table.arrays) \in Nat /\ Len(t.arrays) \in Nat BY <2>3, <3>2 DEF IsAppended
      <4>2. Len(table.arrays) <= Len(t.arrays) BY <2>3 DEF IsAppended
      <4> QED BY <3>1, <4>1, <4>2
    <3>6. Len(t.arrays[l.slice.array]) = Len(table.arrays[l.slice.array])
      BY <2>3, <3>1 DEF IsAppended
    <3>7. ASSUME l.slice.array = t.strings.array PROVE l.slice.len <= t.strings.len
      <4>1. l.slice.array = table.strings.array BY <2>3, <3>1, <3>7 DEF IsAppended
      <4> QED BY <2>4, <3>1, <4>1
    <3> QED BY <3>1, <3>4, <3>5, <3>6, <3>7
  <2>12. LentInv' BY <1>1, <2>11 DEF LentInv
  <2>13. SlicesStable' BY <1>1, <1>2, <2>11 DEF SlicesStable
  <2> QED BY <2>7, <2>8, <2>9, <2>10, <2>12, <2>13 DEF Inv
<1> QED BY <1>3, <1>4

LEMMA LendKeepsInv == ASSUME Inv, Lend PROVE Inv'
<1> DEFINE l == [slice |-> table.strings, shown |-> Symbols(table)]
<1>1. table' = table /\ given' = given /\ lent' = lent \cup {l} BY DEF Lend
<1>2. TableTypeOK /\ ShapeInv /\ MapInv /\ GivenInv /\ LentInv /\ SlicesStable BY DEF Inv
<1>3. l.slice = table.strings /\ l.shown = View(table, table.strings) BY DEF Symbols
<1>4. l \in [slice : [array : Nat, len : Nat], shown : Seq(Strings)]
  <2>1. /\ table.strings \in [array : Nat, len : Nat] /\ table.strings.len \in Nat
        /\ table.arrays[table.strings.array] \in Seq(Strings)
        /\ table.strings.len <= Len(table.arrays[table.strings.array])
    BY <1>2 DEF TableTypeOK, ShapeInv
  <2>2. \A i \in 1..table.strings.len : table.arrays[table.strings.array][i] \in Strings
    BY <2>1
  <2>3. View(table, table.strings) \in Seq(Strings) BY <2>1, <2>2 DEF View
  <2> QED BY <2>1, <2>3 DEF Symbols
<1> HIDE DEF l
<1>5. TableTypeOK' BY <1>1, <1>2, <1>4 DEF TableTypeOK
<1>6. LentInv'
  <2>1. /\ l.slice.array \in 1..Len(table.arrays)
        /\ l.slice.len <= Len(table.arrays[l.slice.array])
        /\ l.slice.array = table.strings.array => l.slice.len <= table.strings.len
    BY <1>2, <1>3 DEF ShapeInv, TableTypeOK
  <2> QED BY <1>1, <1>2, <2>1 DEF LentInv
<1>7. SlicesStable' BY <1>1, <1>2, <1>3 DEF SlicesStable, View
<1> QED BY <1>1, <1>2, <1>5, <1>6, <1>7 DEF Inv, ShapeInv, MapInv, GivenInv

LEMMA ResetKeepsInv == ASSUME Inv, Reset PROVE Inv'
<1> DEFINE t == Cleared(table)
<1>1. table' = t /\ given' = {} /\ lent' = {} BY DEF Reset
<1>2. /\ t.arrays = table.arrays
      /\ t.strings = [array |-> table.strings.array, len |-> 1]
      /\ t.symbolsMap = [s \in DOMAIN table.symbolsMap \cap {Empty} |->
                           table.symbolsMap[s]]
      /\ DOMAIN t = {"arrays", "strings", "symbolsMap"}
  BY DEF Cleared
<1> HIDE DEF t
<1>3. TableTypeOK /\ ShapeInv /\ MapInv BY DEF Inv
<1>4. TableTypeOK' BY <1>1, <1>2, <1>3 DEF TableTypeOK
<1>5. ShapeInv' BY <1>1, <1>2, <1>3 DEF ShapeInv, TableTypeOK
<1>6. MapInv' BY <1>1, <1>2, <1>3 DEF MapInv
<1> QED BY <1>1, <1>4, <1>5, <1>6 DEF Inv, GivenInv, LentInv, SlicesStable

LEMMA InvInductive == ASSUME Inv, [TableNext]_tableVars PROVE Inv'
<1>1. CASE UNCHANGED tableVars
  BY <1>1 DEF tableVars, Inv, TableTypeOK, ShapeInv, MapInv, GivenInv, LentInv,
              SlicesStable, View
<1> QED BY <1>1, SymbolizeKeepsInv, LendKeepsInv, ResetKeepsInv DEF TableNext

\* The inductive invariant holds throughout.
THEOREM InvHolds == TableSpec => []Inv
BY InvInit, InvInductive, PTL DEF TableSpec

-------------------------------------------------------------------------------

\* A reference Symbolize returned stands for its string until the next Reset
\* (symbols.go:35-43), for any strings and any number of growths of the array.
THEOREM ReferencesStand == TableSpec => []RefsResolve
<1>1. Inv => RefsResolve
  <2> SUFFICES ASSUME Inv, NEW g \in given
               PROVE  g[1] < table.strings.len /\ Symbols(table)[g[1] + 1] = g[2]
    BY DEF RefsResolve
  <2>1. /\ g[1] \in Nat /\ g[1] < table.strings.len /\ table.strings.len \in Nat
        /\ table.arrays[table.strings.array][g[1] + 1] = g[2]
    BY DEF Inv, GivenInv, MapInv, TableTypeOK
  <2> QED BY <2>1 DEF Symbols, View
<1> QED BY <1>1, InvHolds, PTL

\* A slice handed out by Symbols() shows what it showed until the next Reset
\* (symbols.go:59-61), although later strings are written into its array.
THEOREM SlicesStay == TableSpec => []SlicesStable
<1>1. Inv => SlicesStable BY DEF Inv
<1> QED BY <1>1, InvHolds, PTL

-------------------------------------------------------------------------------
(* The strings of a metric. *)

\* The pairs of a label's name and value.
LabelPairs(labels) == Each(labels, LAMBDA l : <<l.Name, l.Value>>)

LEMMA LabelPairsOf ==
    ASSUME NEW labels \in Labels
    PROVE  /\ Parts(LabelPairs(labels), Strings)
           /\ Len(LabelPairs(labels)) = Len(labels)
           /\ \A i \in 1..Len(labels) :
                 LabelPairs(labels)[i] = <<labels[i].Name, labels[i].Value>>
<1>1. /\ Len(labels) \in Nat /\ DOMAIN labels = 1..Len(labels)
      /\ \A i \in 1..Len(labels) : labels[i].Name \in Strings /\ labels[i].Value \in Strings
  <2>1. labels \in Seq([Name : Strings, Value : Strings])
    BY DEF Labels
  <2>2. /\ Len(labels) \in Nat /\ DOMAIN labels = 1..Len(labels)
        /\ \A i \in 1..Len(labels) : labels[i] \in [Name : Strings, Value : Strings]
    BY <2>1, SeqTyped
  <2>. QED
    BY <2>2
<1>2. LabelPairs(labels) = [i \in 1..Len(labels) |-> <<labels[i].Name, labels[i].Value>>]
  BY <1>1 DEF LabelPairs, Each
<1>3. \A i \in 1..Len(labels) : <<labels[i].Name, labels[i].Value>> \in Seq(Strings)
  BY <1>1
<1>4. LabelPairs(labels) \in [1..Len(labels) -> Seq(Strings)]
  BY <1>2, <1>3
<1>. QED
  BY <1>1, <1>2, <1>4 DEF Parts

LEMMA LabelStringsOf ==
    ASSUME NEW labels \in Labels
    PROVE  /\ LabelStrings(labels) \in Seq(Strings)
           /\ \A i \in 1..Len(labels) : /\ labels[i].Name \in Range(LabelStrings(labels))
                                        /\ labels[i].Value \in Range(LabelStrings(labels))
<1>. DEFINE ss == LabelPairs(labels)
<1>1. LabelStrings(labels) = FlattenSeq(ss)
  BY DEF LabelStrings, LabelPairs
<1>2. /\ Parts(ss, Strings) /\ Len(ss) = Len(labels)
      /\ \A i \in 1..Len(labels) : ss[i] = <<labels[i].Name, labels[i].Value>>
  BY LabelPairsOf
<1>. HIDE DEF ss
<1>3. ASSUME NEW i \in 1..Len(labels)
      PROVE  labels[i].Name \in Range(FlattenSeq(ss)) /\ labels[i].Value \in Range(FlattenSeq(ss))
  <2>1. labels[i].Name \in Range(ss[i]) /\ labels[i].Value \in Range(ss[i])
    BY <1>2 DEF Range
  <2>. QED
    BY <1>2, <2>1, RangeFlat
<1>. QED
  BY <1>1, <1>2, <1>3, FlattenTyped

\* The strings of a series: those of its labels, of its metadata, and of the
\* labels of its exemplars.
ExemplarStrings(exemplars) == Each(exemplars, LAMBDA e : LabelStrings(e.Labels))


LEMMA ExemplarStringsOf ==
    ASSUME NEW exemplars \in Seq(Exemplars)
    PROVE  /\ Parts(ExemplarStrings(exemplars), Strings)
           /\ Len(ExemplarStrings(exemplars)) = Len(exemplars)
           /\ \A i \in 1..Len(exemplars) :
                 ExemplarStrings(exemplars)[i] = LabelStrings(exemplars[i].Labels)
<1>1. /\ Len(exemplars) \in Nat /\ DOMAIN exemplars = 1..Len(exemplars)
      /\ \A i \in 1..Len(exemplars) : exemplars[i] \in Exemplars
  BY SeqTyped
<1>2. \A i \in 1..Len(exemplars) : LabelStrings(exemplars[i].Labels) \in Seq(Strings)
  BY <1>1, LabelStringsOf DEF Exemplars
<1>3. ExemplarStrings(exemplars)
        = [i \in 1..Len(exemplars) |-> LabelStrings(exemplars[i].Labels)]
  BY <1>1 DEF ExemplarStrings, Each
<1>4. ExemplarStrings(exemplars) \in [1..Len(exemplars) -> Seq(Strings)]
  BY <1>2, <1>3
<1>. QED
  BY <1>1, <1>3, <1>4 DEF Parts

LEMMA SeriesFields ==
    ASSUME NEW s \in Series
    PROVE  /\ s.labels \in Labels /\ s.inline \in Seq([Name : Seq(Bytes), Value : Seq(Bytes)])
           /\ s.Unit \in Strings /\ s.Help \in Strings
           /\ s.samples \in Seq([Value : Floats, Ts : Int64])
           /\ s.exemplars \in Seq(Exemplars)
           /\ s.hists \in Seq([float : {FALSE}, Ts : Int64, h : Histograms(Int64)]
                                \cup [float : {TRUE}, Ts : Int64, h : Histograms(Floats)])
           /\ s.created \in Int64
BY DEF Series

LEMMA SeriesStringsOf ==
    ASSUME NEW s \in Series
    PROVE  /\ SeriesStrings(s) \in Seq(Strings)
           /\ Range(LabelStrings(s.labels)) \subseteq Range(SeriesStrings(s))
           /\ s.Unit \in Range(SeriesStrings(s)) /\ s.Help \in Range(SeriesStrings(s))
           /\ \A i \in 1..Len(s.exemplars) :
                 Range(LabelStrings(s.exemplars[i].Labels)) \subseteq Range(SeriesStrings(s))
<1>. DEFINE es == s.exemplars
            ss == ExemplarStrings(es)
            u == LabelStrings(s.labels)
            v == <<s.Unit, s.Help>>
            w == FlattenSeq(ss)
<1>1. /\ s.labels \in Labels /\ s.Unit \in Strings /\ s.Help \in Strings
      /\ es \in Seq(Exemplars)
  BY SeriesFields
<1>2. SeriesStrings(s) = u \o v \o w
  BY DEF SeriesStrings, ExemplarStrings
<1>3. u \in Seq(Strings)
  BY <1>1, LabelStringsOf
<1>4. v \in Seq(Strings) /\ s.Unit \in Range(v) /\ s.Help \in Range(v)
  BY <1>1 DEF Range
<1>5. /\ Parts(ss, Strings) /\ Len(ss) = Len(es)
      /\ \A i \in 1..Len(es) : ss[i] = LabelStrings(es[i].Labels)
  BY <1>1, ExemplarStringsOf
<1>. HIDE DEF es, ss, u, v
<1>6. w \in Seq(Strings)
  BY <1>5, FlattenTyped
<1>7. \A i \in 1..Len(es) : Range(LabelStrings(es[i].Labels)) \subseteq Range(w)
  BY <1>5, RangeFlat
<1>. HIDE DEF w
<1>8. /\ u \o v \in Seq(Strings)
      /\ Range(u) \subseteq Range(u \o v) /\ Range(v) \subseteq Range(u \o v)
  BY <1>3, <1>4, RangeJoined
<1>9. /\ u \o v \o w \in Seq(Strings)
      /\ Range(u \o v) \subseteq Range(u \o v \o w) /\ Range(w) \subseteq Range(u \o v \o w)
  <2>. DEFINE x == u \o v
  <2>1. x \in Seq(Strings)
    BY <1>8
  <2>. HIDE DEF x
  <2>2. /\ x \o w \in Seq(Strings)
        /\ Range(x) \subseteq Range(x \o w) /\ Range(w) \subseteq Range(x \o w)
    BY <1>6, <2>1, RangeJoined
  <2>. QED
    BY <2>2 DEF x
<1>10. /\ Range(u) \subseteq Range(u \o v \o w) /\ Range(v) \subseteq Range(u \o v \o w)
       /\ \A i \in 1..Len(es) :
             Range(LabelStrings(es[i].Labels)) \subseteq Range(u \o v \o w)
  BY <1>7, <1>8, <1>9
<1>. QED
  BY <1>2, <1>4, <1>9, <1>10 DEF u, es

LEMMA MetricStringsOf ==
    ASSUME NEW metric \in Metrics
    PROVE  /\ metric.series \in Seq(Series)
           /\ MetricStrings(metric) \in Seq(Strings)
           /\ \A i \in 1..Len(metric.series) :
                 Range(SeriesStrings(metric.series[i])) \subseteq Range(MetricStrings(metric))
<1>. DEFINE s == metric.series
            ss == Each(s, SeriesStrings)
<1>1. s \in Seq(Series)
  BY MetricsAssumption
<1>2. MetricStrings(metric) = FlattenSeq(ss)
  BY DEF MetricStrings
<1>3. /\ Len(s) \in Nat /\ DOMAIN s = 1..Len(s)
      /\ \A i \in 1..Len(s) : s[i] \in Series
  BY <1>1, SeqTyped
<1>4. \A i \in 1..Len(s) : SeriesStrings(s[i]) \in Seq(Strings)
  BY <1>3, SeriesStringsOf
<1>5. ss = [i \in 1..Len(s) |-> SeriesStrings(s[i])]
  BY <1>3 DEF Each
<1>. HIDE DEF ss
<1>6. Parts(ss, Strings) /\ Len(ss) = Len(s)
  <2>1. ss \in [1..Len(s) -> Seq(Strings)]
    BY <1>4, <1>5
  <2>. QED
    BY <1>3, <1>5, <2>1 DEF Parts
<1>7. FlattenSeq(ss) \in Seq(Strings)
  BY <1>6, FlattenTyped
<1>8. \A i \in 1..Len(s) : Range(ss[i]) \subseteq Range(FlattenSeq(ss))
  BY <1>6, RangeFlat
<1>. QED
  BY <1>1, <1>2, <1>5, <1>7, <1>8

-------------------------------------------------------------------------------
(* The messages made of Prometheus' types. *)

LEMMA MetadataTypeOf == ASSUME NEW t PROVE FromMetadataType(t) \in Int64
<1>. DEFINE ns == {n \in DOMAIN MetricTypes : MetricTypes[n] = t}
<1>1. DOMAIN MetricTypes \subseteq 0..127 /\ 0 \in 0..127
  BY DEF MetricTypes
<1>2. CASE t \in Range(MetricTypes)
  <2>1. \E n \in DOMAIN MetricTypes : MetricTypes[n] = t
    BY <1>2 DEF Range
  <2>2. FromMetadataType(t) = CHOOSE n \in DOMAIN MetricTypes : MetricTypes[n] = t
    BY <1>2 DEF FromMetadataType
  <2>3. FromMetadataType(t) \in DOMAIN MetricTypes
    BY <2>1, <2>2
  <2>. QED
    BY <1>1, <2>3, Int64Int
<1>3. CASE t \notin Range(MetricTypes)
  BY <1>1, <1>3, Int64Int DEF FromMetadataType
<1>. QED
  BY <1>2, <1>3

LEMMA SpansOf ==
    ASSUME NEW spans \in Seq(Spans)
    PROVE  spansToSpansProto(spans) \in Seq(SpanMessages)
<1>1. /\ Len(spans) \in Nat /\ DOMAIN spans = 1..Len(spans)
      /\ \A i \in 1..Len(spans) : spans[i] \in Spans
  BY SeqTyped
<1>2. ASSUME NEW s \in Spans
      PROVE  [NoSpan EXCEPT !.Offset = s.Offset, !.Length = s.Length] \in SpanMessages
  <2>1. NoSpan \in SpanMessages
    BY Int64Int DEF NoSpan, SpanMessages, Payload
  <2>2. s.Offset \in Int64 /\ s.Length \in Int64
    BY Int64Holds DEF Spans
  <2>. QED
    BY <2>1, <2>2 DEF SpanMessages
<1>3. spansToSpansProto(spans)
        = [i \in 1..Len(spans) |-> [NoSpan EXCEPT !.Offset = spans[i].Offset,
                                                  !.Length = spans[i].Length]]
  BY <1>1 DEF spansToSpansProto, Each
<1>4. spansToSpansProto(spans) \in [1..Len(spans) -> SpanMessages]
  BY <1>1, <1>2, <1>3
<1>. QED
  BY <1>1, <1>4

\* The fields of a histogram of Prometheus.
LEMMA HistogramHolds ==
    ASSUME NEW number, NEW h \in Histograms(number)
    PROVE  /\ h.CounterResetHint \in Int64 /\ h.Schema \in Int64
           /\ h.ZeroThreshold \in Floats /\ h.Sum \in Floats
           /\ h.ZeroCount \in number /\ h.Count \in number
           /\ h.PositiveSpans \in Seq(Spans)
           /\ h.PositiveBuckets \in Seq(number)
           /\ h.NegativeSpans \in Seq(Spans)
           /\ h.NegativeBuckets \in Seq(number)
           /\ h.CustomValues \in Seq(Floats)
<1>1. h.CounterResetHint \in Int64 /\ h.Schema \in Int64
  BY Int64Holds DEF Histograms
<1>. QED
  BY <1>1 DEF Histograms

\* The empty message, and what is filled in.
LEMMA NoHistogramTyped == NoHistogram \in HistogramMessages
<1>1. Nil \in Counts /\ 0 \in Floats /\ <<>> \in Payload
  BY Int64Int DEF Nil, Counts, Floats, Payload
<1>. QED
  BY <1>1, Int64Int DEF HistogramMessages, NoHistogram

LEMMA IntFieldsTyped ==
    ASSUME NEW m \in HistogramMessages, NEW count \in Counts, NEW zero \in Counts,
           NEW negative \in Seq(Int64), NEW positive \in Seq(Int64)
    PROVE  [m EXCEPT !.Count = count, !.ZeroCount = zero, !.NegativeDeltas = negative,
                     !.PositiveDeltas = positive] \in HistogramMessages
BY DEF HistogramMessages

LEMMA FloatFieldsTyped ==
    ASSUME NEW m \in HistogramMessages, NEW count \in Counts, NEW zero \in Counts,
           NEW negative \in Seq(Floats), NEW positive \in Seq(Floats)
    PROVE  [m EXCEPT !.Count = count, !.ZeroCount = zero, !.NegativeCounts = negative,
                     !.PositiveCounts = positive] \in HistogramMessages
BY DEF HistogramMessages

LEMMA HistogramFromTyped ==
    ASSUME NEW ts \in Int64, NEW number, NEW h \in Histograms(number)
    PROVE  HistogramFrom(ts, h) \in HistogramMessages
<1>. DEFINE sum == h.Sum
            schema == h.Schema
            threshold == h.ZeroThreshold
            negative == spansToSpansProto(h.NegativeSpans)
            positive == spansToSpansProto(h.PositiveSpans)
            hint == h.CounterResetHint
            bounds == h.CustomValues
<1>1. HistogramFrom(ts, h)
        = [NoHistogram EXCEPT !.Sum = sum, !.Schema = schema, !.ZeroThreshold = threshold,
                              !.NegativeSpans = negative, !.PositiveSpans = positive,
                              !.ResetHint = hint, !.CustomValues = bounds,
                              !.Timestamp = ts]
  BY DEF HistogramFrom
<1>2. negative \in Seq(SpanMessages) /\ positive \in Seq(SpanMessages)
  BY HistogramHolds, SpansOf
<1>3. /\ sum \in Floats /\ schema \in Int64 /\ threshold \in Floats
      /\ hint \in Int64 /\ bounds \in Seq(Floats)
  BY HistogramHolds
<1>. HIDE DEF sum, schema, threshold, negative, positive, hint, bounds
<1>4. [NoHistogram EXCEPT !.Sum = sum, !.Schema = schema, !.ZeroThreshold = threshold,
                          !.NegativeSpans = negative, !.PositiveSpans = positive,
                          !.ResetHint = hint, !.CustomValues = bounds, !.Timestamp = ts]
        \in HistogramMessages
  BY <1>2, <1>3, NoHistogramTyped DEF HistogramMessages
<1>. QED
  BY <1>1, <1>4

LEMMA HistogramTyped ==
    ASSUME NEW x, x \in [float : {FALSE}, Ts : Int64, h : Histograms(Int64)]
                      \cup [float : {TRUE}, Ts : Int64, h : Histograms(Floats)]
    PROVE  (IF x.float THEN FromFloatHistogram(x.Ts, x.h) ELSE FromIntHistogram(x.Ts, x.h))
             \in HistogramMessages
<1>1. ASSUME NEW ts \in Int64, NEW h \in Histograms(Int64)
      PROVE  FromIntHistogram(ts, h) \in HistogramMessages
  <2>1. HistogramFrom(ts, h) \in HistogramMessages
    BY HistogramFromTyped
  <2>2. /\ h.Count \in Int64 /\ h.ZeroCount \in Int64
        /\ h.PositiveBuckets \in Seq(Int64) /\ h.NegativeBuckets \in Seq(Int64)
    BY HistogramHolds
  <2>3. IntCount(h.Count) \in Counts /\ IntCount(h.ZeroCount) \in Counts
    BY <2>2 DEF IntCount, Counts
  <2>. QED
    BY <2>1, <2>2, <2>3, IntFieldsTyped DEF FromIntHistogram
<1>2. ASSUME NEW ts \in Int64, NEW h \in Histograms(Floats)
      PROVE  FromFloatHistogram(ts, h) \in HistogramMessages
  <2>1. HistogramFrom(ts, h) \in HistogramMessages
    BY HistogramFromTyped
  <2>2. /\ h.Count \in Floats /\ h.ZeroCount \in Floats
        /\ h.PositiveBuckets \in Seq(Floats) /\ h.NegativeBuckets \in Seq(Floats)
    BY HistogramHolds
  <2>3. FloatCount(h.Count) \in Counts /\ FloatCount(h.ZeroCount) \in Counts
    BY <2>2 DEF FloatCount, Counts
  <2>. QED
    BY <2>1, <2>2, <2>3, FloatFieldsTyped DEF FromFloatHistogram
<1>3. CASE x \in [float : {FALSE}, Ts : Int64, h : Histograms(Int64)]
  <2>1. x.float = FALSE /\ x.Ts \in Int64 /\ x.h \in Histograms(Int64)
    BY <1>3
  <2>. QED
    BY <1>1, <2>1
<1>4. CASE x \in [float : {TRUE}, Ts : Int64, h : Histograms(Floats)]
  <2>1. x.float = TRUE /\ x.Ts \in Int64 /\ x.h \in Histograms(Floats)
    BY <1>4
  <2>. QED
    BY <1>2, <2>1
<1>. QED
  BY <1>3, <1>4

\* Every reference there is is a number; of the strings given, there is one.
Referenced(strings) == refs \in [DOMAIN refs -> Nat] /\ Range(strings) \subseteq DOMAIN refs

LEMMA LabelsRefsOf ==
    ASSUME NEW labels \in Labels, Referenced(LabelStrings(labels))
    PROVE  LabelsRefs(labels) \in Seq(Int)
<1>. DEFINE ss == Each(labels, LAMBDA l : <<refs[l.Name], refs[l.Value]>>)
<1>1. LabelsRefs(labels) = FlattenSeq(ss)
  BY DEF LabelsRefs
<1>2. /\ Len(labels) \in Nat /\ DOMAIN labels = 1..Len(labels)
  <2>1. labels \in Seq([Name : Strings, Value : Strings])
    BY DEF Labels
  <2>. QED
    BY <2>1, SeqTyped
<1>3. \A i \in 1..Len(labels) : refs[labels[i].Name] \in Int /\ refs[labels[i].Value] \in Int
  BY LabelStringsOf DEF Referenced
<1>4. ss = [i \in 1..Len(labels) |-> <<refs[labels[i].Name], refs[labels[i].Value]>>]
  BY <1>2 DEF Each
<1>. HIDE DEF ss
<1>5. Parts(ss, Int)
  <2>1. \A i \in 1..Len(labels) :
           <<refs[labels[i].Name], refs[labels[i].Value]>> \in Seq(Int)
    BY <1>3
  <2>2. ss \in [1..Len(labels) -> Seq(Int)]
    BY <1>4, <2>1
  <2>. QED
    BY <1>2, <2>2 DEF Parts
<1>. QED
  BY <1>1, <1>5, FlattenTyped

\* The samples, exemplars, labels and metadata of a series.
SamplesOf(s) ==
    Each(s.samples, LAMBDA v : [NoSample EXCEPT !.Value = v.Value, !.Timestamp = v.Ts])

ExemplarsOf(s) ==
    Each(s.exemplars, LAMBDA e :
            [NoExemplar EXCEPT !.LabelsRefs = LabelsRefs(e.Labels),
                               !.Value = e.Value, !.Timestamp = e.Ts])

HistogramsOf(s) ==
    Each(s.hists, LAMBDA x :
            IF x.float THEN FromFloatHistogram(x.Ts, x.h) ELSE FromIntHistogram(x.Ts, x.h))

MetadataOf(s) ==
    [NoMetadata EXCEPT !.Type = FromMetadataType(s.Type), !.UnitRef = refs[s.Unit],
                       !.HelpRef = refs[s.Help]]

InlineOf(s) ==
    Each(s.inline, LAMBDA l : [NoLabel EXCEPT !.Name = l.Name, !.Value = l.Value])

LEMMA SamplesTyped ==
    ASSUME NEW s \in Series PROVE SamplesOf(s) \in Seq(SampleMessages)
<1>. DEFINE vs == s.samples
<1>1. vs \in Seq([Value : Floats, Ts : Int64])
  BY SeriesFields
<1>2. SamplesOf(s) = Each(vs, LAMBDA v : [NoSample EXCEPT !.Value = v.Value, !.Timestamp = v.Ts])
  BY DEF SamplesOf
<1>. HIDE DEF vs
<1>3. /\ Len(vs) \in Nat /\ DOMAIN vs = 1..Len(vs)
      /\ \A i \in 1..Len(vs) : vs[i] \in [Value : Floats, Ts : Int64]
  BY <1>1, SeqTyped
<1>4. NoSample \in SampleMessages
  BY Int64Int DEF NoSample, SampleMessages, Payload, Floats
<1>5. \A v \in [Value : Floats, Ts : Int64] :
         [NoSample EXCEPT !.Value = v.Value, !.Timestamp = v.Ts] \in SampleMessages
  BY <1>4 DEF SampleMessages
<1>6. SamplesOf(s) = [i \in 1..Len(vs) |-> [NoSample EXCEPT !.Value = vs[i].Value,
                                                            !.Timestamp = vs[i].Ts]]
  BY <1>2, <1>3 DEF Each
<1>7. SamplesOf(s) \in [1..Len(vs) -> SampleMessages]
  BY <1>3, <1>5, <1>6
<1>. QED
  BY <1>3, <1>7

LEMMA ExemplarsTyped ==
    ASSUME NEW s \in Series, Referenced(SeriesStrings(s))
    PROVE  ExemplarsOf(s) \in Seq(ExemplarMessages(Int))
<1>. DEFINE es == s.exemplars
<1>1. es \in Seq(Exemplars)
  BY SeriesFields
<1>2. ExemplarsOf(s) = Each(es, LAMBDA e :
            [NoExemplar EXCEPT !.LabelsRefs = LabelsRefs(e.Labels),
                               !.Value = e.Value, !.Timestamp = e.Ts])
  BY DEF ExemplarsOf
<1>3. \A i \in 1..Len(es) : Range(LabelStrings(es[i].Labels)) \subseteq Range(SeriesStrings(s))
  BY SeriesStringsOf
<1>. HIDE DEF es
<1>4. /\ Len(es) \in Nat /\ DOMAIN es = 1..Len(es)
      /\ \A i \in 1..Len(es) : es[i] \in Exemplars
  BY <1>1, SeqTyped
<1>5. \A i \in 1..Len(es) : /\ LabelsRefs(es[i].Labels) \in Seq(Int)
                            /\ es[i].Value \in Floats /\ es[i].Ts \in Int64
  <2>. TAKE i \in 1..Len(es)
  <2>1. /\ es[i].Labels \in Labels /\ es[i].Value \in Floats /\ es[i].Ts \in Int64
    BY <1>4 DEF Exemplars
  <2>2. Referenced(LabelStrings(es[i].Labels))
    BY <1>3 DEF Referenced
  <2>. QED
    BY <2>1, <2>2, LabelsRefsOf
<1>6. NoExemplar \in ExemplarMessages(Int)
  BY Int64Int DEF NoExemplar, ExemplarMessages, Payload, Floats
<1>7. \A i \in 1..Len(es) :
         [NoExemplar EXCEPT !.LabelsRefs = LabelsRefs(es[i].Labels),
                            !.Value = es[i].Value, !.Timestamp = es[i].Ts]
           \in ExemplarMessages(Int)
  BY <1>5, <1>6 DEF ExemplarMessages
<1>8. ExemplarsOf(s) = [i \in 1..Len(es) |->
         [NoExemplar EXCEPT !.LabelsRefs = LabelsRefs(es[i].Labels),
                            !.Value = es[i].Value, !.Timestamp = es[i].Ts]]
  BY <1>2, <1>4 DEF Each
<1>9. ExemplarsOf(s) \in [1..Len(es) -> ExemplarMessages(Int)]
  BY <1>7, <1>8
<1>. QED
  BY <1>4, <1>9

LEMMA HistogramsTyped ==
    ASSUME NEW s \in Series PROVE HistogramsOf(s) \in Seq(HistogramMessages)
<1>. DEFINE hs == s.hists
            T == [float : {FALSE}, Ts : Int64, h : Histograms(Int64)]
                   \cup [float : {TRUE}, Ts : Int64, h : Histograms(Floats)]
            Made(x) == IF x.float THEN FromFloatHistogram(x.Ts, x.h)
                       ELSE FromIntHistogram(x.Ts, x.h)
<1>1. hs \in Seq(T)
  BY SeriesFields
<1>2. \A x \in T : Made(x) \in HistogramMessages
  BY HistogramTyped
<1>3. HistogramsOf(s) = [i \in DOMAIN hs |-> Made(hs[i])]
  BY DEF HistogramsOf, Each
<1>. HIDE DEF hs, T, Made
<1>4. /\ Len(hs) \in Nat /\ DOMAIN hs = 1..Len(hs)
      /\ \A i \in 1..Len(hs) : hs[i] \in T
  BY <1>1, SeqTyped
<1>5. HistogramsOf(s) \in [1..Len(hs) -> HistogramMessages]
  BY <1>2, <1>3, <1>4
<1>. QED
  BY <1>4, <1>5

LEMMA InlineTyped ==
    ASSUME NEW s \in Series PROVE InlineOf(s) \in Seq(LabelMessages)
<1>. DEFINE ls == s.inline
            T == [Name : Seq(Bytes), Value : Seq(Bytes)]
<1>1. ls \in Seq(T)
  BY SeriesFields DEF Labels
<1>2. InlineOf(s) = [i \in DOMAIN ls |-> [NoLabel EXCEPT !.Name = ls[i].Name,
                                                         !.Value = ls[i].Value]]
  BY DEF InlineOf, Each
<1>3. NoLabel \in LabelMessages
  BY DEF NoLabel, LabelMessages, Payload
<1>4. \A l \in T : [NoLabel EXCEPT !.Name = l.Name, !.Value = l.Value] \in LabelMessages
  BY <1>3 DEF LabelMessages, Payload
<1>. HIDE DEF ls, T
<1>5. /\ Len(ls) \in Nat /\ DOMAIN ls = 1..Len(ls)
      /\ \A i \in 1..Len(ls) : ls[i] \in T
  BY <1>1, SeqTyped
<1>6. InlineOf(s) \in [1..Len(ls) -> LabelMessages]
  BY <1>2, <1>4, <1>5
<1>. QED
  BY <1>5, <1>6

LEMMA SeriesTyped ==
    ASSUME NEW s \in Series, Referenced(SeriesStrings(s))
    PROVE  ToProto(s) \in SeriesMessages(Int)
<1>. DEFINE l == LabelsRefs(s.labels)
            d == MetadataOf(s)
<1>1. ToProto(s) = [NoSeries EXCEPT !.LabelsRefs = l, !.Samples = SamplesOf(s),
                                    !.Exemplars = ExemplarsOf(s),
                                    !.Histograms = HistogramsOf(s), !.Metadata = d,
                                    !.CreatedTimestamp = s.created,
                                    !.Labels = InlineOf(s)]
  BY DEF ToProto, SamplesOf, ExemplarsOf, HistogramsOf, MetadataOf, InlineOf
<1>2. l \in Seq(Int)
  <2>1. s.labels \in Labels
    BY SeriesFields
  <2>2. Referenced(LabelStrings(s.labels))
    BY SeriesStringsOf DEF Referenced
  <2>. QED
    BY <2>1, <2>2, LabelsRefsOf
<1>3. NoMetadata \in MetadataMessages(Int)
  BY Int64Int DEF NoMetadata, MetadataMessages, Payload
<1>4. d \in MetadataMessages(Int)
  <2>1. refs[s.Unit] \in Int /\ refs[s.Help] \in Int
    BY SeriesStringsOf DEF Referenced
  <2>2. FromMetadataType(s.Type) \in Int64
    BY MetadataTypeOf
  <2>. QED
    BY <1>3, <2>1, <2>2 DEF MetadataOf, MetadataMessages
<1>5. NoSeries \in SeriesMessages(Int)
  BY <1>3, Int64Int DEF NoSeries, SeriesMessages, Payload
<1>6. /\ SamplesOf(s) \in Seq(SampleMessages) /\ ExemplarsOf(s) \in Seq(ExemplarMessages(Int))
      /\ HistogramsOf(s) \in Seq(HistogramMessages) /\ InlineOf(s) \in Seq(LabelMessages)
      /\ s.created \in Int64
  BY SeriesFields, SamplesTyped, ExemplarsTyped, HistogramsTyped, InlineTyped
<1>. HIDE DEF l, d
<1>. QED
  BY <1>1, <1>2, <1>4, <1>5, <1>6 DEF SeriesMessages

-------------------------------------------------------------------------------
(* The invariant: what is symbolized, and what the series are made of. *)

\* The strings of the metric in the making are referenced or still to come.
StringsInv ==
    /\ making = None \/ making \in Metrics
    /\ todo \in Seq(Strings)
    /\ refs \in [DOMAIN refs -> Nat]
    /\ making # None => Range(MetricStrings(making)) \subseteq DOMAIN refs \cup Range(todo)

\* There is a message for each series of the metrics that were added.
SeriesInv ==
    /\ series \in Seq(SeriesMessages(Int)) /\ sent \in Seq(Metrics)
    /\ Len(series) = Len(SentSeries)

BytesInv == wire \in Seq(Bytes) /\ dst \in Seq(Bytes)

RequestInv == Inv /\ StringsInv /\ SeriesInv /\ BytesInv

\* A sequence of parts with one more is longer by as much as it is long.
LEMMA FlattenAppended ==
    ASSUME NEW T, NEW ss, Parts(ss, T), NEW x \in Seq(T)
    PROVE  /\ Parts(Append(ss, x), T)
           /\ Len(FlattenSeq(Append(ss, x))) = Len(FlattenSeq(ss)) + Len(x)
<1>. DEFINE tt == Append(ss, x)
            l == Len(ss)
            ms == [i \in 1..l |-> Len(ss[i])]
            ns == [i \in 1..(l + 1) |-> Len(tt[i])]
<1>1. l \in Nat /\ \A i \in 1..l : ss[i] \in Seq(T) /\ Len(ss[i]) \in Nat
  BY PartsOf
<1>2. /\ tt \in Seq(Seq(T)) /\ Len(tt) = l + 1 /\ tt[l + 1] = x
      /\ \A i \in 1..l : tt[i] = ss[i]
  <2>1. ss \in Seq(Seq(T))
    BY DEF Parts
  <2>. QED
    BY <2>1, AppendProperties
<1>3. Len(x) \in Nat
  BY LenProperties
<1>. HIDE DEF tt, l
<1>4. Parts(tt, T)
  BY <1>2 DEF Parts
<1>5. /\ Lengths(ms, ss) /\ Lengths(ns, tt)
      /\ \A i \in 1..l : ms[i] \in Nat /\ ns[i] = ms[i]
      /\ l + 1 \in 1..(l + 1) /\ ns[l + 1] = Len(x)
      /\ (1..(l + 1)) \ {l + 1} = 1..l
      /\ \A i \in 1..(l + 1) : ns[i] \in Nat
  <2>1. /\ l + 1 \in 1..(l + 1) /\ (1..(l + 1)) \ {l + 1} = 1..l
        /\ \A i \in 1..(l + 1) : i \in 1..l \/ i = l + 1
        /\ \A i \in 1..l : i \in 1..(l + 1)
    BY <1>1
  <2>2. Lengths(ms, ss)
    BY DEF Lengths, l
  <2>3. Lengths(ns, tt)
    BY <1>2 DEF Lengths
  <2>. QED
    BY <1>1, <1>2, <1>3, <2>1, <2>2, <2>3
<1>. HIDE DEF ms, ns
<1>6. /\ Len(FlattenSeq(ss)) = SumFunctionOnSet(ms, 1..l)
      /\ Len(FlattenSeq(tt)) = SumFunctionOnSet(ns, 1..(l + 1))
  <2>1. Len(FlattenSeq(ss)) = SumFunctionOnSet(ms, 1..l)
    BY <1>5, FlattenSized DEF l
  <2>2. Len(FlattenSeq(tt)) = SumFunctionOnSet(ns, 1..Len(tt))
    BY <1>4, <1>5, FlattenSized
  <2>. QED
    BY <1>2, <2>1, <2>2
<1>7. IsFiniteSet(1..(l + 1)) /\ IsFiniteSet(1..l)
  BY <1>1, IntervalFinite
<1>8. SumFunctionOnSet(ns, 1..(l + 1)) = Len(x) + SumFunctionOnSet(ns, 1..l)
  <2>. DEFINE N == 1..(l + 1)
              k == l + 1
  <2>1. /\ IsFiniteSet(N) /\ k \in N /\ N \ {k} = 1..l /\ ns[k] = Len(x)
        /\ \A i \in N : ns[i] \in Nat
    BY <1>5, <1>7
  <2>. HIDE DEF N, k
  <2>2. SumFunctionOnSet(ns, N) = ns[k] + SumFunctionOnSet(ns, N \ {k})
    BY <2>1, SumSplits
  <2>. QED
    BY <2>1, <2>2 DEF N
<1>9. SumFunctionOnSet(ns, 1..l) = SumFunctionOnSet(ms, 1..l)
  BY <1>5, <1>7, SumSame
<1>10. Len(FlattenSeq(ss)) \in Nat
  <2>1. FlattenSeq(ss) \in Seq(T)
    BY FlattenTyped
  <2>. QED
    BY <2>1, LenProperties
<1>. QED
  BY <1>3, <1>4, <1>6, <1>8, <1>9, <1>10 DEF tt

\* The series of the metrics sent.
LEMMA SentOf ==
    ASSUME NEW ms \in Seq(Metrics)
    PROVE  Parts(Each(ms, LAMBDA metric : metric.series), Series)
<1>1. /\ Len(ms) \in Nat /\ DOMAIN ms = 1..Len(ms)
      /\ \A i \in 1..Len(ms) : ms[i] \in Metrics
  BY SeqTyped
<1>2. \A i \in 1..Len(ms) : ms[i].series \in Seq(Series)
  BY <1>1, MetricsAssumption
<1>3. [i \in DOMAIN ms |-> ms[i].series] \in [1..Len(ms) -> Seq(Series)]
  BY <1>1, <1>2
<1>4. [i \in DOMAIN ms |-> ms[i].series] \in Seq(Seq(Series))
  BY <1>1, <1>3
<1>. QED
  BY <1>4 DEF Parts, Each

\* The request there is, and what it holds of the table.
LEMMA SymbolsTyped == ASSUME Inv PROVE Symbols(table) \in Seq(Strings)
<1>1. /\ table.strings.len \in Nat
      /\ table.arrays[table.strings.array] \in Seq(Strings)
      /\ table.strings.len <= Len(table.arrays[table.strings.array])
  BY DEF Inv, TableTypeOK, ShapeInv
<1>2. \A i \in 1..table.strings.len : table.arrays[table.strings.array][i] \in Strings
  BY <1>1
<1>. QED
  BY <1>1, <1>2 DEF Symbols, View

LEMMA TheRequestTyped ==
    ASSUME RequestInv
    PROVE  /\ TheRequest \in RequestMessages(Int)
           /\ NoInlineLabels => Unlabelled(TheRequest)
<1>1. Symbols(table) \in Seq(Payload)
  <2>1. Symbols(table) \in Seq(Strings)
    BY SymbolsTyped DEF RequestInv
  <2>. DEFINE t == Symbols(table)
  <2>. HIDE DEF t
  <2>2. /\ Len(t) \in Nat /\ DOMAIN t = 1..Len(t) /\ t \in [1..Len(t) -> Payload]
    BY <2>1, StringsAssumption DEF t, Payload
  <2>. QED
    BY <2>2 DEF t
<1>2. series \in Seq(SeriesMessages(Int))
  BY DEF RequestInv, SeriesInv
<1>3. NoRequest \in RequestMessages(Int)
  BY DEF NoRequest, RequestMessages, Payload
<1>4. TheRequest \in RequestMessages(Int)
  BY <1>1, <1>2, <1>3 DEF TheRequest, RequestMessages
<1>5. TheRequest.Timeseries = series
  BY DEF TheRequest, NoRequest
<1>6. DOMAIN series = 1..Len(series)
  BY <1>2
<1>. QED
  BY <1>4, <1>5, <1>6 DEF NoInlineLabels, Unlabelled

-------------------------------------------------------------------------------
(* The invariant is inductive: one lemma for each action. *)

LEMMA FlattenNothing == Len(FlattenSeq(<<>>)) = 0
<1>1. Parts(<<>>, Series) /\ Lengths(<<>>, <<>>)
  BY DEF Parts, Lengths
<1>2. Len(FlattenSeq(<<>>)) = SumFunctionOnSet(<<>>, 1..Len(<<>>))
  BY <1>1, FlattenSized
<1>3. 1..Len(<<>>) = {}
  OBVIOUS
<1>. QED
  BY <1>2, <1>3, SumOfNothing

LEMMA RequestInit == ASSUME Init PROVE RequestInv
<1>1. /\ TableInit /\ making = <<>> /\ todo = <<>> /\ refs = <<>>
      /\ series = <<>> /\ sent = <<>> /\ dst = <<>> /\ wire = <<>>
  BY DEF Init, None
<1>2. Inv
  BY <1>1, InvInit
<1>3. StringsInv
  BY <1>1 DEF StringsInv, None
<1>4. SeriesInv
  <2>1. SentSeries = FlattenSeq(<<>>)
    BY <1>1 DEF SentSeries, Each
  <2>. QED
    BY <1>1, <2>1, FlattenNothing DEF SeriesInv
<1>5. BytesInv
  BY <1>1 DEF BytesInv
<1>. QED
  BY <1>2, <1>3, <1>4, <1>5 DEF RequestInv

\* What leaves the variables alone leaves their parts of the invariant alone.
LEMMA SeriesSame ==
    ASSUME SeriesInv, series' = series, sent' = sent
    PROVE  SeriesInv'
<1>1. SentSeries' = SentSeries
  BY DEF SentSeries, Each
<1>. QED
  BY <1>1 DEF SeriesInv

LEMMA StringsSame ==
    ASSUME StringsInv, making' = making, todo' = todo, refs' = refs
    PROVE  StringsInv'
<1>1. MetricStrings(making') = MetricStrings(making)
  OBVIOUS
<1>. QED
  BY <1>1 DEF StringsInv, None

LEMMA BeginKeeps ==
    ASSUME RequestInv, NEW metric \in Metrics, Begin(metric)
    PROVE  RequestInv'
<1>1. /\ making' = metric /\ todo' = MetricStrings(metric) /\ refs' = refs
      /\ series' = series /\ sent' = sent /\ wire' = wire /\ dst' = dst
      /\ UNCHANGED tableVars
  BY DEF Begin
<1>2. Inv'
  BY <1>1, InvInductive DEF RequestInv
<1>3. StringsInv'
  <2>1. MetricStrings(metric) \in Seq(Strings)
    BY MetricStringsOf
  <2>2. MetricStrings(making') = MetricStrings(metric)
    BY <1>1
  <2>. QED
    BY <1>1, <2>1, <2>2 DEF RequestInv, StringsInv, None
<1>4. SeriesInv'
  BY <1>1, SeriesSame DEF RequestInv
<1>5. BytesInv'
  BY <1>1 DEF RequestInv, BytesInv
<1>. QED
  BY <1>2, <1>3, <1>4, <1>5 DEF RequestInv

\* The reference that Symbolize returns is a number.
LEMMA RefTyped ==
    ASSUME Inv, NEW str \in Strings, Symbolize(str)
    PROVE  Inv' /\ RefOf(table, str) \in Nat
<1>1. Inv'
  BY SymbolizeKeepsInv
<1>2. given' \subseteq Nat \X Strings
  BY <1>1 DEF Inv, TableTypeOK
<1>3. <<RefOf(table, str), str>> \in given'
  BY DEF Symbolize
<1>. QED
  BY <1>1, <1>2, <1>3

LEMMA SymbolizeNextKeeps ==
    ASSUME RequestInv, SymbolizeNext
    PROVE  RequestInv' /\ Head(todo) \in Strings
<1>. DEFINE str == Head(todo)
            ref == RefOf(table, str)
<1>1. /\ todo # <<>> /\ Symbolize(str) /\ todo' = Tail(todo)
      /\ refs' = [s \in DOMAIN refs \cup {str} |-> IF s = str THEN ref ELSE refs[s]]
      /\ making' = making /\ series' = series /\ sent' = sent /\ wire' = wire /\ dst' = dst
  BY DEF SymbolizeNext
<1>2. todo \in Seq(Strings)
  BY DEF RequestInv, StringsInv
<1>3. /\ str \in Strings /\ Tail(todo) \in Seq(Strings)
      /\ Range(todo) \subseteq {str} \cup Range(Tail(todo))
  <2>1. str \in Strings /\ Tail(todo) \in Seq(Strings)
    BY <1>1, <1>2
  <2>2. Len(todo) \in Nat /\ Len(todo) >= 1 /\ str = todo[1]
        /\ DOMAIN todo = 1..Len(todo)
        /\ DOMAIN Tail(todo) = 1..(Len(todo) - 1)
        /\ \A i \in 1..(Len(todo) - 1) : Tail(todo)[i] = todo[i + 1]
    BY <1>1, <1>2
  <2>3. ASSUME NEW i \in DOMAIN todo PROVE todo[i] \in {str} \cup Range(Tail(todo))
    <3>1. CASE i = 1
      BY <2>2, <3>1
    <3>2. CASE i # 1
      <4>1. i - 1 \in 1..(Len(todo) - 1) /\ (i - 1) + 1 = i
        BY <2>2, <3>2
      <4>2. Tail(todo)[i - 1] = todo[i]
        BY <2>2, <4>1
      <4>. QED
        BY <2>2, <4>1, <4>2 DEF Range
    <3>. QED
      BY <3>1, <3>2
  <2>. QED
    BY <2>1, <2>3 DEF Range
<1>4. Inv' /\ ref \in Nat
  BY <1>1, <1>3, RefTyped DEF RequestInv
<1>. HIDE DEF str, ref
<1>5. /\ DOMAIN refs' = {str} \cup DOMAIN refs
      /\ refs' \in [DOMAIN refs' -> Nat]
  <2>1. refs \in [DOMAIN refs -> Nat]
    BY DEF RequestInv, StringsInv
  <2>2. refs' = [s \in DOMAIN refs \cup {str} |-> IF s = str THEN ref ELSE refs[s]]
    BY <1>1
  <2>. QED
    BY <1>4, <2>1, <2>2
<1>6. StringsInv'
  <2>1. making # None => Range(MetricStrings(making)) \subseteq DOMAIN refs \cup Range(todo)
    BY DEF RequestInv, StringsInv
  <2>2. making # None => Range(MetricStrings(making)) \subseteq DOMAIN refs' \cup Range(todo')
    BY <1>1, <1>3, <1>5, <2>1
  <2>3. MetricStrings(making') = MetricStrings(making)
    BY <1>1
  <2>4. making = None \/ making \in Metrics
    BY DEF RequestInv, StringsInv
  <2>. QED
    BY <1>1, <1>3, <1>5, <2>2, <2>3, <2>4 DEF StringsInv, None
<1>7. SeriesInv'
  BY <1>1, SeriesSame DEF RequestInv
<1>8. BytesInv'
  BY <1>1 DEF RequestInv, BytesInv
<1>. QED
  BY <1>3, <1>4, <1>6, <1>7, <1>8 DEF RequestInv, str

LEMMA AddSeriesKeeps ==
    ASSUME RequestInv, AddSeries
    PROVE  RequestInv'
<1>. DEFINE s == making.series
            new == Each(s, ToProto)
<1>1. /\ making # None /\ todo = <<>>
      /\ series' = series \o new /\ sent' = Append(sent, making)
      /\ making' = None
      /\ todo' = todo /\ refs' = refs /\ wire' = wire /\ dst' = dst /\ UNCHANGED tableVars
  BY DEF AddSeries
<1>2. Inv'
  BY <1>1, InvInductive DEF RequestInv
<1>3. making \in Metrics
  BY <1>1 DEF RequestInv, StringsInv
<1>4. StringsInv'
  BY <1>1 DEF RequestInv, StringsInv, None
<1>5. /\ new \in Seq(SeriesMessages(Int)) /\ Len(new) = Len(s) /\ s \in Seq(Series)
  <2>1. /\ s \in Seq(Series)
        /\ \A i \in 1..Len(s) : Range(SeriesStrings(s[i])) \subseteq Range(MetricStrings(making))
    BY <1>3, MetricStringsOf
  <2>2. /\ Len(s) \in Nat /\ DOMAIN s = 1..Len(s)
        /\ \A i \in 1..Len(s) : s[i] \in Series
    BY <2>1, SeqTyped
  <2>3. /\ refs \in [DOMAIN refs -> Nat]
        /\ Range(MetricStrings(making)) \subseteq DOMAIN refs
    BY <1>1 DEF RequestInv, StringsInv, Range
  <2>4. \A i \in 1..Len(s) : ToProto(s[i]) \in SeriesMessages(Int)
    BY <2>1, <2>2, <2>3, SeriesTyped DEF Referenced
  <2>5. new = [i \in 1..Len(s) |-> ToProto(s[i])]
    BY <2>2 DEF Each
  <2>. HIDE DEF s, new
  <2>6. new \in [1..Len(s) -> SeriesMessages(Int)]
    BY <2>4, <2>5
  <2>. QED
    BY <2>1, <2>2, <2>6
<1>. HIDE DEF new
<1>6. SeriesInv'
  <2>. DEFINE ss == Each(sent, LAMBDA metric : metric.series)
              tt == Each(sent', LAMBDA metric : metric.series)
  <2>1. /\ series \in Seq(SeriesMessages(Int)) /\ sent \in Seq(Metrics)
        /\ Len(series) = Len(FlattenSeq(ss))
    BY DEF RequestInv, SeriesInv, SentSeries
  <2>2. /\ series' \in Seq(SeriesMessages(Int)) /\ sent' \in Seq(Metrics)
        /\ Len(series') = Len(series) + Len(new)
    BY <1>1, <1>3, <1>5, <2>1, ConcatProperties, AppendProperties
  <2>3. tt = Append(ss, s)
    <3>1. /\ Len(sent) \in Nat /\ DOMAIN sent = 1..Len(sent)
          /\ Len(sent') = Len(sent) + 1 /\ DOMAIN sent' = 1..(Len(sent) + 1)
          /\ sent'[Len(sent) + 1] = making
          /\ \A i \in 1..Len(sent) : sent'[i] = sent[i]
      BY <1>1, <1>3, <2>1
    <3>2. ss = [i \in 1..Len(sent) |-> sent[i].series]
      BY <3>1 DEF Each
    <3>3. tt = [i \in 1..(Len(sent) + 1) |-> sent'[i].series]
      BY <3>1 DEF Each
    <3>4. Len(ss) = Len(sent)
      BY <3>1, <3>2
    <3>. HIDE DEF ss, tt
    <3>5. Append(ss, s) = [i \in 1..(Len(ss) + 1) |-> IF i = Len(ss) + 1 THEN s ELSE ss[i]]
      <4>1. ss \in Seq({ss[i] : i \in 1..Len(sent)})
        BY <3>1, <3>2
      <4>. QED
        BY <3>1, <3>4, <4>1, AppendProperties
    <3>. QED
      BY <3>1, <3>2, <3>3, <3>4, <3>5
  <2>4. Parts(ss, Series)
    BY <2>1, SentOf
  <2>. HIDE DEF ss, tt, s
  <2>5. Len(FlattenSeq(tt)) = Len(FlattenSeq(ss)) + Len(s)
    BY <1>5, <2>3, <2>4, FlattenAppended
  <2>6. SentSeries' = FlattenSeq(tt)
    BY DEF SentSeries, tt, Each
  <2>. QED
    BY <1>5, <2>1, <2>2, <2>5, <2>6 DEF SeriesInv
<1>7. BytesInv'
  BY <1>1 DEF RequestInv, BytesInv
<1>. QED
  BY <1>2, <1>4, <1>6, <1>7 DEF RequestInv

LEMMA EncodeKeeps ==
    ASSUME RequestInv, Encode \/ EncodeOptimized
    PROVE  RequestInv'
<1>1. /\ Lend /\ making' = making /\ todo' = todo /\ refs' = refs
      /\ series' = series /\ sent' = sent
  BY DEF Encode, EncodeOptimized
<1>2. Inv'
  BY <1>1, LendKeepsInv DEF RequestInv
<1>3. StringsInv'
  BY <1>1, StringsSame DEF RequestInv
<1>4. SeriesInv'
  BY <1>1, SeriesSame DEF RequestInv
<1>5. TheRequest \in RequestMessages(Int) /\ dst \in Seq(Bytes)
  BY TheRequestTyped DEF RequestInv, BytesInv
<1>6. BytesInv'
  <2>1. CASE Encode
    <3>1. wire' = Marshal(TheRequest) /\ dst' = dst
      BY <2>1 DEF Encode
    <3>. QED
      BY <1>5, <3>1, MarshalIsWhole DEF BytesInv
  <2>2. CASE EncodeOptimized
    <3>1. wire' = OptimizedMarshal(TheRequest, dst) /\ dst' = OptimizedBuffer(TheRequest, dst)
      BY <2>2 DEF EncodeOptimized
    <3>. QED
      BY <1>5, <3>1, OptimizedIsWhole DEF BytesInv
  <2>. QED
    BY <2>1, <2>2
<1>. QED
  BY <1>2, <1>3, <1>4, <1>6 DEF RequestInv

LEMMA ReceiveKeeps ==
    ASSUME RequestInv, Receive
    PROVE  RequestInv'
<1>1. /\ UNCHANGED tableVars /\ making' = making /\ todo' = todo /\ refs' = refs
      /\ series' = series /\ sent' = sent /\ dst' = dst /\ wire' = <<>>
  BY DEF Receive, None
<1>2. Inv'
  BY <1>1, InvInductive DEF RequestInv
<1>3. StringsInv'
  BY <1>1, StringsSame DEF RequestInv
<1>4. SeriesInv'
  BY <1>1, SeriesSame DEF RequestInv
<1>5. BytesInv'
  BY <1>1 DEF RequestInv, BytesInv
<1>. QED
  BY <1>2, <1>3, <1>4, <1>5 DEF RequestInv

LEMMA NextRequestKeeps ==
    ASSUME RequestInv, NextRequest
    PROVE  RequestInv'
<1>1. /\ making = None /\ Reset /\ series' = <<>> /\ sent' = <<>> /\ refs' = <<>>
      /\ making' = making /\ todo' = todo /\ dst' = dst /\ wire' = wire
  BY DEF NextRequest
<1>2. Inv'
  BY <1>1, ResetKeepsInv DEF RequestInv
<1>3. StringsInv'
  <2>1. refs' \in [DOMAIN refs' -> Nat]
    BY <1>1
  <2>. QED
    BY <1>1, <2>1 DEF RequestInv, StringsInv, None
<1>4. SeriesInv'
  <2>1. SentSeries' = FlattenSeq(<<>>)
    BY <1>1 DEF SentSeries, Each
  <2>. QED
    BY <1>1, <2>1, FlattenNothing DEF SeriesInv
<1>5. BytesInv'
  BY <1>1 DEF RequestInv, BytesInv
<1>. QED
  BY <1>2, <1>3, <1>4, <1>5 DEF RequestInv

LEMMA RequestInductive ==
    ASSUME RequestInv, [Next]_vars
    PROVE  RequestInv' /\ [TableNext]_tableVars
<1>1. CASE UNCHANGED vars
  <2>1. /\ UNCHANGED tableVars /\ making' = making /\ todo' = todo /\ refs' = refs
        /\ series' = series /\ sent' = sent /\ dst' = dst /\ wire' = wire
    BY <1>1 DEF vars, requestVars
  <2>2. Inv'
    BY <2>1, InvInductive DEF RequestInv
  <2>3. BytesInv'
    BY <2>1 DEF RequestInv, BytesInv
  <2>. QED
    BY <2>1, <2>2, <2>3, StringsSame, SeriesSame DEF RequestInv
<1>2. ASSUME NEW metric \in Metrics, Begin(metric)
      PROVE  RequestInv' /\ [TableNext]_tableVars
  BY <1>2, BeginKeeps DEF Begin
<1>3. CASE SymbolizeNext
  <2>1. RequestInv' /\ Head(todo) \in Strings /\ Symbolize(Head(todo))
    BY <1>3, SymbolizeNextKeeps DEF SymbolizeNext
  <2>. QED
    BY <2>1 DEF TableNext
<1>4. CASE AddSeries
  BY <1>4, AddSeriesKeeps DEF AddSeries
<1>5. CASE Encode \/ EncodeOptimized
  <2>1. Lend
    BY <1>5 DEF Encode, EncodeOptimized
  <2>. QED
    BY <1>5, <2>1, EncodeKeeps DEF TableNext
<1>6. CASE Receive
  BY <1>6, ReceiveKeeps DEF Receive
<1>7. CASE NextRequest
  <2>1. Reset
    BY <1>7 DEF NextRequest
  <2>. QED
    BY <1>7, <2>1, NextRequestKeeps DEF TableNext
<1>. QED
  BY <1>1, <1>2, <1>3, <1>4, <1>5, <1>6, <1>7 DEF Next

\* The inductive invariant holds throughout.
THEOREM RequestInvHolds == Spec => []RequestInv
<1>1. Init => RequestInv
  BY RequestInit
<1>2. RequestInv /\ [Next]_vars => RequestInv'
  BY RequestInductive
<1>. QED
  BY <1>1, <1>2, PTL DEF Spec

-------------------------------------------------------------------------------
(* What follows from it. *)

\* Making, marshalling and receiving requests uses the table as its own
\* specification allows: whatever is symbolized is a string, and nothing but
\* Symbolize, Symbols and Reset touches the table (symbols.go).
THEOREM TableUsed == Spec => TableSpec
<1>1. Init => TableInit
  BY DEF Init
<1>2. RequestInv /\ [Next]_vars => [TableNext]_tableVars
  BY RequestInductive
<1>. QED
  BY <1>1, <1>2, RequestInvHolds, PTL DEF Spec, TableSpec

\* So the references in the series of a request stand for their strings until
\* the request is sent, however many metrics are symbolized in between.
THEOREM RequestRefsStand == Spec => []RefsResolve
BY TableUsed, ReferencesStand, PTL

\* And the symbols of a request show the same strings until the next Reset.
THEOREM RequestSymbolsStay == Spec => []SlicesStable
BY TableUsed, SlicesStay, PTL

\* The table is well formed; what is on the way and the buffer given again are
\* bytes, whichever marshaller wrote them (neither returns an error); and the
\* request has a TimeSeries for each series that was added to it.
THEOREM RequestTyped == Spec => []TypeOK
<1>1. RequestInv => TypeOK
  BY DEF RequestInv, Inv, SeriesInv, BytesInv, TypeOK
<1>. QED
  BY <1>1, RequestInvHolds, PTL

\* Size is what both marshallers write of a request, for any strings, numbers,
\* histograms and number of series (types.pb.go:1840-2073, custom.go:82-93).
THEOREM SizesAreWritten == Spec => []SizeIsWritten
<1>1. RequestInv => SizeIsWritten
  <2>. SUFFICES ASSUME RequestInv
                PROVE  /\ Len(RequestMarshal(TheRequest)) = RequestSize(TheRequest)
                       /\ NoInlineLabels =>
                            Len(OptimizedRequestMarshal(TheRequest)) = RequestSize(TheRequest)
    BY DEF SizeIsWritten
  <2>1. TheRequest \in RequestMessages(Int) /\ (NoInlineLabels => Unlabelled(TheRequest))
    BY TheRequestTyped
  <2>. QED
    BY <2>1, RequestWritten DEF Written
<1>. QED
  BY <1>1, RequestInvHolds, PTL

-------------------------------------------------------------------------------
(* Labels: their references are looked up, and they stay sorted. *)

PairAfter(u, v, w, j) ==
    Len(w) = j + 2 /\ (\A k \in 1..j : w[k] = u[k]) /\ w[j + 1] = v[1] /\ w[j + 2] = v[2]

LEMMA PairsAfter ==
    ASSUME NEW T, NEW u \in Seq(T), NEW v \in Seq(T), NEW w, w = u \o v,
           NEW j \in Nat, Len(u) = j, Len(v) = 2
    PROVE  PairAfter(u, v, w, j)
<1>1. ASSUME NEW x \in Seq(T), NEW y \in Seq(T)
      PROVE  /\ Len(x \o y) = Len(x) + Len(y)
             /\ \A k \in 1..Len(x) : (x \o y)[k] = x[k]
             /\ \A k \in 1..Len(y) : (x \o y)[Len(x) + k] = y[k]
  OBVIOUS
<1>2. /\ Len(w) = Len(u) + Len(v)
      /\ \A k \in 1..Len(u) : w[k] = u[k]
      /\ \A k \in 1..Len(v) : w[Len(u) + k] = v[k]
  BY <1>1
<1>3. Len(w) = j + 2 /\ (\A k \in 1..j : w[k] = u[k]) /\ \A k \in 1..2 : w[j + k] = v[k]
  BY <1>2
<1>. QED
  BY <1>3 DEF PairAfter

\* One after the other, parts of two.
InPairs(w, ss) ==
    \A n \in 1..Len(ss) : w[2 * n - 1] = ss[n][1] /\ w[2 * n] = ss[n][2]

LEMMA PairsFlat ==
    ASSUME NEW T, NEW ss, Parts(ss, T), \A n \in 1..Len(ss) : Len(ss[n]) = 2
    PROVE  /\ FlattenSeq(ss) \in Seq(T) /\ Len(FlattenSeq(ss)) = 2 * Len(ss)
           /\ InPairs(FlattenSeq(ss), ss)
<1>. DEFINE l == Len(ss)
<1>1. PICK h \in [Nat -> Seq(T)] :
        /\ h[0] = <<>>
        /\ \A n \in 1..l : h[n] = h[n - 1] \o ss[n]
        /\ FlattenSeq(ss) = h[l]
  BY PartsOf
<1>2. l \in Nat /\ \A n \in 1..l : ss[n] \in Seq(T) /\ Len(ss[n]) = 2
  BY PartsOf
<1>. HIDE DEF l
<1>. DEFINE Good(n) == /\ Len(h[n]) = 2 * n
                       /\ \A m \in 1..n : h[n][2 * m - 1] = ss[m][1] /\ h[n][2 * m] = ss[m][2]
            T1 == {n \in 0..l : ~Good(n)}
<1>3. ASSUME NEW n \in 1..l, Good(n - 1) PROVE Good(n)
  <2>. DEFINE u == h[n - 1]
              w == h[n]
  <2>1. n \in Nat /\ n - 1 \in Nat
    BY <1>2
  <2>2. u \in Seq(T) /\ w = u \o ss[n] /\ ss[n] \in Seq(T) /\ Len(ss[n]) = 2 /\ Len(u) = 2 * (n - 1)
    BY <1>1, <1>2, <1>3, <2>1
  <2>. HIDE DEF u, w
  <2>3. /\ Len(w) = 2 * (n - 1) + 2
        /\ \A k \in 1..(2 * (n - 1)) : w[k] = u[k]
        /\ w[2 * (n - 1) + 1] = ss[n][1] /\ w[2 * (n - 1) + 2] = ss[n][2]
    <3>. DEFINE j == 2 * (n - 1)
    <3>1. j \in Nat /\ Len(u) = j
      BY <2>1, <2>2
    <3>. HIDE DEF j
    <3>2. Len(w) = j + 2 /\ (\A k \in 1..j : w[k] = u[k]) /\ w[j + 1] = ss[n][1] /\ w[j + 2] = ss[n][2]
      <4>. DEFINE v == ss[n]
      <4>1. v \in Seq(T) /\ Len(v) = 2 /\ w = u \o v
        BY <2>2
      <4>. HIDE DEF v
      <4>2. PairAfter(u, v, w, j)
        BY <2>2, <3>1, <4>1, PairsAfter
      <4>. QED
        BY <4>2 DEF PairAfter, v
    <3>. QED
      BY <3>2 DEF j
  <2>4. 2 * (n - 1) + 2 = 2 * n /\ 2 * (n - 1) + 1 = 2 * n - 1
    BY <2>1
  <2>5. ASSUME NEW m \in 1..n PROVE w[2 * m - 1] = ss[m][1] /\ w[2 * m] = ss[m][2]
    <3>1. CASE m = n
      BY <2>3, <2>4, <3>1
    <3>2. CASE m # n
      <4>1. m \in 1..(n - 1) /\ 2 * m - 1 \in 1..(2 * (n - 1)) /\ 2 * m \in 1..(2 * (n - 1))
        BY <2>1, <3>2
      <4>2. u[2 * m - 1] = ss[m][1] /\ u[2 * m] = ss[m][2]
        BY <1>3, <4>1 DEF u
      <4>. QED
        BY <2>3, <4>1, <4>2
    <3>. QED
      BY <3>1, <3>2
  <2>. QED
    BY <2>3, <2>4, <2>5 DEF w
<1>4. Good(0)
  <2>1. Len(<<>>) = 0 /\ 2 * 0 = 0 /\ \A m \in 1..0 : FALSE
    OBVIOUS
  <2>. QED
    BY <1>1, <2>1
<1>5. T1 = {}
  <2>. SUFFICES ASSUME T1 # {} PROVE FALSE
    OBVIOUS
  <2>1. T1 \in SUBSET Nat /\ \A n \in T1 : n \in 0..l /\ ~Good(n)
    OBVIOUS
  <2>2. \A n \in 0..l : n \notin T1 => Good(n)
    OBVIOUS
  <2>. HIDE DEF T1, Good
  <2>3. PICK n \in T1 : \A j \in T1 : n <= j
    BY <2>1, NatMin
  <2>4. n \in 0..l /\ ~Good(n)
    BY <2>1, <2>3
  <2>5. n # 0
    BY <1>4, <2>4
  <2>6. n \in 1..l /\ n - 1 \in 0..l /\ ~(n <= n - 1)
    BY <1>2, <2>4, <2>5
  <2>7. Good(n - 1)
    BY <2>2, <2>3, <2>6
  <2>. QED
    BY <1>3, <2>4, <2>6, <2>7
<1>6. Good(l)
  <2>1. l \in 0..l
    BY <1>2
  <2>. QED
    BY <1>5, <2>1
<1>. QED
  BY <1>1, <1>2, <1>6 DEF l, InPairs

\* Strings are ordered: what precedes another does not follow it.
LEMMA PrecedesOnce ==
    ASSUME NEW a \in Seq(Bytes), NEW b \in Seq(Bytes), Precedes(a, b)
    PROVE  a # b /\ ~Precedes(b, a)
<1>. DEFINE la == Len(a)
            lb == Len(b)
            Prefix(x, y) == Len(x) < Len(y) /\ SubSeq(y, 1, Len(x)) = x
            Less(x, y, i) == /\ i \in DOMAIN x \cap DOMAIN y /\ x[i] < y[i]
                             /\ \A j \in 1..(i - 1) : x[j] = y[j]
<1>1. /\ la \in Nat /\ lb \in Nat /\ DOMAIN a = 1..la /\ DOMAIN b = 1..lb
      /\ (\A i \in 1..la : a[i] \in Int) /\ (\A i \in 1..lb : b[i] \in Int)
  <2>1. (\A i \in 1..la : a[i] \in Bytes) /\ (\A i \in 1..lb : b[i] \in Bytes)
    BY SeqTyped
  <2>2. la \in Nat /\ lb \in Nat /\ DOMAIN a = 1..la /\ DOMAIN b = 1..lb
    BY SeqTyped
  <2>3. \A x \in Bytes : x \in Int
    BY DEF Bytes
  <2>. HIDE DEF la, lb
  <2>. QED
    BY <2>1, <2>2, <2>3
<1>2. \A x \in Seq(Bytes), y \in Seq(Bytes) :
         Prefix(x, y) => Len(x) < Len(y) /\ \A i \in 1..Len(x) : x[i] = y[i]
  <2>. SUFFICES ASSUME NEW x \in Seq(Bytes), NEW y \in Seq(Bytes), Prefix(x, y), NEW i \in 1..Len(x)
                PROVE  x[i] = y[i]
    OBVIOUS
  <2>1. SubSeq(y, 1, Len(x)) = x /\ i \in 1..Len(x)
    OBVIOUS
  <2>2. SubSeq(y, 1, Len(x))[i] = y[i]
    <3>. DEFINE n == Len(x)
    <3>1. n \in Nat /\ n < Len(y) /\ i \in 1..n
      OBVIOUS
    <3>. HIDE DEF n
    <3>2. SubSeq(y, 1, n)[i] = y[i]
      BY <3>1
    <3>. QED
      BY <3>2 DEF n
  <2>. QED
    BY <2>1, <2>2
<1>3. \A x, y : Precedes(x, y) <=> Prefix(x, y) \/ \E i : Less(x, y, i)
  BY DEF Precedes
<1>. HIDE DEF Prefix
<1>4. ~(Prefix(a, b) /\ Prefix(b, a))
  BY <1>1, <1>2
<1>5. \A i : ~(Prefix(a, b) /\ Less(b, a, i)) /\ ~(Prefix(b, a) /\ Less(a, b, i))
  BY <1>1, <1>2
<1>6. \A i, j : ~(Less(a, b, i) /\ Less(b, a, j))
  <2>. SUFFICES ASSUME NEW i, NEW j, Less(a, b, i), Less(b, a, j) PROVE FALSE
    OBVIOUS
  <2>1. i \in 1..la /\ j \in 1..la /\ a[i] \in Int /\ b[i] \in Int /\ i \in 1..lb /\ j \in 1..lb
        /\ a[j] \in Int /\ b[j] \in Int
    BY <1>1
  <2>2. CASE i = j
    BY <2>1, <2>2
  <2>3. CASE i < j
    <3>1. i \in 1..(j - 1)
      BY <2>1, <2>3
    <3>. QED
      BY <2>1, <3>1
  <2>4. CASE j < i
    <3>1. j \in 1..(i - 1)
      BY <2>1, <2>4
    <3>. QED
      BY <2>1, <3>1
  <2>. QED
    BY <2>1, <2>2, <2>3, <2>4
<1>7. ~Prefix(a, a) /\ \A i : ~Less(a, a, i)
  BY <1>1, <1>2
<1>. HIDE DEF Less
<1>8. ~Precedes(b, a)
  BY <1>3, <1>4, <1>5, <1>6
<1>9. ~Precedes(a, a)
  BY <1>3, <1>7
<1>. QED
  BY <1>8, <1>9

\* What is sorted stays as it is.
LEMMA SortedSame ==
    ASSUME NEW labels \in Labels
    PROVE  Sorted(labels) = labels
<1>. DEFINE l == Len(labels)
<1>1. /\ labels \in Seq([Name : Strings, Value : Strings])
      /\ \A i, j \in DOMAIN labels : i < j => Precedes(labels[i].Name, labels[j].Name)
  BY DEF Labels
<1>2. /\ l \in Nat /\ DOMAIN labels = 1..l
      /\ \A i \in 1..l : labels[i].Name \in Seq(Bytes)
  <2>1. l \in Nat /\ DOMAIN labels = 1..l /\ \A i \in 1..l : labels[i] \in [Name : Strings, Value : Strings]
    BY <1>1, SeqTyped
  <2>. QED
    BY <2>1, StringsAssumption
<1>3. labels = [i \in 1..l |-> labels[i]]
  BY <1>1, <1>2
<1>. HIDE DEF l
<1>4. ASSUME NEW k \in 1..l, NEW j \in 1..l PROVE Before(labels, k, j) <=> k < j
  <2>1. CASE k < j
    BY <1>1, <1>2, <2>1 DEF Before
  <2>2. CASE k = j
    <3>1. ~Precedes(labels[k].Name, labels[j].Name)
      BY <1>2, <2>2, PrecedesOnce
    <3>. QED
      BY <2>2, <3>1 DEF Before
  <2>3. CASE j < k
    <3>1. Precedes(labels[j].Name, labels[k].Name)
      BY <1>1, <1>2, <2>3
    <3>2. ~Precedes(labels[k].Name, labels[j].Name) /\ labels[k].Name # labels[j].Name
      BY <1>2, <3>1, PrecedesOnce
    <3>. QED
      BY <2>3, <3>2 DEF Before
  <2>. QED
    BY <2>1, <2>2, <2>3
<1>5. \A j \in 1..l : Rank(labels, j) = j
  <2>. SUFFICES ASSUME NEW j \in 1..l PROVE Rank(labels, j) = j
    OBVIOUS
  <2>1. {k \in DOMAIN labels : Before(labels, k, j)} = 1..(j - 1)
    BY <1>2, <1>4
  <2>2. Cardinality(1..(j - 1)) = j - 1
    <3>1. 1 \in Int /\ j - 1 \in Int
      BY <1>2
    <3>2. Cardinality(1..(j - 1)) = IF 1 > j - 1 THEN 0 ELSE (j - 1) - 1 + 1
      BY <3>1, FS_Interval
    <3>. QED
      BY <1>2, <3>2
  <2>. QED
    <3>1. Rank(labels, j) = 1 + Cardinality({k \in DOMAIN labels : Before(labels, k, j)})
      BY DEF Rank
    <3>2. Rank(labels, j) = 1 + (j - 1)
      BY <2>1, <2>2, <3>1
    <3>. QED
      BY <1>2, <3>2
<1>6. \A i \in 1..l : (CHOOSE j \in DOMAIN labels : Rank(labels, j) = i) = i
  BY <1>2, <1>5
<1>. QED
  BY <1>2, <1>3, <1>6 DEF Sorted

\* The symbols hold, at their references, these strings.
Resolves(symbols, strings) ==
    \A str \in Range(strings) :
        str \in DOMAIN refs /\ refs[str] \in Nat /\ symbols[refs[str] + 1] = str

\* The references of labels are looked up to the labels.
LEMMA LabelsBack ==
    ASSUME NEW labels \in Labels, NEW symbols, Resolves(symbols, LabelStrings(labels))
    PROVE  desymbolizeLabels(LabelsRefs(labels), symbols) = labels
<1>. DEFINE pairs == Each(labels, LAMBDA l : <<refs[l.Name], refs[l.Value]>>)
            r == LabelsRefs(labels)
            q == [i \in 1..(Len(r) \div 2) |->
                    [Name |-> symbols[r[2 * i - 1] + 1], Value |-> symbols[r[2 * i] + 1]]]
            l == Len(labels)
<1>1. /\ l \in Nat /\ DOMAIN labels = 1..l
      /\ labels = [i \in 1..l |-> labels[i]]
      /\ \A i \in 1..l : labels[i] \in [Name : Strings, Value : Strings]
  <2>1. labels \in Seq([Name : Strings, Value : Strings])
    BY DEF Labels
  <2>2. l \in Nat /\ DOMAIN labels = 1..l /\ labels = [i \in 1..l |-> labels[i]]
    BY <2>1
  <2>3. \A i \in 1..l : labels[i] \in [Name : Strings, Value : Strings]
    BY <2>1, SeqTyped
  <2>. QED
    BY <2>2, <2>3
<1>2. \A i \in 1..l :
        /\ refs[labels[i].Name] \in Nat /\ symbols[refs[labels[i].Name] + 1] = labels[i].Name
        /\ refs[labels[i].Value] \in Nat /\ symbols[refs[labels[i].Value] + 1] = labels[i].Value
  BY LabelStringsOf DEF Resolves
<1>3. pairs = [i \in 1..l |-> <<refs[labels[i].Name], refs[labels[i].Value]>>]
  BY <1>1 DEF Each
<1>4. r = FlattenSeq(pairs)
  BY DEF LabelsRefs
<1>. HIDE DEF pairs, r
<1>5. /\ Parts(pairs, Nat) /\ Len(pairs) = l
      /\ \A i \in 1..l : Len(pairs[i]) = 2
      /\ \A i \in 1..l : pairs[i][1] = refs[labels[i].Name] /\ pairs[i][2] = refs[labels[i].Value]
  <2>1. \A i \in 1..l : /\ pairs[i] \in Seq(Nat) /\ Len(pairs[i]) = 2
                        /\ pairs[i][1] = refs[labels[i].Name] /\ pairs[i][2] = refs[labels[i].Value]
    BY <1>2, <1>3
  <2>. HIDE DEF l
  <2>2. pairs \in [1..l -> Seq(Nat)]
    BY <1>3, <2>1
  <2>3. pairs \in Seq(Seq(Nat)) /\ Len(pairs) = l
    BY <1>1, <2>2
  <2>. QED
    BY <2>1, <2>3 DEF Parts
<1>. HIDE DEF l
<1>6. Len(r) = 2 * l
  BY <1>4, <1>5, PairsFlat
<1>7. \A i \in 1..l : /\ r[2 * i - 1] = refs[labels[i].Name]
                      /\ r[2 * i] = refs[labels[i].Value]
  <2>1. \A i \in 1..Len(pairs) : r[2 * i - 1] = pairs[i][1] /\ r[2 * i] = pairs[i][2]
    <3>1. InPairs(FlattenSeq(pairs), pairs)
      BY <1>5, PairsFlat
    <3>2. InPairs(r, pairs)
      BY <1>4, <3>1
    <3>. QED
      BY <3>2 DEF InPairs
  <2>. QED
    BY <1>5, <2>1
<1>8. Len(r) \div 2 = l
  BY <1>1, <1>6
<1>9. q = labels
  <2>1. \A i \in 1..l : labels[i] = [Name |-> labels[i].Name, Value |-> labels[i].Value]
    BY <1>1
  <2>2. q = [i \in 1..l |-> [Name |-> symbols[r[2 * i - 1] + 1], Value |-> symbols[r[2 * i] + 1]]]
    BY <1>8
  <2>3. \A i \in 1..l : [Name |-> symbols[r[2 * i - 1] + 1], Value |-> symbols[r[2 * i] + 1]] = labels[i]
    BY <1>2, <1>7, <2>1
  <2>. QED
    BY <1>1, <2>2, <2>3
<1>. QED
  BY <1>9, SortedSame DEF desymbolizeLabels, r

\* And their number.
LEMMA LabelsRefsIn ==
    ASSUME NEW labels \in Labels, NEW N,
           \A str \in Range(LabelStrings(labels)) : refs[str] \in N
    PROVE  LabelsRefs(labels) \in Seq(N)
<1>. DEFINE pairs == Each(labels, LAMBDA l : <<refs[l.Name], refs[l.Value]>>)
            l == Len(labels)
<1>1. l \in Nat /\ DOMAIN labels = 1..l
  <2>1. labels \in Seq([Name : Strings, Value : Strings])
    BY DEF Labels
  <2>. QED
    BY <2>1, SeqTyped
<1>2. \A i \in 1..l : refs[labels[i].Name] \in N /\ refs[labels[i].Value] \in N
  BY LabelStringsOf
<1>3. pairs = [i \in 1..l |-> <<refs[labels[i].Name], refs[labels[i].Value]>>]
  BY <1>1 DEF Each
<1>4. LabelsRefs(labels) = FlattenSeq(pairs)
  BY DEF LabelsRefs
<1>. HIDE DEF pairs, l
<1>5. Parts(pairs, N)
  <2>1. \A i \in 1..l : <<refs[labels[i].Name], refs[labels[i].Value]>> \in Seq(N)
    BY <1>2
  <2>2. pairs \in [1..l -> Seq(N)]
    BY <1>3, <2>1
  <2>3. pairs \in Seq(Seq(N))
    BY <1>1, <2>2
  <2>. QED
    BY <2>3 DEF Parts
<1>. QED
  BY <1>4, <1>5, FlattenTyped

-------------------------------------------------------------------------------
(* The conversions of codec.go, there and back.                               *)

\* A sequence by its elements.
LEMMA SeqMade ==
    ASSUME NEW X, NEW n \in Nat, NEW f, f = [i \in 1..n |-> f[i]], \A i \in 1..n : f[i] \in X
    PROVE  f \in Seq(X) /\ Len(f) = n /\ DOMAIN f = 1..n
<1>1. f \in [1..n -> X]
  OBVIOUS
<1>. QED
  BY <1>1

LEMMA SeqIs ==
    ASSUME NEW X, NEW s \in Seq(X)
    PROVE  s = [i \in 1..Len(s) |-> s[i]]
OBVIOUS

LEMMA SpansBack ==
    ASSUME NEW spans \in Seq(Spans)
    PROVE  /\ spansToSpansProto(spans) \in Seq(PlainSpans)
           /\ spansProtoToSpans(spansToSpansProto(spans)) = spans
<1>. DEFINE n == Len(spans)
            p == spansToSpansProto(spans)
<1>1. n \in Nat /\ DOMAIN spans = 1..n /\ \A i \in 1..n : spans[i] \in Spans
  BY SeqTyped
<1>2. spans = [i \in 1..n |-> spans[i]]
  BY SeqIs
<1>3. \A s \in Spans : s = [Offset |-> s.Offset, Length |-> s.Length]
  BY DEF Spans
<1>. DEFINE Is(m, o, l) == m = [NoSpan EXCEPT !.Offset = o, !.Length = l]
<1>4. ASSUME NEW o \in Int64, NEW l \in Int64, NEW m, Is(m, o, l)
      PROVE  m \in PlainSpans /\ m.Offset = o /\ m.Length = l
  <2>1. NoSpan \in SpanMessages /\ NoSpan.unrecognized = <<>>
    BY Int64Int DEF NoSpan, SpanMessages, Payload
  <2>2. m \in SpanMessages /\ m.Offset = o /\ m.Length = l /\ m.unrecognized = NoSpan.unrecognized
    BY <1>4, <2>1 DEF SpanMessages
  <2>. QED
    BY <2>1, <2>2 DEF PlainSpans
<1>. HIDE DEF Is
<1>5. p = [i \in 1..n |-> [NoSpan EXCEPT !.Offset = spans[i].Offset, !.Length = spans[i].Length]]
  BY <1>1 DEF spansToSpansProto, Each
<1>. HIDE DEF n, p
<1>6. \A i \in 1..n : /\ p[i] \in PlainSpans
                      /\ p[i].Offset = spans[i].Offset /\ p[i].Length = spans[i].Length
  <2>. TAKE i \in 1..n
  <2>1. spans[i].Offset \in Int64 /\ spans[i].Length \in Int64
    BY <1>1, Int64Holds DEF Spans
  <2>2. Is(p[i], spans[i].Offset, spans[i].Length)
    BY <1>5 DEF Is
  <2>. QED
    BY <1>4, <2>1, <2>2
<1>11. p = [i \in 1..n |-> p[i]]
  BY <1>5
<1>12. p \in Seq(PlainSpans) /\ DOMAIN p = 1..n
  BY <1>1, <1>11, <1>6, SeqMade
<1>7. spansProtoToSpans(p) = [i \in 1..n |-> [Offset |-> p[i].Offset, Length |-> p[i].Length]]
  BY <1>12 DEF spansProtoToSpans, Each
<1>8. \A i \in 1..n : [Offset |-> p[i].Offset, Length |-> p[i].Length] = spans[i]
  <2>. TAKE i \in 1..n
  <2>1. spans[i] = [Offset |-> spans[i].Offset, Length |-> spans[i].Length]
    BY <1>1, <1>3
  <2>. QED
    BY <1>6, <2>1
<1>9. spansProtoToSpans(p) = spans
  BY <1>2, <1>7, <1>8
<1>. QED
  BY <1>12, <1>9 DEF p

\* What is delivered of samples, inline labels and exemplars.
SampleBackTo(v) == [Value |-> v.Value, Ts |-> v.Timestamp]
InlineBackTo(l) == [Name |-> l.Name, Value |-> l.Value]

LEMMA SamplesBack ==
    ASSUME NEW s \in Series
    PROVE  /\ SamplesOf(s) \in Seq(PlainSamples) /\ Len(SamplesOf(s)) = Len(s.samples)
           /\ Each(SamplesOf(s), SampleBackTo) = s.samples
<1>. DEFINE vs == s.samples
            n == Len(vs)
            p == SamplesOf(s)
            T == [Value : Floats, Ts : Int64]
<1>1. vs \in Seq(T)
  BY SeriesFields
<1>. HIDE DEF vs, T
<1>2. /\ n \in Nat /\ DOMAIN vs = 1..n /\ vs = [i \in 1..n |-> vs[i]]
  BY <1>1, SeqTyped, SeqIs
<1>3. \A i \in 1..n : vs[i] \in T
  BY <1>1, SeqTyped
<1>11. \A v \in T : v = [Value |-> v.Value, Ts |-> v.Ts] /\ v.Value \in Floats /\ v.Ts \in Int64
  BY DEF T
<1>. DEFINE Is(m, v, t) == m = [NoSample EXCEPT !.Value = v, !.Timestamp = t]
<1>4. ASSUME NEW v \in Floats, NEW t \in Int64,
             NEW m, Is(m, v, t)
      PROVE  m \in PlainSamples /\ m.Value = v /\ m.Timestamp = t
  <2>1. NoSample \in SampleMessages /\ NoSample.unrecognized = <<>>
    BY Int64Int DEF NoSample, SampleMessages, Payload, Floats
  <2>2. m \in SampleMessages /\ m.Value = v /\ m.Timestamp = t /\ m.unrecognized = NoSample.unrecognized
    BY <1>4, <2>1 DEF SampleMessages
  <2>. QED
    BY <2>1, <2>2 DEF PlainSamples
<1>. HIDE DEF Is
<1>5. p = [i \in 1..n |-> [NoSample EXCEPT !.Value = vs[i].Value, !.Timestamp = vs[i].Ts]]
  BY <1>2 DEF SamplesOf, Each, vs
<1>. HIDE DEF n, p
<1>6. \A i \in 1..n : /\ p[i] \in PlainSamples
                      /\ p[i].Value = vs[i].Value /\ p[i].Timestamp = vs[i].Ts
  <2>. TAKE i \in 1..n
  <2>1. vs[i].Value \in Floats /\ vs[i].Ts \in Int64
    BY <1>3, <1>11
  <2>2. Is(p[i], vs[i].Value, vs[i].Ts)
    BY <1>5 DEF Is
  <2>. QED
    BY <1>4, <2>1, <2>2
<1>12. p = [i \in 1..n |-> p[i]]
  BY <1>5
<1>7. p \in Seq(PlainSamples) /\ DOMAIN p = 1..n /\ Len(p) = n
  BY <1>2, <1>12, <1>6, SeqMade
<1>8. Each(p, SampleBackTo) = [i \in 1..n |-> [Value |-> p[i].Value, Ts |-> p[i].Timestamp]]
  BY <1>7 DEF SampleBackTo, Each
<1>9. \A i \in 1..n : [Value |-> p[i].Value, Ts |-> p[i].Timestamp] = vs[i]
  <2>. TAKE i \in 1..n
  <2>1. vs[i] = [Value |-> vs[i].Value, Ts |-> vs[i].Ts]
    BY <1>3, <1>11
  <2>. QED
    BY <1>6, <2>1
<1>10. Each(p, SampleBackTo) = vs
  BY <1>2, <1>8, <1>9
<1>. QED
  BY <1>7, <1>10 DEF p, vs, n

LEMMA InlineBack ==
    ASSUME NEW s \in Series
    PROVE  /\ InlineOf(s) \in Seq(PlainLabels) /\ Len(InlineOf(s)) = Len(s.inline)
           /\ Each(InlineOf(s), InlineBackTo) = s.inline
<1>. DEFINE vs == s.inline
            n == Len(vs)
            p == InlineOf(s)
            T == [Name : Seq(Bytes), Value : Seq(Bytes)]
<1>1. vs \in Seq(T)
  BY SeriesFields
<1>. HIDE DEF vs, T
<1>2. /\ n \in Nat /\ DOMAIN vs = 1..n /\ vs = [i \in 1..n |-> vs[i]]
  BY <1>1, SeqTyped, SeqIs
<1>3. \A i \in 1..n : vs[i] \in T
  BY <1>1, SeqTyped
<1>11. \A v \in T : v = [Name |-> v.Name, Value |-> v.Value] /\ v.Name \in Payload /\ v.Value \in Payload
  BY DEF T, Payload
<1>. DEFINE Is(m, v, t) == m = [NoLabel EXCEPT !.Name = v, !.Value = t]
<1>4. ASSUME NEW v \in Payload, NEW t \in Payload,
             NEW m, Is(m, v, t)
      PROVE  m \in PlainLabels /\ m.Name = v /\ m.Value = t
  <2>1. NoLabel \in LabelMessages /\ NoLabel.unrecognized = <<>>
    BY DEF NoLabel, LabelMessages, Payload
  <2>2. m \in LabelMessages /\ m.Name = v /\ m.Value = t /\ m.unrecognized = NoLabel.unrecognized
    BY <1>4, <2>1 DEF LabelMessages
  <2>. QED
    BY <2>1, <2>2 DEF PlainLabels
<1>. HIDE DEF Is
<1>5. p = [i \in 1..n |-> [NoLabel EXCEPT !.Name = vs[i].Name, !.Value = vs[i].Value]]
  BY <1>2 DEF InlineOf, Each, vs
<1>. HIDE DEF n, p
<1>6. \A i \in 1..n : /\ p[i] \in PlainLabels
                      /\ p[i].Name = vs[i].Name /\ p[i].Value = vs[i].Value
  <2>. TAKE i \in 1..n
  <2>1. vs[i].Name \in Payload /\ vs[i].Value \in Payload
    BY <1>3, <1>11
  <2>2. Is(p[i], vs[i].Name, vs[i].Value)
    BY <1>5 DEF Is
  <2>. QED
    BY <1>4, <2>1, <2>2
<1>12. p = [i \in 1..n |-> p[i]]
  BY <1>5
<1>7. p \in Seq(PlainLabels) /\ DOMAIN p = 1..n /\ Len(p) = n
  BY <1>2, <1>12, <1>6, SeqMade
<1>8. Each(p, InlineBackTo) = [i \in 1..n |-> [Name |-> p[i].Name, Value |-> p[i].Value]]
  BY <1>7 DEF InlineBackTo, Each
<1>9. \A i \in 1..n : [Name |-> p[i].Name, Value |-> p[i].Value] = vs[i]
  <2>. TAKE i \in 1..n
  <2>1. vs[i] = [Name |-> vs[i].Name, Value |-> vs[i].Value]
    BY <1>3, <1>11
  <2>. QED
    BY <1>6, <2>1
<1>10. Each(p, InlineBackTo) = vs
  BY <1>2, <1>8, <1>9
<1>. QED
  BY <1>7, <1>10 DEF p, vs, n

\* Exemplars: their labels are referenced, and one at time 0 has none.
LEMMA ExemplarsPlain ==
    ASSUME NEW s \in Series, \A str \in Range(SeriesStrings(s)) : refs[str] \in Int64
    PROVE  ExemplarsOf(s) \in Seq(PlainExemplars) /\ Len(ExemplarsOf(s)) = Len(s.exemplars)
<1>. DEFINE es == s.exemplars
            n == Len(es)
            p == ExemplarsOf(s)
<1>1. es \in Seq(Exemplars)
  BY SeriesFields
<1>2. \A i \in 1..n : Range(LabelStrings(es[i].Labels)) \subseteq Range(SeriesStrings(s))
  BY SeriesStringsOf
<1>3. p = [i \in DOMAIN es |->
            [NoExemplar EXCEPT !.LabelsRefs = LabelsRefs(es[i].Labels),
                               !.Value = es[i].Value, !.Timestamp = es[i].Ts]]
  BY DEF ExemplarsOf, Each
<1>. HIDE DEF es, p
<1>4. n \in Nat /\ DOMAIN es = 1..n /\ \A i \in 1..n : es[i] \in Exemplars
  BY <1>1, SeqTyped
<1>5. \A i \in 1..n : /\ LabelsRefs(es[i].Labels) \in Seq(Int64)
                      /\ es[i].Value \in Floats /\ es[i].Ts \in Int64
  <2>. TAKE i \in 1..n
  <2>1. es[i].Labels \in Labels /\ es[i].Value \in Floats /\ es[i].Ts \in Int64
    BY <1>4 DEF Exemplars
  <2>2. \A str \in Range(LabelStrings(es[i].Labels)) : refs[str] \in Int64
    BY <1>2
  <2>. QED
    BY <2>1, <2>2, LabelsRefsIn
<1>. HIDE DEF n
<1>6. ASSUME NEW r \in Seq(Int64), NEW v \in Floats, NEW ts \in Int64,
             NEW m, m = [NoExemplar EXCEPT !.LabelsRefs = r, !.Value = v, !.Timestamp = ts]
      PROVE  m \in PlainExemplars
  <2>1. NoExemplar \in ExemplarMessages(Int64) /\ NoExemplar.unrecognized = <<>>
    BY Int64Int DEF NoExemplar, ExemplarMessages, Payload, Floats
  <2>2. m \in ExemplarMessages(Int64) /\ m.unrecognized = NoExemplar.unrecognized
    BY <1>6, <2>1 DEF ExemplarMessages
  <2>. QED
    BY <2>1, <2>2 DEF PlainExemplars
<1>7. \A i \in 1..n : p[i] \in PlainExemplars
  BY <1>3, <1>4, <1>5, <1>6
<1>8. p = [i \in 1..n |-> p[i]]
  BY <1>3, <1>4
<1>. QED
  BY <1>4, <1>7, <1>8, SeqMade DEF n, es, p

ExemplarsReturn(s, symbols) ==
    Each(ExemplarsOf(s), LAMBDA e : ToExemplar(e, symbols)) = s.exemplars

LEMMA ExemplarsBackTo ==
    ASSUME NEW s \in Series, NEW symbols, Resolves(symbols, SeriesStrings(s))
    PROVE  ExemplarsReturn(s, symbols)
<1>. DEFINE es == s.exemplars
            n == Len(es)
            p == ExemplarsOf(s)
<1>1. es \in Seq(Exemplars)
  BY SeriesFields
<1>2. \A i \in 1..n : Range(LabelStrings(es[i].Labels)) \subseteq Range(SeriesStrings(s))
  BY SeriesStringsOf
<1>3. p = [i \in DOMAIN es |->
            [NoExemplar EXCEPT !.LabelsRefs = LabelsRefs(es[i].Labels),
                               !.Value = es[i].Value, !.Timestamp = es[i].Ts]]
  BY DEF ExemplarsOf, Each
<1>. HIDE DEF es, p
<1>4. n \in Nat /\ DOMAIN es = 1..n /\ \A i \in 1..n : es[i] \in Exemplars
  BY <1>1, SeqTyped
<1>5. es = [i \in 1..n |-> es[i]]
  BY <1>1, SeqIs
<1>. HIDE DEF n
<1>6. ASSUME NEW i \in 1..n
      PROVE  ToExemplar(p[i], symbols) = es[i]
  <2>. DEFINE e == es[i]
              r == LabelsRefs(e.Labels)
  <2>1. e \in Exemplars
    BY <1>4
  <2>2. /\ e.Labels \in Labels /\ e = [Labels |-> e.Labels, Value |-> e.Value, Ts |-> e.Ts, HasTs |-> e.HasTs]
        /\ e.HasTs \in BOOLEAN /\ (e.HasTs <=> e.Ts # 0)
    BY <2>1 DEF Exemplars
  <2>3. Resolves(symbols, LabelStrings(e.Labels))
    BY <1>2 DEF Resolves
  <2>4. desymbolizeLabels(r, symbols) = e.Labels
    BY <2>2, <2>3, LabelsBack
  <2>5. p[i] = [NoExemplar EXCEPT !.LabelsRefs = r, !.Value = e.Value, !.Timestamp = e.Ts]
    BY <1>3, <1>4
  <2>6. p[i].LabelsRefs = r /\ p[i].Value = e.Value /\ p[i].Timestamp = e.Ts
    BY <2>5 DEF NoExemplar
  <2>. HIDE DEF e, r
  <2>7. ToExemplar(p[i], symbols)
          = [Labels |-> desymbolizeLabels(p[i].LabelsRefs, symbols), Value |-> p[i].Value,
             Ts |-> p[i].Timestamp, HasTs |-> p[i].Timestamp # 0]
    BY DEF ToExemplar
  <2>8. ToExemplar(p[i], symbols)
          = [Labels |-> e.Labels, Value |-> e.Value, Ts |-> e.Ts, HasTs |-> e.Ts # 0]
    BY <2>4, <2>6, <2>7
  <2>9. (e.Ts # 0) = e.HasTs
    BY <2>2
  <2>. QED
    BY <2>2, <2>8, <2>9 DEF e
<1>7. DOMAIN p = 1..n
  BY <1>3, <1>4
<1>8. Each(p, LAMBDA e : ToExemplar(e, symbols)) = [i \in 1..n |-> ToExemplar(p[i], symbols)]
  BY <1>7 DEF Each
<1>9. Each(p, LAMBDA e : ToExemplar(e, symbols)) = es
  BY <1>5, <1>6, <1>8
<1>. QED
  BY <1>9 DEF p, es, ExemplarsReturn

\* The message of a histogram: what both kinds have, and each.
Holds(m, ts, h) ==
    /\ m \in HistogramMessages
    /\ m.Sum = h.Sum /\ m.Schema = h.Schema /\ m.ZeroThreshold = h.ZeroThreshold
    /\ m.NegativeSpans = spansToSpansProto(h.NegativeSpans)
    /\ m.PositiveSpans = spansToSpansProto(h.PositiveSpans)
    /\ m.ResetHint = h.CounterResetHint /\ m.CustomValues = h.CustomValues
    /\ m.Timestamp = ts /\ m.unrecognized = <<>>
HoldsInts(m, h) ==
    /\ m.Count = IntCount(h.Count) /\ m.ZeroCount = IntCount(h.ZeroCount)
    /\ m.NegativeDeltas = h.NegativeBuckets /\ m.PositiveDeltas = h.PositiveBuckets
    /\ m.NegativeCounts = <<>> /\ m.PositiveCounts = <<>>
HoldsFloats(m, h) ==
    /\ m.Count = FloatCount(h.Count) /\ m.ZeroCount = FloatCount(h.ZeroCount)
    /\ m.NegativeCounts = h.NegativeBuckets /\ m.PositiveCounts = h.PositiveBuckets
    /\ m.NegativeDeltas = <<>> /\ m.PositiveDeltas = <<>>

LEMMA HistogramFromHolds ==
    ASSUME NEW ts \in Int64, NEW number, NEW h \in Histograms(number),
           NEW m, m = HistogramFrom(ts, h)
    PROVE  /\ Holds(m, ts, h)
           /\ m.NegativeDeltas = <<>> /\ m.PositiveDeltas = <<>>
           /\ m.NegativeCounts = <<>> /\ m.PositiveCounts = <<>>
<1>. DEFINE sum == h.Sum
            schema == h.Schema
            threshold == h.ZeroThreshold
            negative == spansToSpansProto(h.NegativeSpans)
            positive == spansToSpansProto(h.PositiveSpans)
            hint == h.CounterResetHint
            bounds == h.CustomValues
<1>1. m = [NoHistogram EXCEPT !.Sum = sum, !.Schema = schema, !.ZeroThreshold = threshold,
                              !.NegativeSpans = negative, !.PositiveSpans = positive,
                              !.ResetHint = hint, !.CustomValues = bounds,
                              !.Timestamp = ts]
  BY DEF HistogramFrom
<1>2. m \in HistogramMessages
  BY HistogramFromTyped
<1>3. NoHistogram \in HistogramMessages
  BY NoHistogramTyped
<1>4. /\ NoHistogram.unrecognized = <<>>
      /\ NoHistogram.NegativeDeltas = <<>> /\ NoHistogram.PositiveDeltas = <<>>
      /\ NoHistogram.NegativeCounts = <<>> /\ NoHistogram.PositiveCounts = <<>>
  BY DEF NoHistogram
<1>. HIDE DEF sum, schema, threshold, negative, positive, hint, bounds
<1>5. /\ m.Sum = sum /\ m.Schema = schema /\ m.ZeroThreshold = threshold
      /\ m.NegativeSpans = negative /\ m.PositiveSpans = positive
      /\ m.ResetHint = hint /\ m.CustomValues = bounds /\ m.Timestamp = ts
      /\ m.unrecognized = NoHistogram.unrecognized
      /\ m.NegativeDeltas = NoHistogram.NegativeDeltas
      /\ m.PositiveDeltas = NoHistogram.PositiveDeltas
      /\ m.NegativeCounts = NoHistogram.NegativeCounts
      /\ m.PositiveCounts = NoHistogram.PositiveCounts
  BY <1>1, <1>3 DEF HistogramMessages
<1>6. Holds(m, ts, h)
  BY <1>2, <1>4, <1>5 DEF Holds, sum, schema, threshold, negative, positive, hint, bounds
<1>. QED
  BY <1>4, <1>5, <1>6

LEMMA IntHistogramHolds ==
    ASSUME NEW ts \in Int64, NEW h \in Histograms(Int64), NEW m, m = FromIntHistogram(ts, h)
    PROVE  Holds(m, ts, h) /\ HoldsInts(m, h)
<1>. DEFINE b == HistogramFrom(ts, h)
            count == IntCount(h.Count)
            zero == IntCount(h.ZeroCount)
            negative == h.NegativeBuckets
            positive == h.PositiveBuckets
<1>1. /\ Holds(b, ts, h)
      /\ b.NegativeCounts = <<>> /\ b.PositiveCounts = <<>>
  BY HistogramFromHolds
<1>2. m = [b EXCEPT !.Count = count, !.ZeroCount = zero,
                    !.NegativeDeltas = negative, !.PositiveDeltas = positive]
  BY DEF FromIntHistogram
<1>3. /\ count \in Counts /\ zero \in Counts
      /\ negative \in Seq(Int64) /\ positive \in Seq(Int64)
  BY HistogramHolds DEF IntCount, Counts
<1>. HIDE DEF b, count, zero, negative, positive
<1>4. b \in HistogramMessages
  BY <1>1 DEF Holds
<1>5. m \in HistogramMessages
  <2>1. [b EXCEPT !.Count = count, !.ZeroCount = zero,
                  !.NegativeDeltas = negative, !.PositiveDeltas = positive] \in HistogramMessages
    BY <1>3, <1>4, IntFieldsTyped
  <2>. QED
    BY <1>2, <2>1
<1>6. /\ m.Count = count /\ m.ZeroCount = zero
      /\ m.NegativeDeltas = negative /\ m.PositiveDeltas = positive
      /\ m.NegativeCounts = b.NegativeCounts /\ m.PositiveCounts = b.PositiveCounts
  BY <1>2, <1>4 DEF HistogramMessages
<1>7. /\ m.Sum = b.Sum /\ m.Schema = b.Schema /\ m.ZeroThreshold = b.ZeroThreshold
      /\ m.NegativeSpans = b.NegativeSpans /\ m.PositiveSpans = b.PositiveSpans
      /\ m.ResetHint = b.ResetHint /\ m.CustomValues = b.CustomValues
      /\ m.Timestamp = b.Timestamp /\ m.unrecognized = b.unrecognized
  BY <1>2, <1>4 DEF HistogramMessages
<1>8. Holds(m, ts, h)
  BY <1>1, <1>5, <1>7 DEF Holds
<1>9. HoldsInts(m, h)
  BY <1>1, <1>6 DEF HoldsInts, count, zero, negative, positive
<1>. QED
  BY <1>8, <1>9

LEMMA FloatHistogramHolds ==
    ASSUME NEW ts \in Int64, NEW h \in Histograms(Floats), NEW m, m = FromFloatHistogram(ts, h)
    PROVE  Holds(m, ts, h) /\ HoldsFloats(m, h)
<1>. DEFINE b == HistogramFrom(ts, h)
            count == FloatCount(h.Count)
            zero == FloatCount(h.ZeroCount)
            negative == h.NegativeBuckets
            positive == h.PositiveBuckets
<1>1. /\ Holds(b, ts, h)
      /\ b.NegativeDeltas = <<>> /\ b.PositiveDeltas = <<>>
  BY HistogramFromHolds
<1>2. m = [b EXCEPT !.Count = count, !.ZeroCount = zero,
                    !.NegativeCounts = negative, !.PositiveCounts = positive]
  BY DEF FromFloatHistogram
<1>3. /\ count \in Counts /\ zero \in Counts
      /\ negative \in Seq(Floats) /\ positive \in Seq(Floats)
  BY HistogramHolds DEF FloatCount, Counts
<1>. HIDE DEF b, count, zero, negative, positive
<1>4. b \in HistogramMessages
  BY <1>1 DEF Holds
<1>5. m \in HistogramMessages
  <2>1. [b EXCEPT !.Count = count, !.ZeroCount = zero,
                  !.NegativeCounts = negative, !.PositiveCounts = positive] \in HistogramMessages
    BY <1>3, <1>4, FloatFieldsTyped
  <2>. QED
    BY <1>2, <2>1
<1>6. /\ m.Count = count /\ m.ZeroCount = zero
      /\ m.NegativeCounts = negative /\ m.PositiveCounts = positive
      /\ m.NegativeDeltas = b.NegativeDeltas /\ m.PositiveDeltas = b.PositiveDeltas
  BY <1>2, <1>4 DEF HistogramMessages
<1>7. /\ m.Sum = b.Sum /\ m.Schema = b.Schema /\ m.ZeroThreshold = b.ZeroThreshold
      /\ m.NegativeSpans = b.NegativeSpans /\ m.PositiveSpans = b.PositiveSpans
      /\ m.ResetHint = b.ResetHint /\ m.CustomValues = b.CustomValues
      /\ m.Timestamp = b.Timestamp /\ m.unrecognized = b.unrecognized
  BY <1>2, <1>4 DEF HistogramMessages
<1>8. Holds(m, ts, h)
  BY <1>1, <1>5, <1>7 DEF Holds
<1>9. HoldsFloats(m, h)
  BY <1>1, <1>6 DEF HoldsFloats, count, zero, negative, positive
<1>. QED
  BY <1>8, <1>9

\* The native histograms of a series, as messages.
Natives ==
    [float : {FALSE}, Ts : Int64, h : Histograms(Int64)]
      \cup [float : {TRUE}, Ts : Int64, h : Histograms(Floats)]
HistogramMade(x) ==
    IF x.float THEN FromFloatHistogram(x.Ts, x.h) ELSE FromIntHistogram(x.Ts, x.h)

LEMMA NativeIs ==
    ASSUME NEW x \in Natives
    PROVE  /\ x = [float |-> x.float, Ts |-> x.Ts, h |-> x.h] /\ x.Ts \in Int64
           /\ \/ x.float = FALSE /\ x.h \in Histograms(Int64)
              \/ x.float = TRUE /\ x.h \in Histograms(Floats)
<1>1. CASE x \in [float : {FALSE}, Ts : Int64, h : Histograms(Int64)]
  BY <1>1
<1>2. CASE x \in [float : {TRUE}, Ts : Int64, h : Histograms(Floats)]
  BY <1>2
<1>. QED
  BY <1>1, <1>2 DEF Natives

LEMMA HistogramMadeHolds ==
    ASSUME NEW x \in Natives, NEW m, m = HistogramMade(x)
    PROVE  /\ Holds(m, x.Ts, x.h)
           /\ x.float => HoldsFloats(m, x.h)
           /\ ~x.float => HoldsInts(m, x.h)
<1>1. CASE x.float = FALSE /\ x.h \in Histograms(Int64)
  <2>1. m = FromIntHistogram(x.Ts, x.h) /\ x.Ts \in Int64
    BY <1>1, NativeIs DEF HistogramMade
  <2>2. Holds(m, x.Ts, x.h) /\ HoldsInts(m, x.h)
    BY <1>1, <2>1, IntHistogramHolds
  <2>. QED
    BY <1>1, <2>2
<1>2. CASE x.float = TRUE /\ x.h \in Histograms(Floats)
  <2>1. m = FromFloatHistogram(x.Ts, x.h) /\ x.Ts \in Int64
    BY <1>2, NativeIs DEF HistogramMade
  <2>2. Holds(m, x.Ts, x.h) /\ HoldsFloats(m, x.h)
    BY <1>2, <2>1, FloatHistogramHolds
  <2>. QED
    BY <1>2, <2>2
<1>. QED
  BY <1>1, <1>2, NativeIs

LEMMA HistogramPlain ==
    ASSUME NEW x \in Natives
    PROVE  HistogramMade(x) \in PlainHistograms
<1>. DEFINE m == HistogramMade(x)
<1>1. Holds(m, x.Ts, x.h)
  BY HistogramMadeHolds
<1>2. \E number : x.h \in Histograms(number)
  BY NativeIs
<1>3. x.h.NegativeSpans \in Seq(Spans) /\ x.h.PositiveSpans \in Seq(Spans)
  BY <1>2, HistogramHolds
<1>. HIDE DEF m
<1>4. m.NegativeSpans \in Seq(PlainSpans) /\ m.PositiveSpans \in Seq(PlainSpans)
  BY <1>1, <1>3, SpansBack DEF Holds
<1>5. m \in PlainHistograms
  BY <1>1, <1>4 DEF Holds, PlainHistograms
<1>. QED
  BY <1>5 DEF m

\* And back.
HistogramBackTo(m) ==
    [float |-> IsFloatHistogram(m), Ts |-> m.Timestamp,
     h |-> IF IsFloatHistogram(m) THEN ToFloatHistogram(m) ELSE ToIntHistogram(m)]

LEMMA HistogramIs ==
    ASSUME NEW number, NEW h \in Histograms(number)
    PROVE  h = [CounterResetHint |-> h.CounterResetHint, Schema |-> h.Schema,
                ZeroThreshold |-> h.ZeroThreshold, ZeroCount |-> h.ZeroCount,
                Count |-> h.Count, Sum |-> h.Sum,
                PositiveSpans |-> h.PositiveSpans, PositiveBuckets |-> h.PositiveBuckets,
                NegativeSpans |-> h.NegativeSpans, NegativeBuckets |-> h.NegativeBuckets,
                CustomValues |-> h.CustomValues]
BY DEF Histograms

LEMMA HistogramToBack ==
    ASSUME NEW number, NEW h \in Histograms(number), NEW m, NEW ts, Holds(m, ts, h),
           NEW is, GetOneof(m.ZeroCount, is) = h.ZeroCount, GetOneof(m.Count, is) = h.Count
    PROVE  HistogramTo(m, is, h.NegativeBuckets, h.PositiveBuckets) = h
<1>1. h.NegativeSpans \in Seq(Spans) /\ h.PositiveSpans \in Seq(Spans)
  BY HistogramHolds
<1>2. /\ spansProtoToSpans(m.NegativeSpans) = h.NegativeSpans
      /\ spansProtoToSpans(m.PositiveSpans) = h.PositiveSpans
  BY <1>1, SpansBack DEF Holds
<1>3. /\ m.Sum = h.Sum /\ m.Schema = h.Schema /\ m.ZeroThreshold = h.ZeroThreshold
      /\ m.ResetHint = h.CounterResetHint /\ m.CustomValues = h.CustomValues
  BY DEF Holds
<1>4. HistogramTo(m, is, h.NegativeBuckets, h.PositiveBuckets)
        = [CounterResetHint |-> m.ResetHint, Schema |-> m.Schema,
           ZeroThreshold |-> m.ZeroThreshold, ZeroCount |-> GetOneof(m.ZeroCount, is),
           Count |-> GetOneof(m.Count, is), Sum |-> m.Sum,
           PositiveSpans |-> spansProtoToSpans(m.PositiveSpans),
           PositiveBuckets |-> h.PositiveBuckets,
           NegativeSpans |-> spansProtoToSpans(m.NegativeSpans),
           NegativeBuckets |-> h.NegativeBuckets, CustomValues |-> m.CustomValues]
  BY DEF HistogramTo
<1>. QED
  BY <1>2, <1>3, <1>4, HistogramIs

LEMMA HistogramBackIs ==
    ASSUME NEW x \in Natives
    PROVE  HistogramBackTo(HistogramMade(x)) = x
<1>. DEFINE m == HistogramMade(x)
            h == x.h
<1>1. /\ Holds(m, x.Ts, h)
      /\ x.float => HoldsFloats(m, h)
      /\ ~x.float => HoldsInts(m, h)
  BY HistogramMadeHolds
<1>2. /\ x = [float |-> x.float, Ts |-> x.Ts, h |-> h]
      /\ \/ x.float = FALSE /\ h \in Histograms(Int64)
         \/ x.float = TRUE /\ h \in Histograms(Floats)
  BY NativeIs
<1>. HIDE DEF m, h
<1>3. m.Timestamp = x.Ts
  BY <1>1 DEF Holds
<1>4. CASE x.float = FALSE /\ h \in Histograms(Int64)
  <2>1. HoldsInts(m, h)
    BY <1>1, <1>4
  <2>2. /\ IsFloatHistogram(m) = FALSE
        /\ GetOneof(m.ZeroCount, "int") = h.ZeroCount /\ GetOneof(m.Count, "int") = h.Count
    BY <2>1 DEF HoldsInts, IsFloatHistogram, IntCount, GetOneof
  <2>3. ToIntHistogram(m) = HistogramTo(m, "int", h.NegativeBuckets, h.PositiveBuckets)
    BY <2>1 DEF HoldsInts, ToIntHistogram
  <2>4. ToIntHistogram(m) = h
    BY <1>1, <1>4, <2>2, <2>3, HistogramToBack
  <2>. QED
    BY <1>2, <1>3, <1>4, <2>2, <2>4 DEF HistogramBackTo, m
<1>5. CASE x.float = TRUE /\ h \in Histograms(Floats)
  <2>1. HoldsFloats(m, h)
    BY <1>1, <1>5
  <2>2. /\ IsFloatHistogram(m) = TRUE
        /\ GetOneof(m.ZeroCount, "float") = h.ZeroCount /\ GetOneof(m.Count, "float") = h.Count
    BY <2>1 DEF HoldsFloats, IsFloatHistogram, FloatCount, GetOneof
  <2>3. ToFloatHistogram(m) = HistogramTo(m, "float", h.NegativeBuckets, h.PositiveBuckets)
    BY <2>1, <2>2 DEF HoldsFloats, ToFloatHistogram
  <2>4. ToFloatHistogram(m) = h
    BY <1>1, <1>5, <2>2, <2>3, HistogramToBack
  <2>. QED
    BY <1>2, <1>3, <1>5, <2>2, <2>4 DEF HistogramBackTo, m
<1>. QED
  BY <1>2, <1>4, <1>5

LEMMA HistogramsBack ==
    ASSUME NEW s \in Series
    PROVE  /\ HistogramsOf(s) \in Seq(PlainHistograms)
           /\ Len(HistogramsOf(s)) = Len(s.hists)
           /\ \A i \in 1..Len(s.hists) : s.hists[i] \in Natives
           /\ \A i \in 1..Len(s.hists) : HistogramsOf(s)[i] = HistogramMade(s.hists[i])
           /\ Each(HistogramsOf(s), HistogramBackTo) = s.hists
<1>. DEFINE hs == s.hists
            n == Len(hs)
            p == HistogramsOf(s)
<1>1. hs \in Seq(Natives)
  BY SeriesFields DEF Natives
<1>2. p = [i \in DOMAIN hs |-> HistogramMade(hs[i])]
  BY DEF HistogramsOf, Each, HistogramMade
<1>. HIDE DEF hs, p
<1>3. n \in Nat /\ DOMAIN hs = 1..n /\ \A i \in 1..n : hs[i] \in Natives
  BY <1>1, SeqTyped
<1>4. hs = [i \in 1..n |-> hs[i]]
  BY <1>1, SeqIs
<1>. HIDE DEF n
<1>5. \A i \in 1..n : p[i] \in PlainHistograms /\ p[i] = HistogramMade(hs[i])
  BY <1>2, <1>3, HistogramPlain
<1>6. p = [i \in 1..n |-> p[i]]
  BY <1>2, <1>3
<1>7. p \in Seq(PlainHistograms) /\ Len(p) = n /\ DOMAIN p = 1..n
  BY <1>3, <1>5, <1>6, SeqMade
<1>8. Each(p, HistogramBackTo) = [i \in 1..n |-> HistogramBackTo(p[i])]
  BY <1>7 DEF Each
<1>9. \A i \in 1..n : HistogramBackTo(p[i]) = hs[i]
  BY <1>3, <1>5, HistogramBackIs
<1>10. Each(p, HistogramBackTo) = hs
  BY <1>4, <1>8, <1>9
<1>. QED
  BY <1>3, <1>5, <1>7, <1>10 DEF hs, p, n

\* The type of the metadata, and its strings.
MetadataTypes == {MetricTypes[n] : n \in DOMAIN MetricTypes} \cup {"unknown"}

LEMMA TypeBack ==
    ASSUME NEW t \in MetadataTypes
    PROVE  TypeOf(FromMetadataType(t)) = t
<1>1. CASE t \in Range(MetricTypes)
  <2>1. \E n \in DOMAIN MetricTypes : MetricTypes[n] = t
    BY <1>1 DEF Range
  <2>2. FromMetadataType(t) = CHOOSE n \in DOMAIN MetricTypes : MetricTypes[n] = t
    BY <1>1 DEF FromMetadataType
  <2>3. FromMetadataType(t) \in DOMAIN MetricTypes /\ MetricTypes[FromMetadataType(t)] = t
    BY <2>1, <2>2
  <2>. QED
    BY <2>3 DEF TypeOf
<1>2. CASE t \notin Range(MetricTypes)
  <2>1. t = "unknown"
    BY <1>2 DEF MetadataTypes, Range
  <2>2. FromMetadataType(t) = 0
    BY <1>2 DEF FromMetadataType
  <2>3. 0 \notin DOMAIN MetricTypes
    BY DEF MetricTypes
  <2>. QED
    BY <2>1, <2>2, <2>3 DEF TypeOf
<1>. QED
  BY <1>1, <1>2

\* The message of a series.
ProtoHolds(m, s) ==
    /\ m.LabelsRefs = LabelsRefs(s.labels) /\ m.Samples = SamplesOf(s)
    /\ m.Exemplars = ExemplarsOf(s) /\ m.Histograms = HistogramsOf(s)
    /\ m.Metadata = MetadataOf(s) /\ m.CreatedTimestamp = s.created
    /\ m.Labels = InlineOf(s) /\ m.unrecognized = <<>>

LEMMA MetadataPlain ==
    ASSUME NEW s \in Series, \A str \in Range(SeriesStrings(s)) : refs[str] \in Int64
    PROVE  /\ MetadataOf(s) \in PlainMetadata
           /\ MetadataOf(s).Type = FromMetadataType(s.Type)
           /\ MetadataOf(s).UnitRef = refs[s.Unit] /\ MetadataOf(s).HelpRef = refs[s.Help]
<1>. DEFINE t == FromMetadataType(s.Type)
            u == refs[s.Unit]
            h == refs[s.Help]
            m == MetadataOf(s)
<1>1. t \in Int64 /\ u \in Int64 /\ h \in Int64
  BY SeriesStringsOf, MetadataTypeOf
<1>2. m = [NoMetadata EXCEPT !.Type = t, !.UnitRef = u, !.HelpRef = h]
  BY DEF MetadataOf
<1>3. NoMetadata \in MetadataMessages(Int64) /\ NoMetadata.unrecognized = <<>>
  BY Int64Int DEF NoMetadata, MetadataMessages, Payload
<1>. HIDE DEF t, u, h, m
<1>4. /\ m \in MetadataMessages(Int64) /\ m.Type = t /\ m.UnitRef = u /\ m.HelpRef = h
      /\ m.unrecognized = NoMetadata.unrecognized
  BY <1>1, <1>2, <1>3 DEF MetadataMessages
<1>. QED
  BY <1>3, <1>4 DEF PlainMetadata, t, u, h, m

LEMMA SeriesPlain ==
    ASSUME NEW s \in Series, \A str \in Range(SeriesStrings(s)) : refs[str] \in Int64
    PROVE  ToProto(s) \in PlainSeries /\ ProtoHolds(ToProto(s), s)
<1>. DEFINE m == ToProto(s)
            l == LabelsRefs(s.labels)
            a == SamplesOf(s)
            e == ExemplarsOf(s)
            h == HistogramsOf(s)
            d == MetadataOf(s)
            c == s.created
            i == InlineOf(s)
<1>1. m = [NoSeries EXCEPT !.LabelsRefs = l, !.Samples = a, !.Exemplars = e,
                           !.Histograms = h, !.Metadata = d,
                           !.CreatedTimestamp = c, !.Labels = i]
  BY DEF ToProto, SamplesOf, ExemplarsOf, HistogramsOf, MetadataOf, InlineOf
<1>2. l \in Seq(Int64)
  <2>1. s.labels \in Labels
    BY SeriesFields
  <2>2. \A str \in Range(LabelStrings(s.labels)) : refs[str] \in Int64
    BY SeriesStringsOf
  <2>. QED
    BY <2>1, <2>2, LabelsRefsIn
<1>3. /\ a \in Seq(PlainSamples) /\ e \in Seq(PlainExemplars) /\ h \in Seq(PlainHistograms)
      /\ d \in PlainMetadata /\ c \in Int64 /\ i \in Seq(PlainLabels)
  BY SeriesFields, SamplesBack, ExemplarsPlain, HistogramsBack, MetadataPlain, InlineBack
<1>4. /\ a \in Seq(SampleMessages) /\ e \in Seq(ExemplarMessages(Int64))
      /\ h \in Seq(HistogramMessages) /\ d \in MetadataMessages(Int64)
      /\ i \in Seq(LabelMessages)
  <2>1. \A A, B : A \subseteq B => Seq(A) \subseteq Seq(B)
    OBVIOUS
  <2>2. /\ PlainSamples \subseteq SampleMessages /\ PlainExemplars \subseteq ExemplarMessages(Int64)
        /\ PlainHistograms \subseteq HistogramMessages /\ PlainLabels \subseteq LabelMessages
        /\ PlainMetadata \subseteq MetadataMessages(Int64)
    BY DEF PlainSamples, PlainExemplars, PlainHistograms, PlainLabels, PlainMetadata
  <2>. HIDE DEF a, e, h, d, i
  <2>. QED
    BY <1>3, <2>1, <2>2
<1>5. NoSeries \in SeriesMessages(Int64) /\ NoSeries.unrecognized = <<>>
  <2>1. NoMetadata \in MetadataMessages(Int64)
    BY Int64Int DEF NoMetadata, MetadataMessages, Payload
  <2>. QED
    BY <2>1, Int64Int DEF NoSeries, SeriesMessages, Payload
<1>. HIDE DEF m, l, a, e, h, d, c, i
<1>6. m \in SeriesMessages(Int64)
  BY <1>1, <1>2, <1>3, <1>4, <1>5 DEF SeriesMessages
<1>7. /\ m.LabelsRefs = l /\ m.Samples = a /\ m.Exemplars = e /\ m.Histograms = h
      /\ m.Metadata = d /\ m.CreatedTimestamp = c /\ m.Labels = i
      /\ m.unrecognized = NoSeries.unrecognized
  BY <1>1, <1>5 DEF SeriesMessages
<1>8. m \in PlainSeries
  BY <1>3, <1>5, <1>6, <1>7 DEF PlainSeries
<1>. QED
  BY <1>5, <1>7, <1>8 DEF ProtoHolds, m, l, a, e, h, d, c, i

LEMMA SeriesIs ==
    ASSUME NEW s \in Series
    PROVE  /\ s = [labels |-> s.labels, inline |-> s.inline, Type |-> s.Type, Unit |-> s.Unit,
                   Help |-> s.Help, samples |-> s.samples, exemplars |-> s.exemplars,
                   hists |-> s.hists, created |-> s.created]
           /\ s.Type \in MetadataTypes
BY DEF Series, MetadataTypes

\* What is delivered of the message of a series is the series.
LEMMA SeriesDelivered ==
    ASSUME NEW s \in Series, NEW m, ProtoHolds(m, s),
           Resolves(got.Symbols, SeriesStrings(s))
    PROVE  Delivered(m) = s
<1>. DEFINE symbols == got.Symbols
<1>1. ToLabels(m, symbols) = s.labels
  <2>1. s.labels \in Labels /\ Resolves(symbols, LabelStrings(s.labels))
    BY SeriesFields, SeriesStringsOf DEF Resolves
  <2>. QED
    BY <2>1, LabelsBack DEF ToLabels, ProtoHolds
<1>2. /\ symbols[m.Metadata.UnitRef + 1] = s.Unit
      /\ symbols[m.Metadata.HelpRef + 1] = s.Help
      /\ TypeOf(m.Metadata.Type) = s.Type
  <2>1. /\ symbols[refs[s.Unit] + 1] = s.Unit /\ symbols[refs[s.Help] + 1] = s.Help
    BY SeriesStringsOf DEF Resolves
  <2>2. /\ MetadataOf(s).UnitRef = refs[s.Unit] /\ MetadataOf(s).HelpRef = refs[s.Help]
        /\ MetadataOf(s).Type = FromMetadataType(s.Type)
    BY DEF MetadataOf, NoMetadata
  <2>3. TypeOf(FromMetadataType(s.Type)) = s.Type
    BY SeriesIs, TypeBack
  <2>. QED
    BY <2>1, <2>2, <2>3 DEF ProtoHolds
<1>3. /\ ToMetadata(m, symbols).Type = s.Type /\ ToMetadata(m, symbols).Unit = s.Unit
      /\ ToMetadata(m, symbols).Help = s.Help
  BY <1>2 DEF ToMetadata
<1>4. Each(m.Labels, LAMBDA l : [Name |-> l.Name, Value |-> l.Value]) = s.inline
  <2>1. Each(InlineOf(s), InlineBackTo) = s.inline
    BY InlineBack
  <2>. QED
    BY <2>1 DEF ProtoHolds, Each, InlineBackTo
<1>5. Each(m.Samples, LAMBDA v : [Value |-> v.Value, Ts |-> v.Timestamp]) = s.samples
  <2>1. Each(SamplesOf(s), SampleBackTo) = s.samples
    BY SamplesBack
  <2>. QED
    BY <2>1 DEF ProtoHolds, Each, SampleBackTo
<1>6. Each(m.Exemplars, LAMBDA e : ToExemplar(e, symbols)) = s.exemplars
  <2>1. ExemplarsReturn(s, symbols)
    BY ExemplarsBackTo
  <2>. QED
    BY <2>1 DEF ProtoHolds, ExemplarsReturn, Each
<1>7. Each(m.Histograms, LAMBDA x :
        [float |-> IsFloatHistogram(x), Ts |-> x.Timestamp,
         h |-> IF IsFloatHistogram(x) THEN ToFloatHistogram(x) ELSE ToIntHistogram(x)]) = s.hists
  <2>1. Each(HistogramsOf(s), HistogramBackTo) = s.hists
    BY HistogramsBack
  <2>. QED
    BY <2>1 DEF ProtoHolds, Each, HistogramBackTo
<1>8. m.CreatedTimestamp = s.created
  BY DEF ProtoHolds
<1>9. Delivered(m) =
        [labels |-> ToLabels(m, symbols),
         inline |-> Each(m.Labels, LAMBDA l : [Name |-> l.Name, Value |-> l.Value]),
         Type |-> ToMetadata(m, symbols).Type,
         Unit |-> ToMetadata(m, symbols).Unit,
         Help |-> ToMetadata(m, symbols).Help,
         samples |-> Each(m.Samples, LAMBDA v : [Value |-> v.Value, Ts |-> v.Timestamp]),
         exemplars |-> Each(m.Exemplars, LAMBDA e : ToExemplar(e, symbols)),
         hists |-> Each(m.Histograms, LAMBDA x :
            [float |-> IsFloatHistogram(x), Ts |-> x.Timestamp,
             h |-> IF IsFloatHistogram(x) THEN ToFloatHistogram(x) ELSE ToIntHistogram(x)]),
         created |-> m.CreatedTimestamp]
  BY DEF Delivered
<1>10. Delivered(m) =
         [labels |-> s.labels, inline |-> s.inline, Type |-> s.Type, Unit |-> s.Unit,
          Help |-> s.Help, samples |-> s.samples, exemplars |-> s.exemplars,
          hists |-> s.hists, created |-> s.created]
  BY <1>1, <1>3, <1>4, <1>5, <1>6, <1>7, <1>8, <1>9
<1>. QED
  BY <1>10, SeriesIs

-------------------------------------------------------------------------------
(* What is delivered. *)

\* One part more.
LEMMA FlattenMore ==
    ASSUME NEW T, NEW ss, Parts(ss, T), NEW x \in Seq(T)
    PROVE  FlattenSeq(Append(ss, x)) = FlattenSeq(ss) \o x
<1>. DEFINE l == Len(ss)
            tt == Append(ss, x)
<1>1. PICK h \in [Nat -> Seq(T)] :
        /\ h[0] = <<>>
        /\ \A n \in 1..l : h[n] = h[n - 1] \o ss[n]
        /\ FlattenSeq(ss) = h[l]
  BY PartsOf
<1>2. Parts(tt, T)
  BY FlattenAppended
<1>3. PICK g \in [Nat -> Seq(T)] :
        /\ g[0] = <<>>
        /\ \A n \in 1..Len(tt) : g[n] = g[n - 1] \o tt[n]
        /\ FlattenSeq(tt) = g[Len(tt)]
  BY <1>2, PartsOf
<1>4. /\ l \in Nat /\ Len(tt) = l + 1 /\ tt[l + 1] = x
      /\ \A i \in 1..l : tt[i] = ss[i]
  <2>1. ss \in Seq(Seq(T)) /\ x \in Seq(T)
    BY DEF Parts
  <2>. QED
    BY <2>1, AppendProperties, LenProperties
<1>. HIDE DEF l, tt
<1>. DEFINE T1 == {n \in 0..l : g[n] # h[n]}
<1>5. T1 = {}
  <2>. SUFFICES ASSUME T1 # {} PROVE FALSE
    OBVIOUS
  <2>1. T1 \in SUBSET Nat /\ \A n \in T1 : n \in 0..l /\ g[n] # h[n]
    BY <1>4
  <2>2. \A n \in 0..l : n \notin T1 => g[n] = h[n]
    OBVIOUS
  <2>. HIDE DEF T1
  <2>3. PICK n \in T1 : \A j \in T1 : n <= j
    BY <2>1, NatMin
  <2>4. n \in 0..l /\ g[n] # h[n]
    BY <2>1, <2>3
  <2>5. n # 0
    BY <1>1, <1>3, <2>4
  <2>6. n \in 1..l /\ n - 1 \in 0..l /\ ~(n <= n - 1) /\ n \in 1..Len(tt)
    BY <1>4, <2>4, <2>5
  <2>7. g[n - 1] = h[n - 1]
    BY <2>2, <2>3, <2>6
  <2>8. g[n] = g[n - 1] \o tt[n] /\ h[n] = h[n - 1] \o ss[n] /\ tt[n] = ss[n]
    BY <1>1, <1>3, <1>4, <2>6
  <2>. QED
    BY <2>4, <2>7, <2>8
<1>6. g[l] = h[l]
  <2>1. l \in 0..l
    BY <1>4
  <2>. QED
    BY <1>5, <2>1
<1>7. g[l + 1] = g[l] \o x
  <2>1. l \in Nat /\ Len(tt) = l + 1
    BY <1>4
  <2>2. l + 1 \in 1..(l + 1) /\ (l + 1) - 1 = l
    BY <2>1
  <2>3. g[l + 1] = g[(l + 1) - 1] \o tt[l + 1]
    BY <1>3, <2>1, <2>2
  <2>. QED
    BY <1>4, <2>2, <2>3
<1>. QED
  BY <1>1, <1>3, <1>4, <1>6, <1>7 DEF tt

\* A request is sent, or received, only when no metric is in the making.
MakingInv ==
    /\ making = None => todo = <<>>
    /\ making # None => got = None /\ wire = None
    /\ wire # None => got = None

\* The references are those of the table.
RefsInv ==
    \A str \in DOMAIN refs :
        str \in DOMAIN table.symbolsMap /\ table.symbolsMap[str] = refs[str]

\* Every message is the one its series makes.
IsMessage(m, s) ==
    /\ s \in Series /\ Range(SeriesStrings(s)) \subseteq DOMAIN refs
    /\ m = ToProto(s)
MessagesInv == \A i \in DOMAIN series : IsMessage(series[i], SentSeries[i])

\* On the way is the request there is, and it is what arrives.
WireInv ==
    wire # None =>
        /\ RequestSize(TheRequest) \in Int64
        /\ ~optimized => wire = RequestMarshal(TheRequest)
        /\ optimized /\ NoInlineLabels => wire = OptimizedRequestMarshal(TheRequest)
GotInv == Arrived => got = TheRequest

DeliveryInv == MakingInv /\ RefsInv /\ MessagesInv /\ WireInv /\ GotInv

\* What references to strings stay, the message of a series stays.
LEMMA MessageStays ==
    ASSUME NEW s, NEW m, IsMessage(m, s),
           \A str \in DOMAIN refs : str \in DOMAIN refs' /\ refs'[str] = refs[str]
    PROVE  IsMessage(m, s)'
<1>1. s \in Series /\ \A str \in Range(SeriesStrings(s)) : str \in DOMAIN refs /\ m = ToProto(s)
  BY DEF IsMessage
<1>2. Range(SeriesStrings(s)) \subseteq DOMAIN refs'
  BY DEF IsMessage
<1>3. ASSUME NEW labels \in Labels, Range(LabelStrings(labels)) \subseteq DOMAIN refs
      PROVE  LabelsRefs(labels)' = LabelsRefs(labels)
  <2>1. /\ DOMAIN labels = 1..Len(labels)
        /\ \A i \in DOMAIN labels : /\ labels[i].Name \in DOMAIN refs
                                    /\ labels[i].Value \in DOMAIN refs
    <3>1. labels \in Seq([Name : Strings, Value : Strings])
      BY DEF Labels
    <3>. QED
      BY <1>3, <3>1, LabelStringsOf, SeqTyped
  <2>2. [i \in DOMAIN labels |-> <<refs'[labels[i].Name], refs'[labels[i].Value]>>]
          = [i \in DOMAIN labels |-> <<refs[labels[i].Name], refs[labels[i].Value]>>]
    BY <2>1
  <2>. QED
    BY <2>2 DEF LabelsRefs, Each
<1>4. LabelsRefs(s.labels)' = LabelsRefs(s.labels)
  BY <1>1, <1>3, SeriesFields, SeriesStringsOf DEF IsMessage
<1>5. refs'[s.Unit] = refs[s.Unit] /\ refs'[s.Help] = refs[s.Help]
  BY <1>1, SeriesStringsOf
<1>6. ExemplarsOf(s)' = ExemplarsOf(s)
  <2>1. \A i \in DOMAIN s.exemplars :
            LabelsRefs(s.exemplars[i].Labels)' = LabelsRefs(s.exemplars[i].Labels)
    <3>1. s.exemplars \in Seq(Exemplars)
      BY <1>1, SeriesFields
    <3>2. /\ DOMAIN s.exemplars = 1..Len(s.exemplars)
          /\ \A i \in 1..Len(s.exemplars) : s.exemplars[i] \in Exemplars
      BY <3>1, SeqTyped
    <3>3. \A i \in 1..Len(s.exemplars) : s.exemplars[i].Labels \in Labels
      BY <3>2 DEF Exemplars
    <3>4. \A i \in 1..Len(s.exemplars) :
              Range(LabelStrings(s.exemplars[i].Labels)) \subseteq DOMAIN refs
      BY <1>1, SeriesStringsOf DEF IsMessage
    <3>. QED
      BY <1>3, <3>2, <3>3, <3>4
  <2>. QED
    BY <2>1 DEF ExemplarsOf, Each
<1>7. ToProto(s)' = ToProto(s)
  <2>1. ToProto(s) =
          [NoSeries EXCEPT !.LabelsRefs = LabelsRefs(s.labels), !.Samples = SamplesOf(s),
                           !.Exemplars = ExemplarsOf(s), !.Histograms = HistogramsOf(s),
                           !.Metadata = MetadataOf(s), !.CreatedTimestamp = s.created,
                           !.Labels = InlineOf(s)]
    BY DEF ToProto, SamplesOf, ExemplarsOf, HistogramsOf, MetadataOf, InlineOf
  <2>2. ToProto(s)' =
          [NoSeries EXCEPT !.LabelsRefs = LabelsRefs(s.labels)', !.Samples = SamplesOf(s)',
                           !.Exemplars = ExemplarsOf(s)', !.Histograms = HistogramsOf(s)',
                           !.Metadata = MetadataOf(s)', !.CreatedTimestamp = s.created,
                           !.Labels = InlineOf(s)']
    BY DEF ToProto, SamplesOf, ExemplarsOf, HistogramsOf, MetadataOf, InlineOf
  <2>3. SamplesOf(s)' = SamplesOf(s)
    BY DEF SamplesOf, Each
  <2>4. HistogramsOf(s)' = HistogramsOf(s)
    BY DEF HistogramsOf, Each
  <2>5. InlineOf(s)' = InlineOf(s)
    BY DEF InlineOf, Each
  <2>6. MetadataOf(s)' = MetadataOf(s)
    BY <1>5 DEF MetadataOf
  <2>. QED
    BY <1>4, <1>6, <2>1, <2>2, <2>3, <2>4, <2>5, <2>6
<1>. QED
  BY <1>1, <1>2, <1>7 DEF IsMessage

\* A sum over an interval, and one more.
LEMMA SumNext ==
    ASSUME NEW n \in Nat, NEW f, \A i \in 1..(n + 1) : f[i] \in Nat
    PROVE  /\ SumFunctionOnSet(f, 1..n) \in Nat
           /\ SumFunctionOnSet(f, 1..(n + 1)) = SumFunctionOnSet(f, 1..n) + f[n + 1]
<1>. DEFINE S == 1..(n + 1)
<1>1. /\ IsFiniteSet(S) /\ IsFiniteSet(1..n) /\ n + 1 \in S /\ S \ {n + 1} = 1..n
      /\ \A i \in 1..n : i \in S
  <2>1. IsFiniteSet(S) /\ IsFiniteSet(1..n)
    BY IntervalFinite
  <2>. QED
    BY <2>1
<1>2. \A i \in S : f[i] \in Nat
  OBVIOUS
<1>3. \A i \in 1..n : f[i] \in Nat
  BY <1>1, <1>2
<1>4. f[n + 1] \in Nat
  BY <1>1, <1>2
<1>5. SumFunctionOnSet(f, 1..n) \in Nat
  BY <1>1, <1>3, SumNat
<1>. DEFINE k == n + 1
<1>6. k \in S /\ S \ {k} = 1..n
  BY <1>1
<1>. HIDE DEF S, k
<1>7. SumFunctionOnSet(f, S) = f[k] + SumFunctionOnSet(f, S \ {k})
  BY <1>1, <1>2, <1>6, SumSplits
<1>8. SumFunctionOnSet(f, S) = f[k] + SumFunctionOnSet(f, 1..n)
  BY <1>6, <1>7
<1>. DEFINE a == SumFunctionOnSet(f, S)
            c == f[k]
            b == SumFunctionOnSet(f, 1..n)
<1>9. a = c + b /\ b \in Nat /\ c \in Nat
  BY <1>4, <1>5, <1>8 DEF k
<1>. HIDE DEF a, b, c
<1>10. a = b + c
  BY <1>9
<1>. QED
  BY <1>5, <1>10 DEF a, b, c, S, k

\* A sum of numbers that are not 0 is no less than how many there are.
LEMMA SumCounts ==
    ASSUME NEW n \in Nat, NEW f, \A i \in 1..n : f[i] \in Nat /\ f[i] >= 1
    PROVE  n <= SumFunctionOnSet(f, 1..n)
<1>. DEFINE Good(k) == k <= SumFunctionOnSet(f, 1..k)
            T1 == {k \in 0..n : ~Good(k)}
<1>1. Good(0)
  <2>1. 1..0 = {}
    OBVIOUS
  <2>. QED
    BY <2>1, SumOfNothing
<1>2. ASSUME NEW k \in 1..n, Good(k - 1) PROVE Good(k)
  <2>. DEFINE j == k - 1
  <2>1. j \in Nat /\ k = j + 1 /\ f[k] \in Nat /\ f[k] >= 1 /\ j <= SumFunctionOnSet(f, 1..j)
        /\ \A i \in 1..k : i \in 1..n
    BY <1>2
  <2>. HIDE DEF j
  <2>2. \A i \in 1..(j + 1) : f[i] \in Nat
    BY <2>1
  <2>3. /\ SumFunctionOnSet(f, 1..j) \in Nat
        /\ SumFunctionOnSet(f, 1..(j + 1)) = SumFunctionOnSet(f, 1..j) + f[j + 1]
    BY <2>1, <2>2, SumNext
  <2>. DEFINE a == SumFunctionOnSet(f, 1..j)
              b == SumFunctionOnSet(f, 1..k)
              c == f[k]
  <2>4. a \in Nat /\ c \in Nat /\ c >= 1 /\ j <= a /\ b = a + c /\ k = j + 1 /\ j \in Nat
    BY <2>1, <2>3
  <2>. HIDE DEF a, b, c
  <2>5. k <= b
    BY <2>4
  <2>. QED
    BY <2>5 DEF b
<1>3. T1 = {}
  <2>. SUFFICES ASSUME T1 # {} PROVE FALSE
    OBVIOUS
  <2>1. T1 \in SUBSET Nat /\ \A k \in T1 : k \in 0..n /\ ~Good(k)
    OBVIOUS
  <2>2. \A k \in 0..n : k \notin T1 => Good(k)
    OBVIOUS
  <2>. HIDE DEF T1, Good
  <2>3. PICK k \in T1 : \A j \in T1 : k <= j
    BY <2>1, NatMin
  <2>4. k \in 0..n /\ ~Good(k)
    BY <2>1, <2>3
  <2>5. k # 0
    BY <1>1, <2>4
  <2>6. k \in 1..n /\ k - 1 \in 0..n /\ ~(k <= k - 1)
    BY <2>4, <2>5
  <2>7. Good(k - 1)
    BY <2>2, <2>3, <2>6
  <2>. QED
    BY <1>2, <2>4, <2>6, <2>7
<1>4. Good(n)
  <2>1. n \in 0..n
    OBVIOUS
  <2>. QED
    BY <1>3, <2>1
<1>. QED
  BY <1>4

\* Each string takes a byte at least.
LEMMA StringsTake ==
    ASSUME NEW s \in Seq(Payload)
    PROVE  Len(s) <= RepeatedSize(Each(s, Len))
<1>. DEFINE n == Len(s)
            f == [i \in 1..n |-> DelimitedSize(Len(s[i]))]
<1>1. n \in Nat /\ DOMAIN s = 1..n /\ \A i \in 1..n : s[i] \in Payload
  BY SeqTyped
<1>2. RepeatedSize(Each(s, Len)) = SumFunctionOnSet(f, 1..n)
  BY <1>1 DEF RepeatedSize, Each, Sum, SumFunction
<1>3. ASSUME NEW l \in Nat PROVE DelimitedSize(l) \in Nat /\ DelimitedSize(l) >= 1
  <2>1. sovTypes(l) \in 1..10
    BY VarintWritten
  <2>. QED
    BY <2>1 DEF DelimitedSize
<1>4. \A i \in 1..n : Len(s[i]) \in Nat
  BY <1>1, LenProperties DEF Payload
<1>5. \A i \in 1..n : f[i] \in Nat /\ f[i] >= 1
  BY <1>3, <1>4
<1>. HIDE DEF f, n
<1>6. n <= SumFunctionOnSet(f, 1..n)
  BY <1>1, <1>5, SumCounts
<1>. QED
  BY <1>2, <1>6 DEF n

\* So the references of a request whose size is an int are.
LEMMA RefsFit ==
    ASSUME RequestInv, RefsInv, RequestSize(TheRequest) \in Int64, NEW str \in DOMAIN refs
    PROVE  refs[str] \in Int64
<1>. DEFINE m == TheRequest
            s == Symbols(table)
            l == table.strings.len
            a == RepeatedSize(Each(s, Len))
            b == RepeatedSize(Each(series, TimeSeriesSize))
<1>1. m \in RequestMessages(Int)
  BY TheRequestTyped
<1>2. m.Symbols = s /\ m.Timeseries = series /\ m.unrecognized = <<>>
  BY DEF TheRequest, NoRequest
<1>3. s \in Seq(Payload) /\ series \in Seq(SeriesMessages(Int))
  BY <1>1, <1>2 DEF RequestMessages
<1>4. Len(s) = l /\ l \in Nat
  <2>1. l \in Nat
    BY DEF RequestInv, Inv, TableTypeOK
  <2>2. s = [i \in 1..l |-> table.arrays[table.strings.array][i]]
    BY DEF Symbols, View
  <2>. HIDE DEF l, s
  <2>. QED
    BY <1>3, <2>1, <2>2
<1>5. RequestSize(m) = a + b + 0
  BY <1>2 DEF RequestSize
<1>6. a \in Nat /\ Len(s) <= a
  <2>1. 4 \in 1..15
    OBVIOUS
  <2>2. Written(RepeatedField(4, s), a)
    BY <1>3, <2>1, SymbolsWritten
  <2>3. Len(s) <= a
    BY <1>3, StringsTake
  <2>. QED
    BY <2>2, <2>3 DEF Written
<1>7. b \in Nat
  <2>. DEFINE ms == Each(series, TimeSeriesMarshal)
              ns == Each(series, TimeSeriesSize)
  <2>1. /\ Len(series) \in Nat /\ DOMAIN series = 1..Len(series)
        /\ \A i \in 1..Len(series) : series[i] \in SeriesMessages(Int)
    BY <1>3, SeqTyped
  <2>2. \A i \in 1..Len(series) : Written(TimeSeriesMarshal(series[i]), TimeSeriesSize(series[i]))
    BY <2>1, SeriesWritten
  <2>3. /\ ms = [i \in 1..Len(series) |-> TimeSeriesMarshal(series[i])]
        /\ ns = [i \in 1..Len(series) |-> TimeSeriesSize(series[i])]
    BY <2>1 DEF Each
  <2>. HIDE DEF ms, ns
  <2>4. AllWritten(ms, ns, Len(series))
    BY <2>1, <2>2, <2>3 DEF AllWritten, Written
  <2>5. 5 \in 1..15
    OBVIOUS
  <2>6. Written(RepeatedField(5, ms), RepeatedSize(ns))
    BY <2>4, <2>5, RepeatedWritten
  <2>7. RepeatedSize(ns) \in Nat
    BY <2>6 DEF Written
  <2>. QED
    BY <2>7 DEF ns
<1>8. refs[str] \in Nat /\ refs[str] < l
  <2>1. str \in DOMAIN table.symbolsMap /\ table.symbolsMap[str] = refs[str]
    BY DEF RefsInv
  <2>2. table.symbolsMap[str] < l
    BY <2>1 DEF RequestInv, Inv, MapInv
  <2>3. refs[str] \in Nat
    BY DEF RequestInv, StringsInv
  <2>. QED
    BY <2>1, <2>2, <2>3
<1>. DEFINE r == refs[str]
            z == RequestSize(m)
            k == Len(s)
<1>9. /\ r \in Nat /\ r < l /\ k = l /\ l \in Nat /\ a \in Nat /\ b \in Nat /\ k <= a
      /\ z = a + b + 0
  BY <1>4, <1>5, <1>6, <1>7, <1>8
<1>10. z \in Int64
  OBVIOUS
<1>. HIDE DEF r, z, k, l, a, b, m, s
<1>11. r <= z
  BY <1>9
<1>12. r \in Int64
  BY <1>9, <1>10, <1>11, LengthInt64
<1>. QED
  BY <1>12 DEF r

\* Such a request is made of messages that hold nothing unknown.
LEMMA TheRequestPlain ==
    ASSUME RequestInv, RefsInv, MessagesInv, RequestSize(TheRequest) \in Int64
    PROVE  TheRequest \in PlainRequests
<1>. DEFINE m == TheRequest
<1>1. m \in RequestMessages(Int)
  BY TheRequestTyped
<1>2. m.Timeseries = series /\ m.unrecognized = <<>>
  BY DEF TheRequest, NoRequest
<1>3. series \in Seq(SeriesMessages(Int))
  BY <1>1, <1>2 DEF RequestMessages
<1>4. Len(series) \in Nat /\ DOMAIN series = 1..Len(series)
  BY <1>3, SeqTyped
<1>5. ASSUME NEW i \in 1..Len(series) PROVE series[i] \in PlainSeries
  <2>. DEFINE s == SentSeries[i]
  <2>1. IsMessage(series[i], s)
    BY <1>4 DEF MessagesInv
  <2>. HIDE DEF s
  <2>2. s \in Series /\ series[i] = ToProto(s)
        /\ \A str \in Range(SeriesStrings(s)) : str \in DOMAIN refs
    BY <2>1 DEF IsMessage
  <2>3. \A str \in Range(SeriesStrings(s)) : refs[str] \in Int64
    BY <2>2, RefsFit
  <2>. QED
    BY <2>2, <2>3, SeriesPlain
<1>6. series \in Seq(PlainSeries)
  <2>1. series = [i \in 1..Len(series) |-> series[i]]
    BY <1>3, SeqIs
  <2>. QED
    BY <1>4, <1>5, <2>1, SeqMade
<1>7. PlainSeries \subseteq SeriesMessages(Int64)
  BY DEF PlainSeries
<1>8. series \in Seq(SeriesMessages(Int64))
  BY <1>6, <1>7
<1>9. m \in RequestMessages(Int64)
  BY <1>1, <1>2, <1>8 DEF RequestMessages
<1>. HIDE DEF m
<1>10. m \in PlainRequests
  BY <1>2, <1>6, <1>9 DEF PlainRequests
<1>. QED
  BY <1>10 DEF m

LEMMA DeliveryInit == ASSUME Init PROVE DeliveryInv
<1>1. /\ making = None /\ todo = <<>> /\ refs = <<>> /\ series = <<>> /\ wire = None /\ got = None
  BY DEF Init
<1>2. DOMAIN refs = {} /\ DOMAIN series = {}
  BY <1>1
<1>3. MakingInv
  BY <1>1 DEF MakingInv
<1>4. RefsInv /\ MessagesInv
  BY <1>2 DEF RefsInv, MessagesInv
<1>5. WireInv /\ GotInv
  BY <1>1 DEF WireInv, GotInv, Arrived
<1>. QED
  BY <1>3, <1>4, <1>5 DEF DeliveryInv

LEMMA MessagesStay ==
    ASSUME MessagesInv, series' = series, sent' = sent,
           \A str \in DOMAIN refs : str \in DOMAIN refs' /\ refs'[str] = refs[str]
    PROVE  MessagesInv'
<1>1. SentSeries' = SentSeries
  BY DEF SentSeries, Each
<1>2. ASSUME NEW i \in DOMAIN series PROVE IsMessage(series[i], SentSeries[i])'
  <2>. DEFINE s == SentSeries[i]
              m == series[i]
  <2>1. IsMessage(m, s)
    BY DEF MessagesInv
  <2>2. \A x, y : IsMessage(x, y) => IsMessage(x, y)'
    BY MessageStays
  <2>3. IsMessage(m, s)'
    BY <1>1, <2>1, <2>2 DEF IsMessage
  <2>. QED
    BY <2>3
<1>. QED
  BY <1>2 DEF MessagesInv

LEMMA BeginDelivers ==
    ASSUME RequestInv, DeliveryInv, NEW metric \in Metrics, Begin(metric)
    PROVE  DeliveryInv'
<1>1. /\ making' = metric /\ wire = None /\ wire' = wire /\ got' = None
      /\ UNCHANGED tableVars /\ refs' = refs /\ series' = series /\ sent' = sent
  BY DEF Begin
<1>2. metric # None
  <2>1. DOMAIN metric = {"points", "series"}
    BY MetricsAssumption
  <2>2. DOMAIN <<>> = {}
    OBVIOUS
  <2>. QED
    BY <2>1, <2>2 DEF None
<1>3. MakingInv'
  BY <1>1, <1>2 DEF MakingInv, None
<1>4. RefsInv'
  BY <1>1 DEF DeliveryInv, RefsInv, tableVars
<1>5. MessagesInv'
  BY <1>1, MessagesStay DEF DeliveryInv
<1>6. WireInv' /\ GotInv'
  BY <1>1 DEF WireInv, GotInv, Arrived, None
<1>. QED
  BY <1>3, <1>4, <1>5, <1>6 DEF DeliveryInv

LEMMA SymbolizeNextDelivers ==
    ASSUME RequestInv, DeliveryInv, SymbolizeNext
    PROVE  DeliveryInv'
<1>. DEFINE str == Head(todo)
            ref == RefOf(table, str)
<1>1. /\ todo # <<>> /\ Symbolize(str)
      /\ refs' = [s \in DOMAIN refs \cup {str} |-> IF s = str THEN ref ELSE refs[s]]
      /\ UNCHANGED <<making, series, sent, optimized, wire, got>>
  BY DEF SymbolizeNext
<1>2. table' = Symbolized(table, str) /\ ref = table'.symbolsMap[str]
  BY <1>1 DEF Symbolize, RefOf
<1>3. making # None /\ wire = None /\ got = None
  BY <1>1 DEF DeliveryInv, MakingInv
<1>. HIDE DEF str, ref
<1>4. /\ str \in DOMAIN table'.symbolsMap
      /\ \A s \in DOMAIN table.symbolsMap :
            s \in DOMAIN table'.symbolsMap /\ table'.symbolsMap[s] = table.symbolsMap[s]
  <2>1. CASE str \in DOMAIN table.symbolsMap
    BY <1>2, <2>1 DEF Symbolized
  <2>2. CASE str \notin DOMAIN table.symbolsMap
    <3>1. table'.symbolsMap = [s \in DOMAIN table.symbolsMap \cup {str} |->
                                 IF s = str THEN table.strings.len ELSE table.symbolsMap[s]]
      BY <1>2, <2>2 DEF Symbolized
    <3>. QED
      BY <2>2, <3>1
  <2>. QED
    BY <2>1, <2>2
<1>5. \A s \in DOMAIN refs : s \in DOMAIN refs' /\ refs'[s] = refs[s]
  <2>1. \A s \in DOMAIN refs : s \in DOMAIN table.symbolsMap /\ table.symbolsMap[s] = refs[s]
    BY DEF DeliveryInv, RefsInv
  <2>. QED
    BY <1>1, <1>2, <1>4, <2>1
<1>6. RefsInv'
  <2>1. \A s \in DOMAIN refs : s \in DOMAIN table.symbolsMap /\ table.symbolsMap[s] = refs[s]
    BY DEF DeliveryInv, RefsInv
  <2>2. \A s \in DOMAIN refs' : s = str \/ s \in DOMAIN refs
    BY <1>1
  <2>3. refs'[str] = ref
    BY <1>1
  <2>4. \A s \in DOMAIN refs' : s \in DOMAIN table'.symbolsMap /\ table'.symbolsMap[s] = refs'[s]
    BY <1>2, <1>4, <1>5, <2>1, <2>2, <2>3
  <2>. QED
    BY <2>4 DEF RefsInv
<1>7. MakingInv'
  BY <1>1, <1>3 DEF MakingInv, None
<1>8. MessagesInv'
  BY <1>1, <1>5, MessagesStay DEF DeliveryInv
<1>9. WireInv' /\ GotInv'
  BY <1>1, <1>3 DEF WireInv, GotInv, Arrived, None
<1>. QED
  BY <1>6, <1>7, <1>8, <1>9 DEF DeliveryInv

LEMMA JoinedAt ==
    ASSUME NEW U, NEW V, NEW u \in Seq(U), NEW v \in Seq(V)
    PROVE  /\ Len(u) \in Nat /\ Len(v) \in Nat /\ DOMAIN (u \o v) = 1..(Len(u) + Len(v))
           /\ \A i \in 1..Len(u) : (u \o v)[i] = u[i]
           /\ \A i \in 1..Len(v) : (u \o v)[Len(u) + i] = v[i]
OBVIOUS

LEMMA MessagesJoined ==
    ASSUME NEW U, NEW V, NEW u \in Seq(U), NEW v \in Seq(V),
           NEW S, NEW x \in Seq(S), NEW y \in Seq(S), Len(x) = Len(u), Len(y) = Len(v),
           \A i \in 1..Len(u) : IsMessage(u[i], x[i]),
           \A i \in 1..Len(v) : IsMessage(v[i], y[i])
    PROVE  \A i \in DOMAIN (u \o v) : IsMessage((u \o v)[i], (x \o y)[i])
<1>. DEFINE n == Len(u)
            l == Len(v)
            a == u \o v
            b == x \o y
<1>1. /\ n \in Nat /\ l \in Nat /\ DOMAIN a = 1..(n + l)
      /\ \A i \in 1..n : a[i] = u[i]
      /\ \A i \in 1..l : a[n + i] = v[i]
  BY JoinedAt
<1>2. /\ \A i \in 1..Len(x) : b[i] = x[i]
      /\ \A i \in 1..Len(y) : b[Len(x) + i] = y[i]
  BY JoinedAt
<1>3. /\ \A i \in 1..n : b[i] = x[i]
      /\ \A i \in 1..l : b[n + i] = y[i]
  BY <1>2
<1>4. /\ \A i \in 1..n : IsMessage(u[i], x[i])
      /\ \A i \in 1..l : IsMessage(v[i], y[i])
  OBVIOUS
<1>. HIDE DEF n, l, a, b
<1>5. ASSUME NEW i \in 1..(n + l) PROVE IsMessage(a[i], b[i])
  <2>1. CASE i \in 1..n
    BY <1>1, <1>3, <1>4, <2>1
  <2>2. CASE i \notin 1..n
    <3>1. i - n \in 1..l /\ i = n + (i - n)
      BY <1>1, <2>2
    <3>. DEFINE k == i - n
    <3>2. k \in 1..l /\ i = n + k
      BY <3>1
    <3>. HIDE DEF k
    <3>. QED
      BY <1>1, <1>3, <1>4, <3>2
  <2>. QED
    BY <2>1, <2>2
<1>. QED
  BY <1>1, <1>5 DEF a, b

LEMMA AddSeriesDelivers ==
    ASSUME RequestInv, DeliveryInv, AddSeries
    PROVE  DeliveryInv'
<1>. DEFINE s == making.series
            new == Each(s, ToProto)
            old == SentSeries
            n == Len(series)
<1>1. /\ making # None /\ todo = <<>>
      /\ series' = series \o new /\ sent' = Append(sent, making) /\ making' = None
      /\ todo' = todo /\ refs' = refs /\ wire' = wire /\ got' = got
      /\ UNCHANGED tableVars
  BY DEF AddSeries
<1>2. wire = None /\ got = None
  BY <1>1 DEF DeliveryInv, MakingInv
<1>3. making \in Metrics
  BY <1>1 DEF RequestInv, StringsInv
<1>4. /\ s \in Seq(Series) /\ Len(s) \in Nat /\ DOMAIN s = 1..Len(s)
      /\ \A i \in 1..Len(s) : s[i] \in Series /\ Range(SeriesStrings(s[i])) \subseteq DOMAIN refs
  <2>1. /\ s \in Seq(Series)
        /\ \A i \in 1..Len(s) : Range(SeriesStrings(s[i])) \subseteq Range(MetricStrings(making))
    BY <1>3, MetricStringsOf
  <2>2. Range(MetricStrings(making)) \subseteq DOMAIN refs
    BY <1>1 DEF RequestInv, StringsInv, Range
  <2>3. Len(s) \in Nat /\ DOMAIN s = 1..Len(s) /\ \A i \in 1..Len(s) : s[i] \in Series
    BY <2>1, SeqTyped
  <2>. QED
    BY <2>1, <2>2, <2>3
<1>5. new = [i \in 1..Len(s) |-> ToProto(s[i])]
  BY <1>4 DEF Each
<1>6. SentSeries' = old \o s /\ old \in Seq(Series) /\ Len(old) = n
  <2>. DEFINE ss == Each(sent, LAMBDA metric : metric.series)
              tt == Each(sent', LAMBDA metric : metric.series)
  <2>1. sent \in Seq(Metrics) /\ Len(series) = Len(FlattenSeq(ss))
    BY DEF RequestInv, SeriesInv, SentSeries
  <2>2. Parts(ss, Series)
    BY <2>1, SentOf
  <2>3. tt = Append(ss, s)
    <3>1. /\ Len(sent) \in Nat /\ DOMAIN sent = 1..Len(sent)
          /\ Len(sent') = Len(sent) + 1 /\ DOMAIN sent' = 1..(Len(sent) + 1)
          /\ sent'[Len(sent) + 1] = making
          /\ \A i \in 1..Len(sent) : sent'[i] = sent[i]
      BY <1>1, <1>3, <2>1
    <3>2. ss = [i \in 1..Len(sent) |-> sent[i].series]
      BY <3>1 DEF Each
    <3>3. tt = [i \in 1..(Len(sent) + 1) |-> sent'[i].series]
      BY <3>1 DEF Each
    <3>4. Len(ss) = Len(sent)
      BY <3>1, <3>2
    <3>. HIDE DEF ss, tt
    <3>5. Append(ss, s) = [i \in 1..(Len(ss) + 1) |-> IF i = Len(ss) + 1 THEN s ELSE ss[i]]
      <4>1. ss \in Seq({ss[i] : i \in 1..Len(sent)})
        BY <3>1, <3>2
      <4>. QED
        BY <3>1, <3>4, <4>1, AppendProperties
    <3>. QED
      BY <3>1, <3>2, <3>3, <3>4, <3>5
  <2>. HIDE DEF ss, tt, s
  <2>4. FlattenSeq(tt) = FlattenSeq(ss) \o s
    BY <1>4, <2>2, <2>3, FlattenMore
  <2>5. SentSeries' = FlattenSeq(tt) /\ SentSeries = FlattenSeq(ss)
    BY DEF SentSeries, tt, ss, Each
  <2>6. FlattenSeq(ss) \in Seq(Series)
    BY <2>2, FlattenTyped
  <2>. QED
    BY <2>1, <2>4, <2>5, <2>6
<1>7. series \in Seq(SeriesMessages(Int))
  BY DEF RequestInv, SeriesInv
<1>8. \A i \in 1..n : IsMessage(series[i], old[i])
  BY <1>7, SeqTyped DEF DeliveryInv, MessagesInv
<1>9. \A i \in 1..Len(s) : IsMessage(new[i], s[i])
  BY <1>4, <1>5 DEF IsMessage
<1>10. \A x, y : IsMessage(x, y) => IsMessage(x, y)'
  BY <1>1, MessageStays
<1>11. \A i \in DOMAIN (series \o new) : IsMessage((series \o new)[i], (old \o s)[i])
  <2>. DEFINE T == {new[i] : i \in 1..Len(s)}
  <2>1. new \in Seq(T) /\ Len(new) = Len(s)
    <3>. HIDE DEF s
    <3>1. \A i \in 1..Len(s) : new[i] \in T
      OBVIOUS
    <3>2. new = [i \in 1..Len(s) |-> new[i]]
      BY <1>5
    <3>. HIDE DEF new, T
    <3>. QED
      BY <1>4, <3>1, <3>2, SeqMade
  <2>. HIDE DEF T, new, s, old
  <2>. QED
    BY <1>4, <1>6, <1>7, <1>8, <1>9, <2>1, MessagesJoined
<1>12. MessagesInv'
  <2>1. series' = series \o new /\ SentSeries' = old \o s
    BY <1>1, <1>6
  <2>2. \A i \in DOMAIN series' : IsMessage(series'[i], SentSeries'[i])
    <3>. DEFINE both == series \o new
                all == old \o s
    <3>1. \A i \in DOMAIN both : IsMessage(both[i], all[i])
      BY <1>11
    <3>2. series' = both /\ SentSeries' = all
      BY <2>1
    <3>. HIDE DEF both, all
    <3>. QED
      BY <3>1, <3>2
  <2>3. \A i \in DOMAIN series' : IsMessage(series[i], SentSeries[i])'
    BY <1>10, <2>2 DEF IsMessage
  <2>. QED
    BY <2>3 DEF MessagesInv
<1>13. MakingInv'
  BY <1>1, <1>2 DEF MakingInv, None
<1>14. RefsInv'
  BY <1>1 DEF DeliveryInv, RefsInv, tableVars
<1>15. WireInv' /\ GotInv'
  BY <1>1, <1>2 DEF WireInv, GotInv, Arrived, None
<1>. QED
  BY <1>12, <1>13, <1>14, <1>15 DEF DeliveryInv

\* Nothing of the request changes.
LEMMA RequestSame ==
    ASSUME UNCHANGED <<table, series>>
    PROVE  TheRequest' = TheRequest /\ (NoInlineLabels' <=> NoInlineLabels)
BY DEF TheRequest, Symbols, View, NoInlineLabels

LEMMA EncodeDelivers ==
    ASSUME RequestInv, DeliveryInv, Encode \/ EncodeOptimized
    PROVE  DeliveryInv'
<1>. DEFINE m == TheRequest
<1>1. /\ making = None /\ RequestSize(m) \in Int64 /\ Lend /\ got' = None
      /\ UNCHANGED <<making, todo, refs, series, sent>>
  BY DEF Encode, EncodeOptimized
<1>2. UNCHANGED table
  BY <1>1 DEF Lend
<1>3. TheRequest' = m /\ (NoInlineLabels' <=> NoInlineLabels)
  BY <1>1, <1>2, RequestSame
<1>4. m \in RequestMessages(Int) /\ (NoInlineLabels => Unlabelled(m)) /\ dst \in Seq(Bytes)
  BY TheRequestTyped DEF RequestInv, BytesInv
<1>5. /\ ~optimized' => wire' = RequestMarshal(m)
      /\ optimized' /\ NoInlineLabels => wire' = OptimizedRequestMarshal(m)
  <2>1. CASE Encode
    <3>1. wire' = Marshal(m) /\ optimized' = FALSE
      BY <2>1 DEF Encode
    <3>. QED
      BY <1>4, <3>1, MarshalIsWhole
  <2>2. CASE EncodeOptimized
    <3>1. wire' = OptimizedMarshal(m, dst) /\ optimized' = TRUE
      BY <2>2 DEF EncodeOptimized
    <3>2. Unlabelled(m) => OptimizedMarshal(m, dst) = OptimizedRequestMarshal(m)
      BY <1>4, OptimizedIsWhole
    <3>. QED
      BY <1>4, <3>1, <3>2
  <2>. QED
    BY <2>1, <2>2
<1>. HIDE DEF m
<1>6. WireInv'
  BY <1>1, <1>3, <1>5 DEF WireInv
<1>7. MakingInv'
  BY <1>1 DEF DeliveryInv, MakingInv, None
<1>8. RefsInv'
  BY <1>1, <1>2 DEF DeliveryInv, RefsInv
<1>9. MessagesInv'
  BY <1>1, MessagesStay DEF DeliveryInv
<1>10. GotInv'
  BY <1>1 DEF GotInv, Arrived, None
<1>. QED
  BY <1>6, <1>7, <1>8, <1>9, <1>10 DEF DeliveryInv

\* What arrives is the request: it is marshalled by either, unmarshalled again.
LEMMA WireBack ==
    ASSUME RequestInv, DeliveryInv, wire # None, optimized => NoInlineLabels
    PROVE  RequestUnmarshal(wire) = TheRequest
<1>. DEFINE m == TheRequest
<1>1. /\ RequestSize(m) \in Int64
      /\ ~optimized => wire = RequestMarshal(m)
      /\ optimized => wire = OptimizedRequestMarshal(m)
  BY DEF DeliveryInv, WireInv
<1>2. m \in PlainRequests
  BY <1>1, TheRequestPlain DEF DeliveryInv
<1>3. m \in RequestMessages(Int) /\ (NoInlineLabels => Unlabelled(m))
  BY TheRequestTyped
<1>4. /\ Len(RequestMarshal(m)) = RequestSize(m)
      /\ Unlabelled(m) => Len(OptimizedRequestMarshal(m)) = RequestSize(m)
  BY <1>3, RequestWritten DEF Written
<1>. HIDE DEF m
<1>5. CASE ~optimized
  <2>1. RequestUnmarshal(RequestMarshal(m)) = m
    BY <1>1, <1>2, <1>4, RequestBack
  <2>. QED
    BY <1>1, <1>5, <2>1 DEF m
<1>6. CASE optimized
  <2>1. Unlabelled(m)
    BY <1>3, <1>6
  <2>2. RequestUnmarshal(OptimizedRequestMarshal(m)) = m
    BY <1>1, <1>2, <1>4, <2>1, OptimizedRequestBack
  <2>. QED
    BY <1>1, <1>6, <2>2 DEF m
<1>. QED
  BY <1>5, <1>6

LEMMA ReceiveDelivers ==
    ASSUME RequestInv, DeliveryInv, Receive
    PROVE  DeliveryInv'
<1>1. /\ wire # None /\ got' = RequestUnmarshal(wire) /\ wire' = None
      /\ UNCHANGED <<table, making, todo, refs, series, sent, optimized>>
  BY DEF Receive, tableVars
<1>2. making = None
  BY <1>1 DEF DeliveryInv, MakingInv
<1>3. TheRequest' = TheRequest /\ (NoInlineLabels' <=> NoInlineLabels)
  BY <1>1, RequestSame
<1>4. GotInv'
  <2>1. (optimized => NoInlineLabels) => RequestUnmarshal(wire) = TheRequest
    BY <1>1, WireBack
  <2>. QED
    BY <1>1, <1>3, <2>1 DEF GotInv, Arrived
<1>5. MakingInv'
  BY <1>1, <1>2 DEF DeliveryInv, MakingInv, None
<1>6. RefsInv'
  BY <1>1 DEF DeliveryInv, RefsInv
<1>7. MessagesInv'
  BY <1>1, MessagesStay DEF DeliveryInv
<1>8. WireInv'
  BY <1>1 DEF WireInv, None
<1>. QED
  BY <1>4, <1>5, <1>6, <1>7, <1>8 DEF DeliveryInv

LEMMA NextRequestDelivers ==
    ASSUME RequestInv, DeliveryInv, NextRequest
    PROVE  DeliveryInv'
<1>1. /\ making = None /\ wire = None /\ series' = <<>> /\ refs' = <<>> /\ got' = None
      /\ UNCHANGED <<making, todo, wire>>
  BY DEF NextRequest
<1>2. DOMAIN refs' = {} /\ DOMAIN series' = {}
  BY <1>1
<1>3. RefsInv' /\ MessagesInv'
  BY <1>2 DEF RefsInv, MessagesInv
<1>4. MakingInv' /\ WireInv' /\ GotInv'
  BY <1>1 DEF DeliveryInv, MakingInv, WireInv, GotInv, Arrived, None
<1>. QED
  BY <1>3, <1>4 DEF DeliveryInv

LEMMA StutterDelivers ==
    ASSUME RequestInv, DeliveryInv, UNCHANGED vars
    PROVE  DeliveryInv'
<1>1. UNCHANGED <<table, making, todo, refs, series, sent, optimized, wire, got>>
  BY DEF vars, tableVars, requestVars
<1>2. TheRequest' = TheRequest /\ (NoInlineLabels' <=> NoInlineLabels)
  BY <1>1, RequestSame
<1>3. MakingInv' /\ RefsInv'
  BY <1>1 DEF DeliveryInv, MakingInv, RefsInv, None
<1>4. MessagesInv'
  BY <1>1, MessagesStay DEF DeliveryInv
<1>5. WireInv' /\ GotInv'
  BY <1>1, <1>2 DEF DeliveryInv, WireInv, GotInv, Arrived, None
<1>. QED
  BY <1>3, <1>4, <1>5 DEF DeliveryInv

\* The inductive invariant of what is delivered holds throughout.
THEOREM DeliveryInvHolds == Spec => []DeliveryInv
<1>1. Init => DeliveryInv
  BY DeliveryInit
<1>2. RequestInv /\ DeliveryInv /\ [Next]_vars => DeliveryInv'
  BY BeginDelivers, SymbolizeNextDelivers, AddSeriesDelivers, EncodeDelivers, ReceiveDelivers,
     NextRequestDelivers, StutterDelivers DEF Next
<1>. QED
  BY <1>1, <1>2, RequestInvHolds, PTL DEF Spec

LEMMA SentTyped ==
    ASSUME RequestInv
    PROVE  SentSeries \in Seq(Series) /\ Len(SentSeries) = Len(series)
<1>. DEFINE ss == Each(sent, LAMBDA metric : metric.series)
<1>1. sent \in Seq(Metrics) /\ Len(series) = Len(FlattenSeq(ss))
  BY DEF RequestInv, SeriesInv, SentSeries
<1>2. Parts(ss, Series)
  BY <1>1, SentOf
<1>3. SentSeries = FlattenSeq(ss)
  BY DEF SentSeries
<1>. HIDE DEF ss
<1>. QED
  BY <1>1, <1>2, <1>3, FlattenTyped

\* The symbols of the request hold every string at its reference.
LEMMA SymbolsResolve ==
    ASSUME RequestInv, RefsInv, NEW strings, Range(strings) \subseteq DOMAIN refs
    PROVE  Resolves(Symbols(table), strings)
<1>1. ASSUME NEW str \in DOMAIN refs
      PROVE  refs[str] \in Nat /\ Symbols(table)[refs[str] + 1] = str
  <2>. DEFINE r == refs[str]
              l == table.strings.len
              a == table.arrays[table.strings.array]
  <2>1. str \in DOMAIN table.symbolsMap /\ table.symbolsMap[str] = r
    BY DEF RefsInv
  <2>2. r < l /\ a[r + 1] = str
    BY <2>1 DEF RequestInv, Inv, MapInv
  <2>3. r \in Nat
    BY DEF RequestInv, StringsInv
  <2>4. l \in Nat
    BY DEF RequestInv, Inv, TableTypeOK
  <2>5. Symbols(table) = [i \in 1..l |-> a[i]]
    BY DEF Symbols, View
  <2>. HIDE DEF r, l, a
  <2>6. r + 1 \in 1..l
    BY <2>2, <2>3, <2>4
  <2>7. Symbols(table)[r + 1] = str
    BY <2>2, <2>5, <2>6
  <2>. QED
    BY <2>3, <2>7 DEF r
<1>. QED
  BY <1>1 DEF Resolves

LEMMA ProtoMade == ASSUME NEW s PROVE ProtoHolds(ToProto(s), s)
<1>. DEFINE m == ToProto(s)
            l == LabelsRefs(s.labels)
            a == SamplesOf(s)
            e == ExemplarsOf(s)
            h == HistogramsOf(s)
            d == MetadataOf(s)
            c == s.created
            i == InlineOf(s)
<1>1. m = [NoSeries EXCEPT !.LabelsRefs = l, !.Samples = a, !.Exemplars = e,
                           !.Histograms = h, !.Metadata = d,
                           !.CreatedTimestamp = c, !.Labels = i]
  BY DEF ToProto, SamplesOf, ExemplarsOf, HistogramsOf, MetadataOf, InlineOf
<1>. HIDE DEF m, l, a, e, h, d, c, i
<1>2. /\ m.LabelsRefs = l /\ m.Samples = a /\ m.Exemplars = e /\ m.Histograms = h
      /\ m.Metadata = d /\ m.CreatedTimestamp = c /\ m.Labels = i
      /\ m.unrecognized = <<>>
  BY <1>1 DEF NoSeries
<1>. QED
  BY <1>2 DEF ProtoHolds, m, l, a, e, h, d, c, i

LEMMA DeliveredFromInv ==
    ASSUME RequestInv, DeliveryInv
    PROVE  DeliveredIsSent
<1>. SUFFICES ASSUME Arrived
              PROVE  /\ got # Error /\ got.unrecognized = <<>>
                     /\ Each(got.Timeseries, Delivered) = SentSeries
  BY DEF DeliveredIsSent
<1>1. got = TheRequest
  BY DEF DeliveryInv, GotInv
<1>2. /\ got.Timeseries = series /\ got.unrecognized = <<>> /\ got.Symbols = Symbols(table)
      /\ got # Error
  <2>1. DOMAIN got = {"Symbols", "Timeseries", "unrecognized"}
    BY <1>1 DEF TheRequest, NoRequest
  <2>2. DOMAIN Error = {"error"}
    BY DEF Error
  <2>. QED
    BY <1>1, <2>1, <2>2 DEF TheRequest, NoRequest
<1>3. /\ SentSeries \in Seq(Series) /\ Len(SentSeries) = Len(series)
      /\ DOMAIN SentSeries = 1..Len(series)
      /\ DOMAIN series = 1..Len(series)
  <2>1. series \in Seq(SeriesMessages(Int))
    BY DEF RequestInv, SeriesInv
  <2>2. SentSeries \in Seq(Series) /\ Len(SentSeries) = Len(series)
    BY SentTyped
  <2>3. DOMAIN SentSeries = 1..Len(SentSeries)
    BY <2>2, SeqTyped
  <2>. QED
    BY <2>1, <2>2, <2>3, SeqTyped
<1>4. ASSUME NEW i \in 1..Len(series) PROVE Delivered(series[i]) = SentSeries[i]
  <2>. DEFINE s == SentSeries[i]
              m == series[i]
  <2>1. IsMessage(m, s)
    BY <1>3 DEF DeliveryInv, MessagesInv
  <2>2. s \in Series /\ Range(SeriesStrings(s)) \subseteq DOMAIN refs /\ m = ToProto(s)
    BY <2>1 DEF IsMessage
  <2>. HIDE DEF s, m
  <2>3. Resolves(got.Symbols, SeriesStrings(s))
    BY <1>2, <2>2, SymbolsResolve DEF DeliveryInv
  <2>4. ProtoHolds(m, s)
    BY <2>2, ProtoMade
  <2>5. Delivered(m) = s
    BY <2>2, <2>3, <2>4, SeriesDelivered
  <2>. QED
    BY <2>5 DEF s, m
<1>5. Each(series, Delivered) = [i \in 1..Len(series) |-> Delivered(series[i])]
  BY <1>3 DEF Each
<1>6. SentSeries = [i \in 1..Len(series) |-> SentSeries[i]]
  <2>1. SentSeries = [i \in 1..Len(SentSeries) |-> SentSeries[i]]
    BY <1>3, SeqIs
  <2>. QED
    BY <1>3, <2>1
<1>7. Each(series, Delivered) = SentSeries
  BY <1>4, <1>5, <1>6
<1>. QED
  BY <1>2, <1>7

\* What a request becomes on its way through symbols.go, types.pb.go, custom.go
\* and codec.go is the request.
THEOREM RequestsAreDelivered == Spec => []DeliveredIsSent
<1>1. RequestInv /\ DeliveryInv => DeliveredIsSent
  BY DeliveredFromInv
<1>. QED
  BY <1>1, RequestInvHolds, DeliveryInvHolds, PTL

-------------------------------------------------------------------------------
(* The native histograms. *)

\* A series that is sent is one of a metric.
MetricSeries == {s \in Series : \E metric \in Metrics : s \in Range(metric.series)}

LEMMA SentFrom ==
    ASSUME RequestInv
    PROVE  SentSeries \in Seq(MetricSeries)
<1>. DEFINE ss == Each(sent, LAMBDA metric : metric.series)
<1>1. sent \in Seq(Metrics)
  BY DEF RequestInv, SeriesInv
<1>2. Len(sent) \in Nat /\ DOMAIN sent = 1..Len(sent) /\ \A i \in 1..Len(sent) : sent[i] \in Metrics
  BY <1>1, SeqTyped
<1>3. ASSUME NEW metric \in Metrics PROVE metric.series \in Seq(MetricSeries)
  <2>. DEFINE q == metric.series
  <2>1. q \in Seq(Series)
    BY MetricStringsOf
  <2>2. q = [i \in 1..Len(q) |-> q[i]] /\ Len(q) \in Nat /\ DOMAIN q = 1..Len(q)
    BY <2>1, SeqIs, SeqTyped
  <2>3. \A i \in 1..Len(q) : q[i] \in Series /\ q[i] \in Range(metric.series)
    BY <2>1, SeqTyped, RangeTyped
  <2>4. \A i \in 1..Len(q) : q[i] \in MetricSeries
    BY <2>3 DEF MetricSeries
  <2>. HIDE DEF q
  <2>5. q \in Seq(MetricSeries)
    BY <2>2, <2>4, SeqMade
  <2>. QED
    BY <2>5 DEF q
<1>4. ss = [i \in 1..Len(sent) |-> sent[i].series]
  BY <1>2 DEF Each
<1>5. SentSeries = FlattenSeq(ss)
  BY DEF SentSeries
<1>. HIDE DEF ss
<1>6. ss = [i \in 1..Len(sent) |-> ss[i]] /\ \A i \in 1..Len(sent) : ss[i] \in Seq(MetricSeries)
  BY <1>2, <1>3, <1>4
<1>7. Parts(ss, MetricSeries)
  <2>1. ss \in Seq(Seq(MetricSeries))
    BY <1>2, <1>6, SeqMade
  <2>. QED
    BY <2>1 DEF Parts
<1>. QED
  BY <1>5, <1>7, FlattenTyped

LEMMA NativeValid ==
    ASSUME NEW s \in MetricSeries, NEW j \in 1..Len(s.hists)
    PROVE  s.hists[j] \in Natives /\ Valid(s.hists[j])
<1>1. PICK metric \in Metrics : s \in Range(metric.series)
  BY DEF MetricSeries
<1>2. s \in Series
  BY DEF MetricSeries
<1>3. s.hists \in Seq(Natives)
  BY <1>2, SeriesFields DEF Natives
<1>4. s.hists[j] \in Natives /\ s.hists[j] \in Range(s.hists)
  BY <1>3, SeqTyped, RangeTyped
<1>. QED
  BY <1>1, <1>4, HistogramsAssumption

\* The distance between floats is defined by halving.
LEMMA SpacingOf == \A n \in Nat : Spacing[n] \in Nat \ {0}
<1>. DEFINE V == Nat \ {0}
            F == [n \in Nat |-> [v \in V |-> IF n < Exact THEN 1 ELSE 2 * v]]
            d == [n \in Nat |-> n \div 2]
            P(g) == g = [n \in Nat |-> IF n < Exact THEN 1 ELSE 2 * g[n \div 2]]
<1>0. Exact \in Nat \ {0}
  BY ExactAssumption
<1>1. F \in [Nat -> [V -> V]] /\ Descends(d) /\ 1 \in V
  <2>1. F \in [Nat -> [V -> V]]
    BY <1>0
  <2>2. Descends(d)
    BY DEF Descends
  <2>. QED
    BY <2>1, <2>2
<1>2. PICK h \in [Nat -> V] : Follows(h, 1, d, F)
  <2>. HIDE DEF F, d, V
  <2>. QED
    BY <1>1, Recursion
<1>3. ASSUME NEW n \in Nat
      PROVE  h[n] = IF n < Exact THEN 1 ELSE 2 * h[n \div 2]
  <2>1. CASE n = 0
    BY <1>0, <1>2, <2>1 DEF Follows
  <2>2. CASE n # 0
    <3>1. n \in Nat \ {0} /\ n \div 2 \in Nat
      BY <2>2
    <3>. QED
      BY <1>2, <3>1 DEF Follows
  <2>. QED
    BY <2>1, <2>2
<1>4. h = [n \in Nat |-> IF n < Exact THEN 1 ELSE 2 * h[n \div 2]]
  BY <1>3
<1>5. P(Spacing)
  <2>1. \E g : P(g)
    BY <1>4
  <2>2. Spacing = CHOOSE g : P(g)
    BY DEF Spacing
  <2>. HIDE DEF P
  <2>. QED
    BY <2>1, <2>2
<1>6. \A n \in Nat : Spacing[n] = IF n < Exact THEN 1 ELSE 2 * Spacing[n \div 2]
  BY <1>5
<1>7. \A n \in Nat : Spacing[n] = h[n]
  <2>. DEFINE T == {n \in Nat : Spacing[n] # h[n]}
  <2>1. SUFFICES ASSUME T # {} PROVE FALSE
    OBVIOUS
  <2>2. PICK n \in T : \A k \in T : n <= k
    BY <2>1, NatMin
  <2>3. n \in Nat /\ ~(n < Exact)
    BY <1>3, <1>6
  <2>4. n \div 2 \in Nat /\ n \div 2 < n
    BY <1>0, <2>3
  <2>5. Spacing[n \div 2] = h[n \div 2]
    BY <2>2, <2>4
  <2>. QED
    BY <1>3, <1>6, <2>3, <2>5
<1>. QED
  BY <1>2, <1>7

\* A float is a number, and up to Exact the one that was converted.
LEMMA FloatIs ==
    ASSUME NEW n \in Int
    PROVE  float64(n) \in Int /\ (n \in -Exact..Exact => float64(n) = n)
<1>1. CASE n \in -Exact..Exact
  BY <1>1 DEF float64
<1>2. CASE n \notin -Exact..Exact
  <2>. DEFINE unit == Spacing[IF n < 0 THEN -n ELSE n]
              down == n \div unit
              rest == n % unit
              up == 2 * rest > unit \/ (2 * rest = unit /\ down % 2 = 1)
              k == IF up THEN down + 1 ELSE down
  <2>1. unit \in Nat \ {0}
    <3>1. (IF n < 0 THEN -n ELSE n) \in Nat
      OBVIOUS
    <3>. QED
      BY <3>1, SpacingOf
  <2>2. float64(n) = unit * k
    BY <1>2 DEF float64
  <2>. HIDE DEF unit
  <2>3. down \in Int
    BY <2>1
  <2>. HIDE DEF down
  <2>4. k \in Int
    BY <2>3
  <2>. HIDE DEF k
  <2>5. unit * k \in Int
    BY <2>1, <2>4
  <2>. QED
    BY <1>2, <2>2, <2>5
<1>. QED
  BY <1>1, <1>2

\* f holds the running sums of deltas, each rounded.
Summed(f, deltas, i) == float64(float64(deltas[i]) + (IF i = 1 THEN 0 ELSE f[i - 1]))
Accumulates(f, deltas) == f = [i \in DOMAIN deltas |-> Summed(f, deltas, i)]

SummedUpTo(n, f, deltas) == \A i \in 1..n : f[i] = Summed(f, deltas, i)

LEMMA SummedOnce ==
    ASSUME NEW n \in Nat, NEW deltas, NEW f, NEW g,
           SummedUpTo(n, f, deltas), SummedUpTo(n, g, deltas)
    PROVE  \A i \in 1..n : f[i] = g[i]
<1>. DEFINE T == {i \in 1..n : f[i] # g[i]}
<1>. SUFFICES ASSUME T # {} PROVE FALSE
  OBVIOUS
<1>1. T \in SUBSET Nat /\ \A i \in T : i \in 1..n /\ f[i] # g[i]
  OBVIOUS
<1>2. \A i \in 1..n : i \notin T => f[i] = g[i]
  OBVIOUS
<1>. HIDE DEF T
<1>3. PICK i \in T : \A k \in T : i <= k
  BY <1>1, NatMin
<1>4. i \in 1..n /\ f[i] # g[i]
  BY <1>1, <1>3
<1>5. i # 1 => f[i - 1] = g[i - 1]
  <2>1. i # 1 => i - 1 \in 1..n /\ ~(i <= i - 1)
    BY <1>4
  <2>. QED
    BY <1>2, <1>3, <2>1
<1>6. f[i] = Summed(f, deltas, i) /\ g[i] = Summed(g, deltas, i)
  BY <1>4 DEF SummedUpTo
<1>. QED
  BY <1>4, <1>5, <1>6 DEF Summed

LEMMA Accumulated ==
    ASSUME NEW deltas \in Seq(Int64)
    PROVE  /\ Accumulates(deltasToCounts(deltas), deltas)
           /\ deltasToCounts(deltas) \in Seq(Int)
           /\ Len(deltasToCounts(deltas)) = Len(deltas)
<1>. DEFINE n == Len(deltas)
            d == [k \in Nat |-> IF k = 0 THEN 0 ELSE k - 1]
            F == [k \in Nat |-> [v \in Int |->
                    IF k \in 1..n THEN float64(float64(deltas[k]) + v) ELSE v]]
<1>1. n \in Nat /\ DOMAIN deltas = 1..n /\ \A i \in 1..n : deltas[i] \in Int
  BY SeqTyped, Int64Int
<1>. HIDE DEF n
<1>2. F \in [Nat -> [Int -> Int]]
  <2>1. ASSUME NEW k \in Nat, NEW v \in Int
        PROVE  (IF k \in 1..n THEN float64(float64(deltas[k]) + v) ELSE v) \in Int
    <3>1. ASSUME k \in 1..n PROVE float64(float64(deltas[k]) + v) \in Int
      <4>1. float64(deltas[k]) \in Int
        BY <1>1, <3>1, FloatIs
      <4>2. float64(deltas[k]) + v \in Int
        BY <4>1
      <4>. QED
        BY <4>2, FloatIs
    <3>. QED
      BY <3>1
  <2>. QED
    BY <2>1
<1>3. Descends(d) /\ \A k \in Nat \ {0} : d[k] = k - 1
  BY DEF Descends
<1>4. PICK h \in [Nat -> Int] : Follows(h, 0, d, F)
  <2>. DEFINE V == Int
  <2>1. 0 \in V /\ F \in [Nat -> [V -> V]]
    BY <1>2
  <2>. HIDE DEF F, d, V
  <2>2. \E h \in [Nat -> V] : Follows(h, 0, d, F)
    BY <2>1, <1>3, Recursion
  <2>. QED
    BY <2>2 DEF V
<1>. DEFINE g == [i \in 1..n |-> h[i]]
<1>5. ASSUME NEW i \in 1..n PROVE g[i] = Summed(g, deltas, i) /\ g[i] \in Int
  <2>1. i \in Nat \ {0} /\ i - 1 \in Nat
    BY <1>1
  <2>2. h[i] = F[i][h[i - 1]] /\ h[i - 1] \in Int
    <3>. HIDE DEF F, d
    <3>. QED
      BY <1>3, <1>4, <2>1 DEF Follows
  <2>3. h[i] = float64(float64(deltas[i]) + h[i - 1])
    BY <2>1, <2>2
  <2>4. h[i - 1] = IF i = 1 THEN 0 ELSE g[i - 1]
    <3>1. CASE i = 1
      BY <1>4, <3>1 DEF Follows
    <3>2. CASE i # 1
      <4>1. i - 1 \in 1..n
        BY <1>1, <3>2
      <4>. QED
        BY <3>2, <4>1
    <3>. QED
      BY <3>1, <3>2
  <2>5. g[i] = h[i] /\ g[i] \in Int
    BY <1>4, <2>1
  <2>. QED
    BY <2>3, <2>4, <2>5 DEF Summed
<1>. HIDE DEF F, d
<1>6. Accumulates(g, deltas)
  <2>1. g = [i \in 1..n |-> g[i]]
    OBVIOUS
  <2>. HIDE DEF g
  <2>. QED
    BY <1>1, <1>5, <2>1 DEF Accumulates
<1>7. deltasToCounts(deltas) = CHOOSE f : Accumulates(f, deltas)
  BY DEF deltasToCounts, Accumulates, Summed
<1>. DEFINE c == deltasToCounts(deltas)
<1>8. Accumulates(c, deltas)
  <2>. HIDE DEF c, g
  <2>. QED
    BY <1>6, <1>7 DEF c
<1>. HIDE DEF c
<1>9. c = [i \in 1..n |-> c[i]] /\ \A i \in 1..n : c[i] = Summed(c, deltas, i)
  BY <1>1, <1>8 DEF Accumulates
<1>. HIDE DEF g
<1>10. \A i \in 1..n : c[i] = g[i]
  <2>1. n \in Nat
    BY <1>1
  <2>2. SummedUpTo(n, g, deltas)
    BY <1>5 DEF SummedUpTo
  <2>3. SummedUpTo(n, c, deltas)
    BY <1>9 DEF SummedUpTo
  <2>. QED
    BY <2>1, <2>2, <2>3, SummedOnce
<1>11. \A i \in 1..n : c[i] \in Int
  BY <1>5, <1>10
<1>12. c \in Seq(Int) /\ Len(c) = n
  BY <1>1, <1>9, <1>11, SeqMade
<1>. QED
  BY <1>8, <1>12 DEF c, n

\* deltasToCounts makes of differences the counts whose differences they are, when
\* no count is more than a float holds.
LEMMA DeltasAre ==
    ASSUME NEW deltas \in Seq(Int64), NEW most \in 0..Exact, NEW counts \in CountsOf(deltas, most)
    PROVE  deltasToCounts(deltas) = counts
<1>. DEFINE n == Len(deltas)
            f == deltasToCounts(deltas)
<1>1. n \in Nat /\ DOMAIN deltas = 1..n /\ \A i \in 1..n : deltas[i] \in Int
  BY SeqTyped, Int64Int
<1>. HIDE DEF n
<1>2. /\ counts \in [1..n -> 0..most]
      /\ \A i \in 1..n : deltas[i] = counts[i] - (IF i = 1 THEN 0 ELSE counts[i - 1])
  BY <1>1 DEF CountsOf, Differences
<1>3. Exact \in Nat /\ \A i \in 1..n : counts[i] \in 0..Exact
  BY <1>2, ExactAssumption
<1>4. ASSUME NEW i \in 1..n PROVE counts[i] = Summed(counts, deltas, i)
  <2>. DEFINE c == counts[i]
              b == IF i = 1 THEN 0 ELSE counts[i - 1]
              d == deltas[i]
  <2>1. c \in 0..Exact /\ b \in 0..Exact
    <3>1. i # 1 => i - 1 \in 1..n
      BY <1>1
    <3>. QED
      BY <1>3, <3>1
  <2>2. d = c - b
    BY <1>2
  <2>3. Summed(counts, deltas, i) = float64(float64(d) + b)
    BY DEF Summed
  <2>. HIDE DEF c, b, d
  <2>4. d \in Int /\ d \in -Exact..Exact /\ d + b = c /\ c \in Int /\ c \in -Exact..Exact
    BY <1>3, <2>1, <2>2
  <2>5. float64(d) = d /\ float64(c) = c
    BY <2>4, FloatIs
  <2>. QED
    BY <2>3, <2>4, <2>5 DEF c
<1>5. counts = [i \in 1..n |-> counts[i]]
  BY <1>2
<1>6. Accumulates(f, deltas)
  BY Accumulated
<1>. HIDE DEF f
<1>7. f = [i \in 1..n |-> f[i]] /\ \A i \in 1..n : f[i] = Summed(f, deltas, i)
  BY <1>1, <1>6 DEF Accumulates
<1>8. \A i \in 1..n : f[i] = counts[i]
  <2>1. SummedUpTo(n, f, deltas) /\ SummedUpTo(n, counts, deltas)
    BY <1>4, <1>7 DEF SummedUpTo
  <2>. QED
    BY <1>1, <2>1, SummedOnce
<1>. QED
  BY <1>5, <1>7, <1>8 DEF f

\* What the receiver reads of an integer histogram as a float one.
LEMMA FloatViewOf ==
    ASSUME NEW x \in Natives, ~x.float, NEW m, m = HistogramMade(x)
    PROVE  /\ ToFloatHistogram(m)
                = [HistogramTo(m, "int", deltasToCounts(x.h.NegativeBuckets),
                               deltasToCounts(x.h.PositiveBuckets))
                     EXCEPT !.ZeroCount = float64(Unsigned(@)), !.Count = float64(Unsigned(@))]
           /\ GetOneof(m.ZeroCount, "int") = x.h.ZeroCount /\ m.ZeroCount.v = x.h.ZeroCount
           /\ GetOneof(m.Count, "int") = x.h.Count /\ m.Count.v = x.h.Count
           /\ Holds(m, x.Ts, x.h)
           /\ x.h \in Histograms(Int64)
<1>1. Holds(m, x.Ts, x.h) /\ HoldsInts(m, x.h)
  BY HistogramMadeHolds
<1>2. x.h \in Histograms(Int64)
  BY NativeIs
<1>3. m.Count = IntCount(x.h.Count) /\ m.ZeroCount = IntCount(x.h.ZeroCount)
      /\ m.NegativeDeltas = x.h.NegativeBuckets /\ m.PositiveDeltas = x.h.PositiveBuckets
  BY <1>1 DEF HoldsInts
<1>4. ~IsFloatHistogram(m)
  BY <1>3 DEF IsFloatHistogram, IntCount
<1>5. /\ GetOneof(m.ZeroCount, "int") = x.h.ZeroCount /\ GetOneof(m.Count, "int") = x.h.Count
      /\ m.ZeroCount.v = x.h.ZeroCount /\ m.Count.v = x.h.Count
  BY <1>3 DEF GetOneof, IntCount
<1>6. ToFloatHistogram(m)
        = [HistogramTo(m, "int", deltasToCounts(m.NegativeDeltas), deltasToCounts(m.PositiveDeltas))
             EXCEPT !.ZeroCount = float64(Unsigned(@)), !.Count = float64(Unsigned(@))]
  BY <1>4 DEF ToFloatHistogram
<1>. QED
  BY <1>1, <1>2, <1>3, <1>5, <1>6

LEMMA LenJoined ==
    ASSUME NEW u \in Seq(Int), NEW v \in Seq(Int)
    PROVE  Len(u \o v) = Len(u) + Len(v)
  OBVIOUS

LEMMA HistogramAddsUp ==
    ASSUME NEW x \in Natives, Valid(x), ~x.float, NEW m, m = HistogramMade(x),
           NEW h, h = ToFloatHistogram(m)
    PROVE  InSpans(h, BucketsOf(h)) /\ (Countable(m) => AddsUp(h, BucketsOf(h)))
<1>. DEFINE g == x.h
            u == g.NegativeBuckets
            v == g.PositiveBuckets
            a == deltasToCounts(u)
            b == deltasToCounts(v)
            zero == float64(Unsigned(GetOneof(m.ZeroCount, "int")))
            all == float64(Unsigned(GetOneof(m.Count, "int")))
<1>1. /\ h = [HistogramTo(m, "int", a, b)
                EXCEPT !.ZeroCount = float64(Unsigned(@)), !.Count = float64(Unsigned(@))]
      /\ GetOneof(m.ZeroCount, "int") = g.ZeroCount /\ GetOneof(m.Count, "int") = g.Count
      /\ m.ZeroCount.v = g.ZeroCount /\ m.Count.v = g.Count
      /\ Holds(m, x.Ts, g) /\ g \in Histograms(Int64)
  BY FloatViewOf
<1>2. PICK negative \in CountsOf(u, g.Count), positive \in CountsOf(v, g.Count) :
        AddsUp(g, negative \o positive)
  BY DEF Valid
<1>3. /\ u \in Seq(Int64) /\ v \in Seq(Int64) /\ g.Count \in Int
      /\ g.NegativeSpans \in Seq(Spans) /\ g.PositiveSpans \in Seq(Spans)
  BY <1>1, HistogramHolds, Int64Int
<1>. HIDE DEF u, v, g
<1>4. /\ a \in Seq(Int) /\ Len(a) = Len(u) /\ b \in Seq(Int) /\ Len(b) = Len(v)
  BY <1>3, Accumulated
<1>5. Len(negative \o positive) = Len(u) + Len(v)
  <2>1. ASSUME NEW s \in Seq(Int64), NEW c \in CountsOf(s, g.Count)
        PROVE  c \in Seq(Int) /\ Len(c) = Len(s)
    <3>1. Len(s) \in Nat /\ DOMAIN s = 1..Len(s)
      BY SeqTyped
    <3>2. c \in [1..Len(s) -> 0..g.Count]
      BY <3>1 DEF CountsOf
    <3>3. c = [k \in 1..Len(s) |-> c[k]]
      BY <3>2
    <3>4. \A k \in 1..Len(s) : c[k] \in 0..g.Count
      BY <3>2
    <3>5. \A k \in 1..Len(s) : c[k] \in Int
      BY <1>3, <3>4
    <3>. QED
      BY <3>1, <3>3, <3>5, SeqMade
  <2>2. negative \in Seq(Int) /\ positive \in Seq(Int)
        /\ Len(negative) = Len(u) /\ Len(positive) = Len(v)
    BY <1>2, <1>3, <2>1
  <2>3. Len(negative \o positive) = Len(negative) + Len(positive)
    BY <2>2, LenJoined
  <2>. QED
    BY <2>2, <2>3
<1>6. m.NegativeSpans = spansToSpansProto(g.NegativeSpans)
      /\ m.PositiveSpans = spansToSpansProto(g.PositiveSpans)
  BY <1>1 DEF Holds
<1>7. /\ spansProtoToSpans(m.NegativeSpans) = g.NegativeSpans
      /\ spansProtoToSpans(m.PositiveSpans) = g.PositiveSpans
  BY <1>3, <1>6, SpansBack
<1>. HIDE DEF a, b
<1>8. /\ h.NegativeSpans = g.NegativeSpans /\ h.PositiveSpans = g.PositiveSpans
      /\ h.ZeroCount = zero /\ h.Count = all
      /\ h.NegativeBuckets = a /\ h.PositiveBuckets = b
  BY <1>1, <1>7 DEF HistogramTo
<1>9. BucketsOf(h) = a \o b
  BY <1>8 DEF BucketsOf
<1>10. SpanLengths(h) = SpanLengths(g)
  BY <1>8 DEF SpanLengths
<1>11. InSpans(h, BucketsOf(h))
  <2>1. Len(a \o b) = Len(a) + Len(b)
    BY <1>4, LenJoined
  <2>2. Len(a \o b) = Len(u) + Len(v)
    BY <1>4, <2>1
  <2>. QED
    BY <1>2, <1>5, <1>9, <1>10, <2>2 DEF AddsUp, InSpans
<1>12. ASSUME Countable(m) PROVE AddsUp(h, BucketsOf(h))
  <2>1. g.Count \in 0..Exact /\ g.ZeroCount \in 0..Exact
    BY <1>1, <1>12 DEF Countable
  <2>2. a = negative /\ b = positive
    BY <1>2, <1>3, <2>1, DeltasAre DEF a, b
  <2>3. ASSUME NEW k \in 0..Exact PROVE float64(Unsigned(k)) = k
    <3>1. Unsigned(k) = k /\ k \in Int /\ k \in -Exact..Exact
      BY ExactAssumption DEF Unsigned
    <3>. QED
      BY <3>1, FloatIs
  <2>4. zero = g.ZeroCount /\ all = g.Count
    BY <1>1, <2>1, <2>3
  <2>. QED
    BY <1>2, <1>8, <1>9, <1>10, <2>2, <2>4 DEF AddsUp, InSpans
<1>. QED
  BY <1>11, <1>12

LEMMA ViewFromInv ==
    ASSUME RequestInv, DeliveryInv
    PROVE  FloatViewAddsUp
<1>. SUFFICES ASSUME Arrived, NEW i \in DOMAIN got.Timeseries,
                     NEW j \in DOMAIN got.Timeseries[i].Histograms,
                     NEW o, o = got.Timeseries[i].Histograms[j],
                     NEW h, h = ToFloatHistogram(o), ~IsFloatHistogram(o)
              PROVE  InSpans(h, BucketsOf(h)) /\ (Countable(o) => AddsUp(h, BucketsOf(h)))
  BY DEF FloatViewAddsUp, Range
<1>1. got = TheRequest
  BY DEF DeliveryInv, GotInv
<1>2. got.Timeseries = series
  BY <1>1 DEF TheRequest, NoRequest
<1>. DEFINE s == SentSeries[i]
            m == series[i]
<1>3. IsMessage(m, s) /\ i \in DOMAIN series
  BY <1>2 DEF DeliveryInv, MessagesInv
<1>4. s \in Series /\ m = ToProto(s)
  BY <1>3 DEF IsMessage
<1>5. s \in MetricSeries
  <2>1. series \in Seq(SeriesMessages(Int))
    BY DEF RequestInv, SeriesInv
  <2>2. SentSeries \in Seq(MetricSeries) /\ Len(SentSeries) = Len(series)
    BY SentFrom, SentTyped
  <2>3. i \in 1..Len(SentSeries)
    BY <1>3, <2>1, <2>2, SeqTyped
  <2>. QED
    BY <2>2, <2>3, SeqTyped
<1>. HIDE DEF s
<1>6. m.Histograms = HistogramsOf(s)
  BY <1>4, ProtoMade DEF ProtoHolds
<1>7. j \in 1..Len(s.hists) /\ HistogramsOf(s)[j] = HistogramMade(s.hists[j])
  <2>. DEFINE p == HistogramsOf(s)
  <2>1. /\ p \in Seq(PlainHistograms) /\ Len(p) = Len(s.hists)
        /\ \A k \in 1..Len(s.hists) : p[k] = HistogramMade(s.hists[k])
    BY <1>4, HistogramsBack
  <2>. HIDE DEF p
  <2>2. DOMAIN p = 1..Len(s.hists)
    BY <2>1, SeqTyped
  <2>3. j \in DOMAIN p
    BY <1>2, <1>6 DEF p
  <2>. QED
    BY <2>1, <2>2, <2>3 DEF p
<1>8. s.hists[j] \in Natives /\ Valid(s.hists[j])
  BY <1>5, <1>7, NativeValid
<1>9. o = HistogramMade(s.hists[j]) /\ ~IsFloatHistogram(HistogramMade(s.hists[j]))
  BY <1>2, <1>6, <1>7
<1>10. ~s.hists[j].float
  <2>. DEFINE x == s.hists[j]
              y == HistogramMade(x)
  <2>1. x.float => HoldsFloats(y, x.h)
    BY <1>8, HistogramMadeHolds
  <2>. HIDE DEF x, y
  <2>2. HoldsFloats(y, x.h) => IsFloatHistogram(y)
    BY DEF HoldsFloats, FloatCount, IsFloatHistogram
  <2>. QED
    BY <1>9, <2>1, <2>2 DEF x, y
<1>. QED
  BY <1>8, <1>9, <1>10, HistogramAddsUp

\* A native histogram of integers that the receiver reads as one of floats has as
\* many buckets as it was sent with, and up to 2^53 observations they add up as
\* those it was sent with do (codec.go, deltasToCounts).
THEOREM FloatViewsAddUp == Spec => []FloatViewAddsUp
<1>1. RequestInv /\ DeliveryInv => FloatViewAddsUp
  BY ViewFromInv
<1>. QED
  BY <1>1, RequestInvHolds, DeliveryInvHolds, PTL

-------------------------------------------------------------------------------
(* Sums over sequences. *)

\* An induction up to n.
LEMMA UpFromNothing ==
    ASSUME NEW n \in Nat, NEW good, 0 \in good,
           \A k \in 1..n : k - 1 \in good => k \in good
    PROVE  \A k \in 0..n : k \in good
<1>. DEFINE T1 == {k \in 0..n : k \notin good}
<1>. SUFFICES ASSUME T1 # {} PROVE FALSE
  OBVIOUS
<1>1. T1 \in SUBSET Nat /\ \A k \in T1 : k \in 0..n /\ k \notin good
  OBVIOUS
<1>2. \A k \in 0..n : k \notin T1 => k \in good
  OBVIOUS
<1>. HIDE DEF T1
<1>3. PICK k \in T1 : \A j \in T1 : k <= j
  BY <1>1, NatMin
<1>4. k \in 0..n /\ k \notin good
  BY <1>1, <1>3
<1>5. k \in 1..n /\ k - 1 \in 0..n /\ ~(k <= k - 1)
  BY <1>4
<1>. QED
  BY <1>2, <1>3, <1>4, <1>5

\* What the elements of a sequence weigh.
Weights(w, q) == [i \in 1..Len(q) |-> w[q[i]]]
Total(w, q) == SumFunctionOnSet(Weights(w, q), 1..Len(q))

WeighsEach(f, w, q) == \A i \in 1..Len(q) : f[i] = w[q[i]] /\ f[i] \in Nat

LEMMA WeightsTyped ==
    ASSUME NEW T, NEW w \in [T -> Nat], NEW q \in Seq(T)
    PROVE  Len(q) \in Nat /\ Total(w, q) \in Nat /\ WeighsEach(Weights(w, q), w, q)
<1>. DEFINE f == Weights(w, q)
            n == Len(q)
<1>1. n \in Nat /\ \A i \in 1..n : q[i] \in T
  BY SeqTyped
<1>2. f = [i \in 1..n |-> w[q[i]]]
  BY DEF Weights
<1>. HIDE DEF f, n
<1>3. \A i \in 1..n : f[i] = w[q[i]] /\ f[i] \in Nat
  BY <1>1, <1>2
<1>4. IsFiniteSet(1..n)
  BY <1>1, IntervalFinite
<1>5. SumFunctionOnSet(f, 1..n) \in Nat
  BY <1>3, <1>4, SumNat
<1>. QED
  BY <1>1, <1>3, <1>5 DEF f, n, Total, WeighsEach

\* Sums of sums.
LEMMA SumBoth ==
    ASSUME NEW n \in Nat, NEW f, NEW g, NEW h,
           \A i \in 1..n : f[i] \in Nat /\ g[i] \in Nat /\ h[i] = f[i] + g[i]
    PROVE  SumFunctionOnSet(h, 1..n) = SumFunctionOnSet(f, 1..n) + SumFunctionOnSet(g, 1..n)
<1>. DEFINE good == {k \in 0..n : SumFunctionOnSet(h, 1..k)
                                    = SumFunctionOnSet(f, 1..k) + SumFunctionOnSet(g, 1..k)}
<1>1. 0 \in good
  <2>1. 1..0 = {}
    OBVIOUS
  <2>2. SumFunctionOnSet(h, {}) = 0 /\ SumFunctionOnSet(f, {}) = 0 /\ SumFunctionOnSet(g, {}) = 0
    BY SumOfNothing
  <2>3. SumFunctionOnSet(h, 1..0) = 0 /\ SumFunctionOnSet(f, 1..0) = 0 /\ SumFunctionOnSet(g, 1..0) = 0
    BY <2>1, <2>2
  <2>. QED
    BY <2>3
<1>2. ASSUME NEW k \in 1..n, k - 1 \in good PROVE k \in good
  <2>. DEFINE j == k - 1
  <2>1. /\ j \in Nat /\ k = j + 1 /\ k \in 1..n /\ k \in 0..n
        /\ SumFunctionOnSet(h, 1..j) = SumFunctionOnSet(f, 1..j) + SumFunctionOnSet(g, 1..j)
    BY <1>2
  <2>. HIDE DEF j
  <2>2. \A i \in 1..(j + 1) : i \in 1..n
    BY <2>1
  <2>3. \A i \in 1..(j + 1) : f[i] \in Nat /\ g[i] \in Nat /\ h[i] \in Nat
    BY <2>2
  <2>4. /\ SumFunctionOnSet(h, 1..j) \in Nat
        /\ SumFunctionOnSet(h, 1..(j + 1)) = SumFunctionOnSet(h, 1..j) + h[j + 1]
    BY <2>1, <2>3, SumNext
  <2>5. /\ SumFunctionOnSet(f, 1..j) \in Nat
        /\ SumFunctionOnSet(f, 1..(j + 1)) = SumFunctionOnSet(f, 1..j) + f[j + 1]
    BY <2>1, <2>3, SumNext
  <2>6. /\ SumFunctionOnSet(g, 1..j) \in Nat
        /\ SumFunctionOnSet(g, 1..(j + 1)) = SumFunctionOnSet(g, 1..j) + g[j + 1]
    BY <2>1, <2>3, SumNext
  <2>7. h[k] = f[k] + g[k] /\ f[k] \in Nat /\ g[k] \in Nat
    OBVIOUS
  <2>. DEFINE a == SumFunctionOnSet(f, 1..j)
              b == SumFunctionOnSet(g, 1..j)
              a2 == SumFunctionOnSet(f, 1..k)
              b2 == SumFunctionOnSet(g, 1..k)
              c == SumFunctionOnSet(h, 1..k)
              x == f[k]
              y == g[k]
  <2>8. /\ a \in Nat /\ b \in Nat /\ x \in Nat /\ y \in Nat
        /\ a2 = a + x /\ b2 = b + y /\ c = (a + b) + (x + y)
    BY <2>1, <2>4, <2>5, <2>6, <2>7
  <2>. HIDE DEF a, b, a2, b2, c, x, y
  <2>9. c = a2 + b2
    BY <2>8
  <2>. QED
    BY <2>1, <2>9 DEF a2, b2, c
<1>. HIDE DEF good
<1>3. \A k \in 0..n : k \in good
  BY <1>1, <1>2, UpFromNothing
<1>4. n \in good
  <2>1. n \in 0..n
    OBVIOUS
  <2>. QED
    BY <1>3, <2>1
<1>. QED
  BY <1>4 DEF good

\* One sequence after the other weighs as much as both.
TotalOfBoth(w, u, v, q) == Total(w, q) = Total(w, u) + Total(w, v)

LEMMA TotalJoined ==
    ASSUME NEW T, NEW w \in [T -> Nat], NEW u \in Seq(T), NEW v \in Seq(T),
           NEW q, q = u \o v
    PROVE  TotalOfBoth(w, u, v, q)
<1>. DEFINE l == Len(u)
            n == Len(v)
            f == Weights(w, u)
            g == Weights(w, v)
            h == Weights(w, q)
<1>1. /\ l \in Nat /\ n \in Nat /\ q \in Seq(T) /\ Len(q) = l + n
      /\ \A j \in 1..l : j \in 1..Len(q) /\ q[j] = u[j]
      /\ \A j \in 1..n : l + j \in 1..Len(q) /\ q[l + j] = v[j]
  BY Joined DEF EndsWith
<1>2. /\ \A i \in 1..l : f[i] = w[u[i]] /\ f[i] \in Nat
      /\ \A i \in 1..n : g[i] = w[v[i]] /\ g[i] \in Nat
      /\ \A i \in 1..Len(q) : h[i] = w[q[i]] /\ h[i] \in Nat
  <2>1. WeighsEach(f, w, u) /\ WeighsEach(g, w, v) /\ WeighsEach(h, w, q)
    BY <1>1, WeightsTyped
  <2>. HIDE DEF f, g, h
  <2>. QED
    BY <2>1 DEF WeighsEach
<1>3. /\ Total(w, u) = SumFunctionOnSet(f, 1..l)
      /\ Total(w, v) = SumFunctionOnSet(g, 1..n)
      /\ Total(w, q) = SumFunctionOnSet(h, 1..(l + n))
  BY <1>1 DEF Total
<1>. HIDE DEF l, n, f, g, h
<1>4. (\A i \in 1..l : h[i] = f[i]) /\ (\A i \in 1..n : h[l + i] = g[i])
  <2>1. ASSUME NEW i \in 1..l PROVE h[i] = f[i]
    <3>1. i \in 1..Len(q) /\ q[i] = u[i]
      BY <1>1
    <3>2. h[i] = w[q[i]] /\ f[i] = w[u[i]]
      BY <1>2, <3>1
    <3>. QED
      BY <3>1, <3>2
  <2>2. ASSUME NEW i \in 1..n PROVE h[l + i] = g[i]
    <3>. DEFINE k == l + i
    <3>1. k \in 1..Len(q) /\ q[k] = v[i]
      BY <1>1
    <3>. HIDE DEF k
    <3>2. h[k] = g[i]
      BY <1>2, <3>1
    <3>. QED
      BY <3>2 DEF k
  <2>. QED
    BY <2>1, <2>2
<1>. DEFINE a == SumFunctionOnSet(f, 1..l)
<1>5. a \in Nat /\ SumFunctionOnSet(h, 1..l) = a
  <2>1. IsFiniteSet(1..l)
    BY <1>1, IntervalFinite
  <2>. QED
    BY <1>2, <1>4, <2>1, SumNat, SumSame
<1>. HIDE DEF a
<1>. DEFINE good == {k \in 0..n : SumFunctionOnSet(h, 1..(l + k)) = a + SumFunctionOnSet(g, 1..k)}
<1>6. 0 \in good
  <2>1. 1..0 = {} /\ l + 0 = l /\ 0 \in 0..n /\ a + 0 = a
    BY <1>1, <1>5
  <2>2. SumFunctionOnSet(g, 1..0) = 0
    BY <2>1, SumOfNothing
  <2>. QED
    BY <1>5, <2>1, <2>2
<1>7. ASSUME NEW k \in 1..n, k - 1 \in good PROVE k \in good
  <2>. DEFINE j == k - 1
              m == l + j
  <2>1. /\ j \in Nat /\ k = j + 1 /\ k \in 0..n
        /\ SumFunctionOnSet(h, 1..(l + j)) = a + SumFunctionOnSet(g, 1..j)
    BY <1>1, <1>7
  <2>. HIDE DEF j
  <2>2. m \in Nat /\ l + k = m + 1
    BY <1>1, <2>1
  <2>3. \A i \in 1..(j + 1) : g[i] \in Nat
    BY <1>1, <1>2, <2>1
  <2>4. \A i \in 1..(m + 1) : h[i] \in Nat
    <3>1. \A i \in 1..(m + 1) : i \in 1..Len(q)
      BY <1>1, <2>1
    <3>. QED
      BY <1>2, <3>1
  <2>5. h[m + 1] = g[k]
    BY <1>4, <2>2
  <2>6. SumFunctionOnSet(h, 1..m) = a + SumFunctionOnSet(g, 1..j)
    BY <2>1
  <2>. HIDE DEF m
  <2>7. /\ SumFunctionOnSet(h, 1..m) \in Nat
        /\ SumFunctionOnSet(h, 1..(m + 1)) = SumFunctionOnSet(h, 1..m) + h[m + 1]
    BY <2>2, <2>4, SumNext
  <2>8. /\ SumFunctionOnSet(g, 1..j) \in Nat
        /\ SumFunctionOnSet(g, 1..(j + 1)) = SumFunctionOnSet(g, 1..j) + g[j + 1]
    BY <2>1, <2>3, SumNext
  <2>9. g[k] \in Nat
    BY <1>2
  <2>. DEFINE b == SumFunctionOnSet(g, 1..j)
              b2 == SumFunctionOnSet(g, 1..k)
              c == SumFunctionOnSet(h, 1..(l + k))
              x == g[k]
  <2>10. b \in Nat /\ x \in Nat /\ b2 = b + x /\ c = (a + b) + x
    BY <2>1, <2>2, <2>5, <2>6, <2>7, <2>8, <2>9
  <2>. HIDE DEF b, b2, c, x
  <2>11. c = a + b2
    BY <1>5, <2>10
  <2>. QED
    BY <2>1, <2>11 DEF b2, c
<1>. HIDE DEF good
<1>8. \A k \in 0..n : k \in good
  BY <1>1, <1>6, <1>7, UpFromNothing
<1>9. n \in good
  <2>1. n \in 0..n
    BY <1>1
  <2>. QED
    BY <1>8, <2>1
<1>10. SumFunctionOnSet(h, 1..(l + n)) = a + SumFunctionOnSet(g, 1..n)
  BY <1>9 DEF good
<1>. QED
  BY <1>3, <1>10 DEF a, TotalOfBoth

\* And a flattened sequence as much as its parts.
LEMMA TotalFlat ==
    ASSUME NEW T, NEW w \in [T -> Nat], NEW ss, Parts(ss, T),
           NEW t, \A n \in 1..Len(ss) : t[n] = Total(w, ss[n])
    PROVE  /\ Total(w, FlattenSeq(ss)) = SumFunctionOnSet(t, 1..Len(ss))
           /\ \A n \in 1..Len(ss) : t[n] \in Nat
<1>. DEFINE l == Len(ss)
<1>1. PICK h \in [Nat -> Seq(T)] :
        /\ h[0] = <<>>
        /\ \A n \in 1..l : h[n] = h[n - 1] \o ss[n]
        /\ FlattenSeq(ss) = h[l]
  BY PartsOf
<1>2. l \in Nat /\ \A n \in 1..l : ss[n] \in Seq(T)
  BY PartsOf
<1>3. \A n \in 1..l : t[n] = Total(w, ss[n]) /\ t[n] \in Nat
  <2>1. \A n \in 1..l : Total(w, ss[n]) \in Nat
    BY <1>2, WeightsTyped
  <2>. QED
    BY <2>1
<1>. HIDE DEF l
<1>. DEFINE good == {k \in 0..l : Total(w, h[k]) = SumFunctionOnSet(t, 1..k)}
<1>4. 0 \in good
  <2>1. Len(<<>>) = 0 /\ 1..0 = {} /\ 0 \in 0..l
    BY <1>2
  <2>2. Total(w, <<>>) = SumFunctionOnSet(Weights(w, <<>>), {})
    BY <2>1 DEF Total
  <2>3. SumFunctionOnSet(Weights(w, <<>>), {}) = 0 /\ SumFunctionOnSet(t, {}) = 0
    BY SumOfNothing
  <2>. QED
    BY <1>1, <2>1, <2>2, <2>3
<1>5. ASSUME NEW k \in 1..l, k - 1 \in good PROVE k \in good
  <2>. DEFINE j == k - 1
  <2>1. /\ j \in Nat /\ k = j + 1 /\ k \in 0..l /\ k \in Nat
        /\ Total(w, h[j]) = SumFunctionOnSet(t, 1..j) /\ h[k] = h[j] \o ss[k]
    <3>1. j \in Nat /\ k = j + 1 /\ k \in 0..l /\ k \in Nat
      BY <1>2
    <3>2. Total(w, h[j]) = SumFunctionOnSet(t, 1..j)
      BY <1>5
    <3>3. h[k] = h[j] \o ss[k]
      BY <1>1
    <3>. QED
      BY <3>1, <3>2, <3>3
  <2>. HIDE DEF j
  <2>2. \A i \in 1..(j + 1) : t[i] \in Nat
    BY <1>2, <1>3, <2>1
  <2>3. SumFunctionOnSet(t, 1..(j + 1)) = SumFunctionOnSet(t, 1..j) + t[j + 1]
    BY <2>1, <2>2, SumNext
  <2>4. h[j] \in Seq(T) /\ ss[k] \in Seq(T)
    BY <1>1, <1>2, <2>1
  <2>5. Total(w, h[k]) = Total(w, h[j]) + Total(w, ss[k])
    <3>. DEFINE u == h[j]
                v == ss[k]
                q == h[k]
    <3>1. u \in Seq(T) /\ v \in Seq(T) /\ q = u \o v
      BY <2>1, <2>4
    <3>. HIDE DEF u, v, q
    <3>2. TotalOfBoth(w, u, v, q)
      BY <3>1, TotalJoined
    <3>. QED
      BY <3>2 DEF TotalOfBoth, u, v, q
  <2>6. t[k] = Total(w, ss[k])
    BY <1>3
  <2>. QED
    BY <2>1, <2>3, <2>5, <2>6
<1>. HIDE DEF good
<1>6. \A k \in 0..l : k \in good
  BY <1>2, <1>4, <1>5, UpFromNothing
<1>7. l \in good
  <2>1. l \in 0..l
    BY <1>2
  <2>. QED
    BY <1>6, <2>1
<1>8. Total(w, h[l]) = SumFunctionOnSet(t, 1..l)
  BY <1>7 DEF good
<1>. QED
  BY <1>1, <1>3, <1>8 DEF l

-------------------------------------------------------------------------------
(* The data points. *)

LEMMA BucketsCounted ==
    ASSUME NEW b \in Nat, NEW P, P = {"bucket"} \X (1..b)
    PROVE  IsFiniteSet(P) /\ Cardinality(P) = b
<1>. DEFINE f == [i \in 1..b |-> <<"bucket", i>>]
<1>1. f \in Bijection(1..b, P)
  <2>1. f \in [1..b -> P]
    OBVIOUS
  <2>2. \A i, j \in 1..b : f[i] = f[j] => i = j
    OBVIOUS
  <2>3. \A p \in P : \E i \in 1..b : f[i] = p
    OBVIOUS
  <2>. HIDE DEF f
  <2>. QED
    BY <2>1, <2>2, <2>3 DEF Bijection, Injection, Surjection, IsInjective
<1>2. ExistsBijection(1..b, P)
  BY <1>1 DEF ExistsBijection
<1>. QED
  BY <1>2, FS_CountingElements, FS_NatBijection

\* A data point is exposed as many samples as the receiver counts of it.
LEMMA ExpositionCounted ==
    ASSUME NEW dp \in Points
    PROVE  /\ countMetricSamples(dp) \in Nat
           /\ Cardinality(Exposition(dp)) = countMetricSamples(dp)
<1>. DEFINE b == dp.buckets
            P == {"bucket"} \X (1..b)
            c == <<"count", 1>>
            d == <<"sum", 1>>
            Q == P \cup {c}
            R == Q \cup {d}
<1>1. /\ dp.kind \in {"gauge", "sum", "histogram", "summary"} /\ b \in Nat
      /\ dp.sum \in BOOLEAN
  BY DEF Points
<1>2. c \notin P /\ d \notin Q
  OBVIOUS
<1>3. CASE dp.kind \in {"gauge", "sum"}
  <2>1. Exposition(dp) = {<<"value", 1>>}
    BY <1>3 DEF Exposition
  <2>2. countMetricSamples(dp) = 1
    BY <1>3 DEF countMetricSamples
  <2>3. Cardinality(Exposition(dp)) = 1
    <3>. DEFINE e == <<"value", 1>>
    <3>1. Exposition(dp) = {e}
      BY <2>1
    <3>. HIDE DEF e
    <3>. QED
      BY <3>1, FS_Singleton
  <2>. QED
    BY <2>2, <2>3
<1>4. CASE dp.kind \in {"histogram", "summary"}
  <2>1. IsFiniteSet(P) /\ Cardinality(P) = b
    BY <1>1, BucketsCounted
  <2>2. Exposition(dp) = IF dp.sum \/ dp.kind = "summary" THEN R ELSE Q
    BY <1>4 DEF Exposition
  <2>3. countMetricSamples(dp) = IF dp.sum \/ dp.kind = "summary" THEN b + 2 ELSE b + 1
    BY <1>1, <1>4 DEF countMetricSamples
  <2>. HIDE DEF b, P, c, d
  <2>4. IsFiniteSet(Q) /\ Cardinality(Q) = b + 1
    BY <1>2, <2>1, FS_AddElement
  <2>. HIDE DEF Q
  <2>5. Cardinality(R) = (b + 1) + 1
    BY <1>2, <2>4, FS_AddElement
  <2>. HIDE DEF R
  <2>6. b \in Nat
    BY <1>1 DEF b
  <2>. QED
    BY <2>2, <2>3, <2>4, <2>5, <2>6
<1>. QED
  BY <1>1, <1>3, <1>4

\* A native histogram has the buckets its spans say.
LEMMA NativeCounted ==
    ASSUME NEW x \in Natives, Valid(x)
    PROVE  /\ NativePoints(x) \in Nat
           /\ countHistogramDataPoints(HistogramMade(x)) = NativePoints(x)
<1>. DEFINE m == HistogramMade(x)
            u == x.h.NegativeBuckets
            v == x.h.PositiveBuckets
            z == SpanLengths(x.h)
            p == x.h.CustomValues
            k == Len(u)
            l == Len(v)
<1>1. Holds(m, x.Ts, x.h) /\ (x.float => HoldsFloats(m, x.h)) /\ (~x.float => HoldsInts(m, x.h))
  BY HistogramMadeHolds
<1>2. \E number : u \in Seq(number) /\ v \in Seq(number) /\ p \in Seq(Floats)
  BY NativeIs, HistogramHolds
<1>3. k \in Nat /\ l \in Nat /\ Len(p) \in Nat
  <2>. HIDE DEF u, v, p
  <2>. QED
    BY <1>2, LenProperties
<1>4. z = k + l
  <2>1. CASE x.float
    <3>1. Len(u \o v) = z
      BY <2>1 DEF Valid, InSpans, BucketsOf
    <3>. HIDE DEF u, v, z
    <3>. QED
      BY <1>2, <3>1
  <2>2. CASE ~x.float
    <3>1. PICK negative \in CountsOf(u, x.h.Count), positive \in CountsOf(v, x.h.Count) :
            Len(negative \o positive) = z
      BY <2>2 DEF Valid, AddsUp, InSpans
    <3>. HIDE DEF u, v, z
    <3>2. DOMAIN u = 1..k /\ DOMAIN v = 1..l
      BY <1>2, SeqTyped
    <3>3. negative \in [1..k -> 0..x.h.Count] /\ positive \in [1..l -> 0..x.h.Count]
      BY <3>2 DEF CountsOf
    <3>. DEFINE N == 0..x.h.Count
    <3>. HIDE DEF k, l, N
    <3>4. negative \in Seq(N) /\ Len(negative) = k /\ positive \in Seq(N) /\ Len(positive) = l
      <4>1. \A n \in Nat : \A f \in [1..n -> N] : f \in Seq(N) /\ Len(f) = n
        OBVIOUS
      <4>. QED
        BY <1>3, <3>3, <4>1 DEF N
    <3>. QED
      BY <3>1, <3>4
  <2>. QED
    BY <2>1, <2>2
<1>5. /\ m.CustomValues = p
      /\ Len(m.PositiveDeltas) + Len(m.PositiveCounts)
            + Len(m.NegativeDeltas) + Len(m.NegativeCounts) = z
  <2>. HIDE DEF m
  <2>1. m.CustomValues = p
    BY <1>1 DEF Holds
  <2>2. Len(<<>>) = 0
    OBVIOUS
  <2>3. CASE x.float
    <3>1. m.NegativeCounts = u /\ m.PositiveCounts = v /\ m.NegativeDeltas = <<>> /\ m.PositiveDeltas = <<>>
      BY <1>1, <2>3 DEF HoldsFloats
    <3>2. Len(m.PositiveDeltas) = 0 /\ Len(m.PositiveCounts) = l
          /\ Len(m.NegativeDeltas) = 0 /\ Len(m.NegativeCounts) = k
      BY <2>2, <3>1
    <3>. HIDE DEF k, l, z
    <3>. QED
      BY <1>3, <1>4, <2>1, <3>2
  <2>4. CASE ~x.float
    <3>1. m.NegativeDeltas = u /\ m.PositiveDeltas = v /\ m.NegativeCounts = <<>> /\ m.PositiveCounts = <<>>
      BY <1>1, <2>4 DEF HoldsInts
    <3>2. Len(m.PositiveDeltas) = l /\ Len(m.PositiveCounts) = 0
          /\ Len(m.NegativeDeltas) = k /\ Len(m.NegativeCounts) = 0
      BY <2>2, <3>1
    <3>. HIDE DEF k, l, z
    <3>. QED
      BY <1>3, <1>4, <2>1, <3>2
  <2>. QED
    BY <2>3, <2>4
<1>. HIDE DEF m, u, v, k, l
<1>6. NativePoints(x) = IF z > 0 THEN z ELSE IF p # <<>> THEN Len(p) ELSE 1
  BY DEF NativePoints
<1>7. countHistogramDataPoints(m) = IF z > 0 THEN z ELSE IF p # <<>> THEN Len(p) ELSE 1
  BY <1>5 DEF countHistogramDataPoints
<1>8. z \in Nat
  BY <1>3, <1>4
<1>. HIDE DEF z, p
<1>. QED
  BY <1>3, <1>6, <1>7, <1>8 DEF m, p

\* What a series, a histogram and a data point count for.
ValidNatives == {x \in Natives : Valid(x)}
SampleWeight == [s \in MetricSeries |-> Len(s.samples)]
NativeWeight == [x \in ValidNatives |-> NativePoints(x)]
PointWeight == [dp \in Points |-> countMetricSamples(dp)]

LEMMA WeightsAre ==
    /\ SampleWeight \in [MetricSeries -> Nat]
    /\ NativeWeight \in [ValidNatives -> Nat]
    /\ PointWeight \in [Points -> Nat]
<1>1. \A s \in MetricSeries : Len(s.samples) \in Nat
  <2>1. \A s \in MetricSeries : s \in Series
    BY DEF MetricSeries
  <2>2. \A s \in Series : Len(s.samples) \in Nat
    <3>1. ASSUME NEW s \in Series PROVE Len(s.samples) \in Nat
      <4>. DEFINE q == s.samples
      <4>1. q \in Seq([Value : Floats, Ts : Int64])
        BY SeriesFields
      <4>. HIDE DEF q
      <4>2. Len(q) \in Nat
        BY <4>1, LenProperties
      <4>. QED
        BY <4>2 DEF q
    <3>. QED
      BY <3>1
  <2>. QED
    BY <2>1, <2>2
<1>2. \A x \in ValidNatives : NativePoints(x) \in Nat
  BY NativeCounted DEF ValidNatives
<1>3. \A dp \in Points : countMetricSamples(dp) \in Nat
  BY ExpositionCounted
<1>. QED
  BY <1>1, <1>2, <1>3 DEF SampleWeight, NativeWeight, PointWeight

\* The sums of the model are totals.
LEMMA SumIs ==
    ASSUME NEW n, NEW q, DOMAIN q = 1..n
    PROVE  Sum(q) = SumFunctionOnSet(q, 1..n)
BY DEF Sum, SumFunction

\* The histograms of a series.
LEMMA HistsValid ==
    ASSUME NEW s \in MetricSeries
    PROVE  s.hists \in Seq(ValidNatives)
<1>. DEFINE q == s.hists
<1>1. q \in Seq(Natives)
  BY SeriesFields DEF Natives, MetricSeries
<1>2. Len(q) \in Nat /\ q = [j \in 1..Len(q) |-> q[j]]
  BY <1>1, SeqTyped, SeqIs
<1>3. \A j \in 1..Len(q) : q[j] \in ValidNatives
  BY NativeValid DEF ValidNatives
<1>. HIDE DEF q
<1>4. q \in Seq(ValidNatives)
  BY <1>2, <1>3, SeqMade
<1>. QED
  BY <1>4 DEF q

\* What the receiver counts of a series.
LEMMA SeriesCounted ==
    ASSUME NEW s \in MetricSeries, NEW m, m = ToProto(s)
    PROVE  /\ Len(m.Samples) = SampleWeight[s]
           /\ Sum(Each(m.Histograms, countHistogramDataPoints)) = Total(NativeWeight, s.hists)
<1>1. s \in Series
  BY DEF MetricSeries
<1>2. m.Samples = SamplesOf(s) /\ m.Histograms = HistogramsOf(s)
  BY ProtoMade DEF ProtoHolds
<1>3. Len(m.Samples) = SampleWeight[s]
  <2>1. Len(SamplesOf(s)) = Len(s.samples)
    BY <1>1, SamplesBack
  <2>. QED
    BY <1>2, <2>1 DEF SampleWeight
<1>. DEFINE q == s.hists
            p == HistogramsOf(s)
            n == Len(q)
            f == Each(p, countHistogramDataPoints)
<1>4. /\ p \in Seq(PlainHistograms) /\ Len(p) = n
      /\ \A j \in 1..n : p[j] = HistogramMade(q[j])
  BY <1>1, HistogramsBack
<1>5. q \in Seq(ValidNatives)
  BY HistsValid
<1>. HIDE DEF p, q
<1>6. n \in Nat /\ DOMAIN p = 1..n /\ \A j \in 1..n : q[j] \in Natives /\ Valid(q[j])
      /\ q[j] \in ValidNatives
  <2>1. n \in Nat /\ \A j \in 1..n : q[j] \in ValidNatives
    BY <1>5, SeqTyped
  <2>2. DOMAIN p = 1..n
    BY <1>4, SeqTyped
  <2>. QED
    BY <2>1, <2>2 DEF ValidNatives
<1>. HIDE DEF n
<1>7. f = [j \in 1..n |-> countHistogramDataPoints(p[j])]
  BY <1>6 DEF Each
<1>. DEFINE g == Weights(NativeWeight, q)
<1>8. WeighsEach(g, NativeWeight, q)
  BY <1>5, WeightsAre, WeightsTyped
<1>9. Total(NativeWeight, q) = SumFunctionOnSet(g, 1..n)
  BY DEF Total, n
<1>. HIDE DEF f, g
<1>10. \A j \in 1..n : f[j] = NativePoints(q[j])
  BY <1>4, <1>6, <1>7, NativeCounted
<1>11. \A j \in 1..n : g[j] = NativePoints(q[j]) /\ g[j] \in Nat
  <2>1. \A j \in 1..n : g[j] = NativeWeight[q[j]] /\ g[j] \in Nat
    BY <1>8 DEF WeighsEach, n
  <2>. QED
    BY <1>6, <2>1 DEF NativeWeight
<1>12. SumFunctionOnSet(f, 1..n) = SumFunctionOnSet(g, 1..n)
  <2>1. IsFiniteSet(1..n)
    BY <1>6, IntervalFinite
  <2>2. \A j \in 1..n : g[j] \in Nat /\ f[j] = g[j]
    BY <1>10, <1>11
  <2>. QED
    BY <2>1, <2>2, SumSame
<1>13. Sum(f) = SumFunctionOnSet(f, 1..n)
  BY <1>7, SumIs
<1>. QED
  BY <1>2, <1>3, <1>9, <1>12, <1>13 DEF f, p, q

\* A sum over the elements of a sequence is its total.
LEMMA SumIsTotal ==
    ASSUME NEW T, NEW w \in [T -> Nat], NEW q \in Seq(T),
           NEW f, f = [i \in DOMAIN q |-> f[i]], \A i \in 1..Len(q) : f[i] = w[q[i]]
    PROVE  Sum(f) = Total(w, q)
<1>. DEFINE n == Len(q)
            g == Weights(w, q)
<1>1. n \in Nat /\ DOMAIN q = 1..n
  BY SeqTyped
<1>2. DOMAIN f = 1..n
  BY <1>1
<1>3. WeighsEach(g, w, q)
  BY WeightsTyped
<1>4. Total(w, q) = SumFunctionOnSet(g, 1..n)
  BY DEF Total
<1>. HIDE DEF n, g
<1>5. Sum(f) = SumFunctionOnSet(f, 1..n)
  BY <1>2, SumIs
<1>6. \A i \in 1..n : g[i] \in Nat /\ f[i] = g[i]
  BY <1>3 DEF WeighsEach, n
<1>7. IsFiniteSet(1..n)
  BY <1>1, IntervalFinite
<1>8. SumFunctionOnSet(f, 1..n) = SumFunctionOnSet(g, 1..n)
  BY <1>6, <1>7, SumSame
<1>. QED
  BY <1>4, <1>5, <1>8

\* What the receiver counts of the series it got: their samples, and the points
\* of their histograms.
NativesOf(ss) == Each(ss, LAMBDA s : s.hists)

LEMMA NativesAre ==
    ASSUME NEW ss \in Seq(MetricSeries)
    PROVE  /\ Parts(NativesOf(ss), ValidNatives) /\ Len(NativesOf(ss)) = Len(ss)
           /\ \A i \in 1..Len(ss) : NativesOf(ss)[i] = ss[i].hists
<1>. DEFINE n == Len(ss)
            q == NativesOf(ss)
<1>1. n \in Nat /\ DOMAIN ss = 1..n /\ \A i \in 1..n : ss[i] \in MetricSeries
  BY SeqTyped
<1>2. q = [i \in 1..n |-> ss[i].hists]
  BY <1>1 DEF NativesOf, Each
<1>. HIDE DEF n, q
<1>3. \A i \in 1..n : ss[i].hists \in Seq(ValidNatives)
  BY <1>1, HistsValid
<1>4. q = [i \in 1..n |-> q[i]] /\ \A i \in 1..n : q[i] \in Seq(ValidNatives) /\ q[i] = ss[i].hists
  BY <1>2, <1>3
<1>5. q \in Seq(Seq(ValidNatives)) /\ Len(q) = n
  BY <1>1, <1>4, SeqMade
<1>. QED
  BY <1>4, <1>5 DEF n, q, Parts

LEMMA ReceivedCounted ==
    ASSUME NEW ss \in Seq(MetricSeries), NEW ms, DOMAIN ms = 1..Len(ss),
           \A i \in 1..Len(ss) : ms[i] = ToProto(ss[i]),
           NEW req, req.Timeseries = ms
    PROVE  countRemoteWriteV2DataPoints(req)
             = Total(SampleWeight, ss) + Total(NativeWeight, FlattenSeq(NativesOf(ss)))
<1>. DEFINE n == Len(ss)
            f == Weights(SampleWeight, ss)
            q == NativesOf(ss)
            g == [i \in 1..n |-> Total(NativeWeight, q[i])]
            h == Each(ms, LAMBDA ts :
                   Len(ts.Samples) + Sum(Each(ts.Histograms, countHistogramDataPoints)))
<1>1. n \in Nat /\ \A i \in 1..n : ss[i] \in MetricSeries
  BY SeqTyped
<1>2. /\ Parts(q, ValidNatives) /\ Len(q) = n
      /\ \A i \in 1..n : q[i] = ss[i].hists
  BY NativesAre
<1>3. WeighsEach(f, SampleWeight, ss) /\ Total(SampleWeight, ss) = SumFunctionOnSet(f, 1..n)
  BY WeightsAre, WeightsTyped DEF Total
<1>4. h = [i \in 1..n |->
             Len(ms[i].Samples) + Sum(Each(ms[i].Histograms, countHistogramDataPoints))]
  BY DEF Each
<1>5. countRemoteWriteV2DataPoints(req) = Sum(h)
  BY DEF countRemoteWriteV2DataPoints
<1>. HIDE DEF f, q, h
<1>6. DOMAIN h = 1..n /\ \A i \in 1..n : g[i] = Total(NativeWeight, q[i])
  BY <1>4
<1>. HIDE DEF n, g
<1>7. /\ Total(NativeWeight, FlattenSeq(q)) = SumFunctionOnSet(g, 1..n)
      /\ \A i \in 1..n : g[i] \in Nat
  <2>1. NativeWeight \in [ValidNatives -> Nat] /\ \A i \in 1..Len(q) : g[i] = Total(NativeWeight, q[i])
    BY <1>2, <1>6, WeightsAre
  <2>2. /\ Total(NativeWeight, FlattenSeq(q)) = SumFunctionOnSet(g, 1..Len(q))
        /\ \A i \in 1..Len(q) : g[i] \in Nat
    BY <1>2, <2>1, TotalFlat
  <2>. QED
    BY <1>2, <2>2
<1>8. ASSUME NEW i \in 1..n PROVE f[i] \in Nat /\ g[i] \in Nat /\ h[i] = f[i] + g[i]
  <2>. DEFINE s == ss[i]
              m == ms[i]
  <2>1. s \in MetricSeries /\ m = ToProto(s) /\ g[i] = Total(NativeWeight, s.hists)
    BY <1>1, <1>2, <1>6 DEF n
  <2>2. f[i] = SampleWeight[s] /\ f[i] \in Nat
    BY <1>3 DEF WeighsEach, n
  <2>3. h[i] = Len(m.Samples) + Sum(Each(m.Histograms, countHistogramDataPoints))
    BY <1>4
  <2>. HIDE DEF s, m
  <2>4. /\ Len(m.Samples) = SampleWeight[s]
        /\ Sum(Each(m.Histograms, countHistogramDataPoints)) = Total(NativeWeight, s.hists)
    BY <2>1, SeriesCounted
  <2>. QED
    BY <1>7, <2>1, <2>2, <2>3, <2>4
<1>9. SumFunctionOnSet(h, 1..n) = SumFunctionOnSet(f, 1..n) + SumFunctionOnSet(g, 1..n)
  BY <1>1, <1>8, SumBoth
<1>10. Sum(h) = SumFunctionOnSet(h, 1..n)
  BY <1>6, SumIs
<1>. QED
  BY <1>3, <1>5, <1>7, <1>9, <1>10 DEF q

\* A metric is scraped as many samples as OTLP counts of it.
LEMMA MetricCounted ==
    ASSUME NEW metric \in Metrics
    PROVE  /\ metric.series \in Seq(MetricSeries) /\ metric.points \in Seq(Points)
           /\ Total(SampleWeight, metric.series) = Total(PointWeight, metric.points)
<1>. DEFINE u == metric.series
            v == metric.points
            f == Each(u, LAMBDA s : Len(s.samples))
            g == Each(v, LAMBDA dp : Cardinality(Exposition(dp)))
<1>1. u \in Seq(Series) /\ v \in Seq(Points)
  BY MetricsAssumption
<1>2. Sum(f) = Sum(g)
  BY ScrapeAssumption
<1>3. /\ Len(u) \in Nat /\ DOMAIN u = 1..Len(u) /\ u = [i \in 1..Len(u) |-> u[i]]
      /\ \A i \in 1..Len(u) : u[i] \in Series /\ u[i] \in Range(u)
  BY <1>1, SeqTyped, SeqIs, RangeTyped
<1>4. \A i \in 1..Len(u) : u[i] \in MetricSeries
  BY <1>3 DEF MetricSeries
<1>5. f = [i \in DOMAIN u |-> Len(u[i].samples)] /\ g = [i \in DOMAIN v |-> Cardinality(Exposition(v[i]))]
  BY DEF Each
<1>. HIDE DEF u, v, f, g
<1>6. u \in Seq(MetricSeries)
  BY <1>3, <1>4, SeqMade
<1>7. \A i \in 1..Len(u) : f[i] = SampleWeight[u[i]]
  <2>1. \A i \in 1..Len(u) : f[i] = Len(u[i].samples)
    BY <1>3, <1>5
  <2>. QED
    BY <1>4, <2>1 DEF SampleWeight
<1>8. Sum(f) = Total(SampleWeight, u)
  <2>1. f = [i \in DOMAIN u |-> f[i]]
    BY <1>5
  <2>. QED
    BY <1>6, <1>7, <2>1, WeightsAre, SumIsTotal
<1>9. Len(v) \in Nat /\ DOMAIN v = 1..Len(v) /\ \A i \in 1..Len(v) : v[i] \in Points
  BY <1>1, SeqTyped
<1>10. \A i \in 1..Len(v) : g[i] = PointWeight[v[i]]
  <2>1. \A i \in 1..Len(v) : g[i] = Cardinality(Exposition(v[i]))
    BY <1>5, <1>9
  <2>2. \A i \in 1..Len(v) : g[i] = countMetricSamples(v[i])
    BY <1>9, <2>1, ExpositionCounted
  <2>. QED
    BY <1>9, <2>2 DEF PointWeight
<1>11. Sum(g) = Total(PointWeight, v)
  <2>1. g = [i \in DOMAIN v |-> g[i]]
    BY <1>5
  <2>. QED
    BY <1>1, <1>10, <2>1, WeightsAre, SumIsTotal
<1>. QED
  BY <1>1, <1>2, <1>6, <1>8, <1>11 DEF u, v

\* So are all metrics of a request.
ScrapedOf(ms) == Each(ms, LAMBDA metric : metric.series)
DataPointsOf(ms) == Each(ms, LAMBDA metric : metric.points)

LEMMA MetricsCounted ==
    ASSUME NEW ms \in Seq(Metrics)
    PROVE  Total(SampleWeight, FlattenSeq(ScrapedOf(ms))) = countSamples(FlattenSeq(DataPointsOf(ms)))
<1>. DEFINE n == Len(ms)
            a == ScrapedOf(ms)
            b == DataPointsOf(ms)
            t == [i \in 1..n |-> Total(SampleWeight, a[i])]
<1>1. n \in Nat /\ DOMAIN ms = 1..n /\ \A i \in 1..n : ms[i] \in Metrics
  BY SeqTyped
<1>2. a = [i \in 1..n |-> ms[i].series] /\ b = [i \in 1..n |-> ms[i].points]
  BY <1>1 DEF ScrapedOf, DataPointsOf, Each
<1>. HIDE DEF a, b
<1>3. \A i \in 1..n : t[i] = Total(SampleWeight, a[i])
  OBVIOUS
<1>. HIDE DEF n, t
<1>4. \A i \in 1..n : a[i] \in Seq(MetricSeries) /\ b[i] \in Seq(Points)
                        /\ Total(SampleWeight, a[i]) = Total(PointWeight, b[i])
  BY <1>1, <1>2, MetricCounted
<1>5. a = [i \in 1..n |-> a[i]] /\ b = [i \in 1..n |-> b[i]]
  BY <1>2
<1>6. Parts(a, MetricSeries) /\ Len(a) = n
  <2>1. a \in Seq(Seq(MetricSeries)) /\ Len(a) = n
    BY <1>1, <1>4, <1>5, SeqMade
  <2>. QED
    BY <2>1 DEF Parts
<1>7. Parts(b, Points) /\ Len(b) = n
  <2>1. b \in Seq(Seq(Points)) /\ Len(b) = n
    BY <1>1, <1>4, <1>5, SeqMade
  <2>. QED
    BY <2>1 DEF Parts
<1>8. Total(SampleWeight, FlattenSeq(a)) = SumFunctionOnSet(t, 1..n)
  BY <1>3, <1>6, WeightsAre, TotalFlat
<1>9. \A i \in 1..n : t[i] = Total(PointWeight, b[i])
  BY <1>3, <1>4
<1>10. Total(PointWeight, FlattenSeq(b)) = SumFunctionOnSet(t, 1..n)
  BY <1>7, <1>9, WeightsAre, TotalFlat
<1>. DEFINE dps == FlattenSeq(b)
            f == Each(dps, countMetricSamples)
<1>11. dps \in Seq(Points)
  BY <1>7, FlattenTyped
<1>12. countSamples(dps) = Sum(f)
  BY DEF countSamples
<1>13. f = [i \in DOMAIN dps |-> countMetricSamples(dps[i])]
  BY DEF Each
<1>. HIDE DEF dps, f
<1>14. Sum(f) = Total(PointWeight, dps)
  <2>1. DOMAIN dps = 1..Len(dps) /\ \A i \in 1..Len(dps) : dps[i] \in Points
    BY <1>11, SeqTyped
  <2>2. f = [i \in DOMAIN dps |-> f[i]]
    BY <1>13
  <2>3. \A i \in 1..Len(dps) : f[i] = countMetricSamples(dps[i])
    BY <1>13, <2>1
  <2>4. \A i \in 1..Len(dps) : f[i] = PointWeight[dps[i]]
    BY <2>1, <2>3 DEF PointWeight
  <2>. QED
    BY <1>11, <2>2, <2>4, WeightsAre, SumIsTotal
<1>. QED
  BY <1>8, <1>10, <1>12, <1>14 DEF dps, a, b

LEMMA AgreeFromInv ==
    ASSUME RequestInv, DeliveryInv
    PROVE  PointsAgree
<1>. DEFINE ss == SentSeries
            q == FlattenSeq(NativesOf(ss))
            f == Each(q, NativePoints)
            dps == FlattenSeq(Each(sent, LAMBDA metric : metric.points))
<1>. SUFFICES ASSUME Arrived
              PROVE  countRemoteWriteV2DataPoints(got) = countSamples(dps) + Sum(f)
  BY DEF PointsAgree, NativesOf
<1>1. got = TheRequest
  BY DEF DeliveryInv, GotInv
<1>2. got.Timeseries = series
  BY <1>1 DEF TheRequest, NoRequest
<1>3. ss \in Seq(MetricSeries)
  BY SentFrom
<1>4. DOMAIN series = 1..Len(ss)
  <2>1. series \in Seq(SeriesMessages(Int))
    BY DEF RequestInv, SeriesInv
  <2>2. Len(SentSeries) = Len(series)
    BY SentTyped
  <2>. QED
    BY <2>1, <2>2, SeqTyped
<1>5. \A i \in 1..Len(ss) : series[i] = ToProto(ss[i])
  BY <1>4 DEF DeliveryInv, MessagesInv, IsMessage
<1>6. Total(SampleWeight, ss) = countSamples(dps)
  <2>1. sent \in Seq(Metrics)
    BY DEF RequestInv, SeriesInv
  <2>2. Total(SampleWeight, FlattenSeq(ScrapedOf(sent))) = countSamples(FlattenSeq(DataPointsOf(sent)))
    BY <2>1, MetricsCounted
  <2>3. ss = FlattenSeq(ScrapedOf(sent)) /\ dps = FlattenSeq(DataPointsOf(sent))
    BY DEF SentSeries, ScrapedOf, DataPointsOf
  <2>. QED
    BY <2>2, <2>3
<1>. HIDE DEF ss, dps
<1>7. countRemoteWriteV2DataPoints(got) = Total(SampleWeight, ss) + Total(NativeWeight, q)
  BY <1>2, <1>3, <1>4, <1>5, ReceivedCounted
<1>8. q \in Seq(ValidNatives)
  BY <1>3, NativesAre, FlattenTyped
<1>9. f = [i \in DOMAIN q |-> NativePoints(q[i])]
  BY DEF Each
<1>. HIDE DEF q, f
<1>10. Sum(f) = Total(NativeWeight, q)
  <2>1. DOMAIN q = 1..Len(q) /\ \A i \in 1..Len(q) : q[i] \in ValidNatives
    BY <1>8, SeqTyped
  <2>2. f = [i \in DOMAIN q |-> f[i]]
    BY <1>9
  <2>3. \A i \in 1..Len(q) : f[i] = NativePoints(q[i])
    BY <1>9, <2>1
  <2>4. \A i \in 1..Len(q) : f[i] = NativeWeight[q[i]]
    BY <2>1, <2>3 DEF NativeWeight
  <2>. QED
    BY <1>8, <2>2, <2>4, WeightsAre, SumIsTotal
<1>. QED
  BY <1>6, <1>7, <1>10

\* The receiver counts a request of Remote Write as it counts the export of the
\* same metrics by OTLP (remotewrite_datapoints.go and otlp_samples.go).
THEOREM PointsAgreeHolds == Spec => []PointsAgree
<1>1. RequestInv /\ DeliveryInv => PointsAgree
  BY AgreeFromInv
<1>. QED
  BY <1>1, RequestInvHolds, DeliveryInvHolds, PTL
===============================================================================
