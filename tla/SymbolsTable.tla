------------------------------ MODULE SymbolsTable ------------------------------
(* internal/v2_hack/symbols.go: the table of the strings of a request.  The  *)
(* strings are a Go slice, so the arrays behind slices are modelled: append  *)
(* writes into the array while it has room and copies it when it has none,   *)
(* Reset shortens the slice and keeps its array, and a slice handed out by   *)
(* Symbols() shows whatever its array holds when it is read.  A reference r  *)
(* is to the (r+1)-th string.                                                *)
EXTENDS Integers, Sequences

CONSTANTS
    Strings,        \* the strings that are symbolized
    Empty           \* the empty string, which is always symbol 0

ASSUME EmptyAssumption == Empty \in Strings

VARIABLES
    table,          \* the SymbolsTable
    given,          \* references returned since the last Reset: <<ref, string>>
    lent            \* slices handed out by Symbols() since the last Reset, each
                    \* with the strings it showed then

tableVars == <<table, given, lent>>

\* What a slice shows.
View(t, slice) == [i \in 1..slice.len |-> t.arrays[slice.array][i]]

\* The table: every array that was ever behind strings, up to its capacity, and
\* the fields strings (which array, and the length) and symbolsMap.
TableTypeOK ==
    /\ DOMAIN table = {"arrays", "strings", "symbolsMap"}
    /\ table.arrays \in Seq(Seq(Strings))
    /\ table.strings \in [array : Nat, len : Nat]
    /\ table.symbolsMap \in [DOMAIN table.symbolsMap -> Nat]
    /\ DOMAIN table.symbolsMap \subseteq Strings
    /\ given \subseteq Nat \X Strings
    /\ lent \subseteq [slice : [array : Nat, len : Nat], shown : Seq(Strings)]

NewSymbolTable ==
    [arrays |-> << <<Empty>> >>,
     strings |-> [array |-> 1, len |-> 1],
     symbolsMap |-> [s \in {Empty} |-> 0]]

-------------------------------------------------------------------------------
(* The methods, as functions of the table. *)

Symbols(t) == View(t, t.strings)

Room(t) == t.strings.len < Len(t.arrays[t.strings.array])

\* The arrays after append(t.strings, str).  A full one is copied into one of
\* twice its capacity, the rest of which is empty.
ArraysWith(t, str) ==
    LET n == t.strings.len
        old == t.arrays[t.strings.array]
    IN  IF Room(t)
        THEN [t.arrays EXCEPT ![t.strings.array] = [old EXCEPT ![n + 1] = str]]
        ELSE Append(t.arrays, [i \in 1..(2 * n) |->
                                 IF i <= n THEN old[i]
                                 ELSE IF i = n + 1 THEN str ELSE Empty])

\* Mutant of Symbolized: the last string is overwritten, not followed.
SymbolizedOver(t, str) ==
    IF str \in DOMAIN t.symbolsMap THEN t
    ELSE [t EXCEPT !.arrays[t.strings.array][t.strings.len] = str,
                   !.symbolsMap = [s \in DOMAIN t.symbolsMap \cup {str} |->
                                     IF s = str THEN t.strings.len - 1
                                     ELSE t.symbolsMap[s]]]

\* The table after Symbolize(str).
Symbolized(t, str) ==
    IF str \in DOMAIN t.symbolsMap THEN t
    ELSE [arrays |-> ArraysWith(t, str),
          strings |-> [array |-> IF Room(t) THEN t.strings.array
                                 ELSE Len(t.arrays) + 1,
                       len |-> t.strings.len + 1],
          symbolsMap |-> [s \in DOMAIN t.symbolsMap \cup {str} |->
                            IF s = str THEN t.strings.len ELSE t.symbolsMap[s]]]

\* The reference Symbolize(str) returns.
RefOf(t, str) == Symbolized(t, str).symbolsMap[str]

\* Mutant of Cleared: the map keeps its strings.
ClearedSliceOnly(t) == [t EXCEPT !.strings.len = 1]

\* The table after Reset().  Symbol 0 stays.
Cleared(t) ==
    [arrays |-> t.arrays,
     strings |-> [array |-> t.strings.array, len |-> 1],
     symbolsMap |-> [s \in DOMAIN t.symbolsMap \cap {Empty} |-> t.symbolsMap[s]]]

-------------------------------------------------------------------------------

TableInit ==
    /\ table = NewSymbolTable
    /\ given = {}
    /\ lent = {}

Symbolize(str) ==
    /\ table' = Symbolized(table, str)
    /\ given' = given \cup {<<RefOf(table, str), str>>}
    /\ UNCHANGED lent

Lend ==
    /\ lent' = lent \cup {[slice |-> table.strings, shown |-> Symbols(table)]}
    /\ UNCHANGED <<table, given>>

Reset ==
    /\ table' = Cleared(table)
    /\ given' = {}
    /\ lent' = {}

TableNext == (\E str \in Strings : Symbolize(str)) \/ Lend \/ Reset

TableSpec == TableInit /\ [][TableNext]_tableVars

-------------------------------------------------------------------------------
(* Properties. *)

\* A reference Symbolize returned stands, until the next Reset, for the string
\* it was returned for: whatever is added after it, through every growth of the
\* array, and in an array that still holds the strings from before a Reset.
RefsResolve ==
    \A g \in given :
        g[1] < table.strings.len /\ Symbols(table)[g[1] + 1] = g[2]

\* A slice handed out by Symbols() keeps showing the strings it was handed out
\* with until the next Reset, although the table goes on writing into its array.
SlicesStable == \A l \in lent : View(table, l.slice) = l.shown

===============================================================================
