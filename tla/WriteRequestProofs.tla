-------------------------- MODULE WriteRequestProofs --------------------------
(* Theorems of the messages of Remote Write 2.0, for every message.  What     *)
(* Marshal writes is as long as Size says, from a varint to a request, and    *)
(* neither marshaller runs out of its buffer.  What is written is read: a     *)
(* varint, the entry of a field, a message, a request.  Recursion comes       *)
(* first: that a recursive function is defined at all has to be shown, by the *)
(* smallest number at which it is not.                                        *)
EXTENDS WriteRequest, SumTheorems, SequenceTheorems

-------------------------------------------------------------------------------
(* Recursion on numbers. *)

LEMMA NatMin ==
    ASSUME NEW T \in SUBSET Nat, T # {}
    PROVE  \E n \in T : \A k \in T : n <= k
<1>. DEFINE R == {ss \in Nat \X Nat : ss[1] < ss[2]}
<1>1. IsWellFoundedOn(R, Nat)
  BY NatLessThanWellFounded DEF OpToRel
<1>2. PICK n \in T : \A k \in T : ~(<<k, n>> \in R)
  BY <1>1, WFMin
<1>3. ASSUME NEW k \in T PROVE n <= k
  <2>1. <<k, n>> \notin R
    BY <1>2
  <2>2. k \in Nat /\ n \in Nat
    OBVIOUS
  <2>. QED
    BY <2>1, <2>2
<1>. QED
  BY <1>3

\* A function on the numbers whose value at n is made from the one at d[n].
Descends(d) == d \in [Nat -> Nat] /\ \A n \in Nat \ {0} : d[n] < n
Follows(h, base, d, F) ==
    h[0] = base /\ \A n \in Nat \ {0} : h[n] = F[n][h[d[n]]]

\* What is defined up to n from smaller numbers, d[k] for k, by F.
Defined(h, n, V, base, d, F) ==
    /\ h \in [0 .. n -> V]
    /\ h[0] = base
    /\ \A k \in 1 .. n : h[k] = F[k][h[d[k]]]

LEMMA DefinedOnce ==
    ASSUME NEW V, NEW base, NEW F,
           NEW d, Descends(d),
           NEW m \in Nat, NEW n \in Nat, NEW g, NEW h,
           Defined(g, m, V, base, d, F), Defined(h, n, V, base, d, F),
           NEW k \in Nat, k <= m, k <= n
    PROVE  g[k] = h[k]
<1>. DEFINE T == {i \in Nat : i <= m /\ i <= n /\ g[i] # h[i]}
<1>1. SUFFICES ASSUME T # {} PROVE FALSE
  OBVIOUS
<1>2. PICK i \in T : \A j \in T : i <= j
  BY <1>1, NatMin
<1>3. i \in Nat /\ i <= m /\ i <= n /\ g[i] # h[i]
  OBVIOUS
<1>4. /\ g[0] = h[0]
      /\ \A j \in 1 .. m : g[j] = F[j][g[d[j]]]
      /\ \A j \in 1 .. n : h[j] = F[j][h[d[j]]]
  BY DEF Defined
<1>5. d[i] \in Nat /\ d[i] < i
  BY <1>3, <1>4 DEF Descends
<1>6. g[d[i]] = h[d[i]]
  BY <1>2, <1>3, <1>5
<1>. HIDE DEF T
<1>7. i \in 1 .. m /\ i \in 1 .. n
  BY <1>3, <1>4
<1>. QED
  BY <1>3, <1>4, <1>6, <1>7

LEMMA DefinedAll ==
    ASSUME NEW V, NEW base \in V, NEW F \in [Nat -> [V -> V]],
           NEW d, Descends(d)
    PROVE  \A n \in Nat : \E h : Defined(h, n, V, base, d, F)
<1>. DEFINE T == {n \in Nat : ~ \E h : Defined(h, n, V, base, d, F)}
<1>1. SUFFICES ASSUME T # {} PROVE FALSE
  OBVIOUS
<1>2. PICK n \in T : \A j \in T : n <= j
  BY <1>1, NatMin
<1>3. CASE n = 0
  <2>1. Defined([k \in 0 .. 0 |-> base], 0, V, base, d, F)
    BY DEF Defined
  <2>. QED
    BY <1>2, <1>3, <2>1
<1>4. CASE n # 0
  <2>1. n - 1 \in Nat /\ n - 1 \notin T
    <3>1. n \in Nat
      OBVIOUS
    <3>. HIDE DEF T
    <3>. QED
      BY <1>2, <1>4, <3>1
  <2>2. PICK h : Defined(h, n - 1, V, base, d, F)
    BY <2>1
  <2>. DEFINE g == [k \in 0 .. n |-> IF k = n THEN F[n][h[d[n]]] ELSE h[k]]
  <2>3. d[n] \in 0 .. (n - 1) /\ h[d[n]] \in V
    BY <1>4, <2>2 DEF Defined, Descends
  <2>4. g \in [0 .. n -> V] /\ g[0] = base
    BY <1>4, <2>2, <2>3 DEF Defined
  <2>5. ASSUME NEW k \in 1 .. n PROVE g[k] = F[k][g[d[k]]]
    <3>1. d[k] \in Nat /\ d[k] < k
      BY DEF Descends
    <3>2. g[d[k]] = h[d[k]]
      BY <3>1
    <3>. QED
      BY <2>2, <3>1, <3>2 DEF Defined
  <2>6. Defined(g, n, V, base, d, F)
    BY <2>4, <2>5 DEF Defined
  <2>. QED
    BY <1>2, <2>6
<1>. QED
  BY <1>3, <1>4

LEMMA Recursion ==
    ASSUME NEW V, NEW base \in V, NEW F \in [Nat -> [V -> V]], NEW d, Descends(d)
    PROVE  \E h \in [Nat -> V] : Follows(h, base, d, F)
<1>0. /\ d \in [Nat -> Nat] /\ \A n \in Nat \ {0} : d[n] < n
      /\ \A n \in Nat \ {0} : d[n] \in Nat /\ d[n] < n
  BY DEF Descends
<1>. DEFINE p == [n \in Nat |-> CHOOSE h : Defined(h, n, V, base, d, F)]
            h == [n \in Nat |-> p[n][n]]
<1>1. \A n \in Nat : Defined(p[n], n, V, base, d, F)
  BY DefinedAll
<1>. HIDE DEF p
<1>2. \A n \in Nat : p[n][n] \in V /\ p[n][0] = base
  BY <1>1 DEF Defined
<1>3. ASSUME NEW n \in Nat \ {0} PROVE h[n] = F[n][h[d[n]]]
  <2>1. d[n] \in Nat /\ d[n] < n /\ n \in 1 .. n
    BY <1>0
  <2>2. Defined(p[n], n, V, base, d, F) /\ Defined(p[d[n]], d[n], V, base, d, F)
    BY <1>1, <2>1
  <2>3. p[n][d[n]] = p[d[n]][d[n]]
    <3>1. ASSUME NEW g, g = p[n], NEW f, f = p[d[n]], NEW k \in Nat, k = d[n]
          PROVE  g[k] = f[k]
      <4>1. /\ n \in Nat /\ k <= n /\ k <= k
            /\ Defined(g, n, V, base, d, F) /\ Defined(f, k, V, base, d, F)
        BY <2>1, <2>2, <3>1
      <4>. QED
        BY <4>1, DefinedOnce
    <3>. QED
      BY <2>1, <3>1
  <2>. QED
    BY <2>1, <2>2, <2>3 DEF Defined
<1>4. h \in [Nat -> V] /\ h[0] = base
  BY <1>2
<1>. QED
  BY <1>3, <1>4 DEF Follows

-------------------------------------------------------------------------------
(* Varints. *)

LEMMA BitsOf ==
    /\ Bits \in [Nat -> Nat]
    /\ \A x \in Nat : Bits[x] = IF x = 0 THEN 0 ELSE 1 + Bits[x \div 2]
<1>. DEFINE F == [x \in Nat |-> [v \in Nat |-> 1 + v]]
            d == [x \in Nat |-> x \div 2]
<1>1. F \in [Nat -> [Nat -> Nat]] /\ Descends(d)
  BY DEF Descends
<1>2. PICK h \in [Nat -> Nat] : Follows(h, 0, d, F)
  <2>. HIDE DEF F, d
  <2>. QED
    BY <1>1, Recursion
<1>3. ASSUME NEW x \in Nat
      PROVE  h[x] = IF x = 0 THEN 0 ELSE 1 + h[x \div 2]
  <2>1. x \div 2 \in Nat
    OBVIOUS
  <2>. QED
    BY <1>2, <2>1 DEF Follows
<1>4. h = [x \in Nat |-> IF x = 0 THEN 0 ELSE 1 + h[x \div 2]]
  BY <1>3
<1>. DEFINE P(g) == g = [x \in Nat |-> IF x = 0 THEN 0 ELSE 1 + g[x \div 2]]
<1>5. P(Bits)
  <2>1. \E g : P(g)
    BY <1>4
  <2>2. Bits = CHOOSE g : P(g)
    BY DEF Bits
  <2>. HIDE DEF P
  <2>. QED
    BY <2>1, <2>2
<1>6. Bits = [x \in Nat |-> IF x = 0 THEN 0 ELSE 1 + Bits[x \div 2]]
  BY <1>5
<1>7. \A x \in Nat : Bits[x] = h[x]
  <2>. DEFINE T == {x \in Nat : Bits[x] # h[x]}
  <2>1. SUFFICES ASSUME T # {} PROVE FALSE
    OBVIOUS
  <2>2. PICK x \in T : \A y \in T : x <= y
    BY <2>1, NatMin
  <2>3. x # 0 /\ x \div 2 \in Nat /\ x \div 2 < x
    BY <1>3, <1>6
  <2>4. Bits[x \div 2] = h[x \div 2]
    BY <2>2, <2>3
  <2>. QED
    BY <1>3, <1>6, <2>3, <2>4
<1>. QED
  BY <1>3, <1>6, <1>7

\* The groups of seven bits: the tenth, and one before it followed by the next.
Tenth(x) == <<x % 2>>
Earlier(next, x) == IF x \in 0..127 THEN <<x>> ELSE <<(x % 128) + 128>> \o next[x \div 128]
GroupsBody(g, k, x) == IF k = 9 THEN Tenth(x) ELSE Earlier(g[k + 1], x)

LEMMA GroupTyped ==
    ASSUME NEW next \in [Int -> Seq(Bytes)], NEW x \in Int
    PROVE  Tenth(x) \in Seq(Bytes) /\ Earlier(next, x) \in Seq(Bytes)
<1>1. Tenth(x) \in Seq(Bytes)
  BY DEF Tenth, Bytes
<1>2. CASE x \in 0..127
  <2>1. <<x>> \in Seq(Bytes)
    BY <1>2 DEF Bytes
  <2>. QED
    BY <1>1, <1>2, <2>1 DEF Earlier
<1>3. CASE x \notin 0..127
  <2>1. <<(x % 128) + 128>> \in Seq(Bytes) /\ next[x \div 128] \in Seq(Bytes)
    BY DEF Bytes
  <2>. QED
    BY <1>1, <1>3, <2>1, ConcatProperties DEF Earlier
<1>. QED
  BY <1>2, <1>3

LEMMA GroupsDefined ==
    /\ Groups \in [0..9 -> [Int -> Seq(Bytes)]]
    /\ \A x \in Int : Groups[9][x] = Tenth(x)
    /\ \A k \in 0..8 : \A x \in Int : Groups[k][x] = Earlier(Groups[k + 1], x)
<1>. DEFINE V == [Int -> Seq(Bytes)]
            last == [x \in Int |-> Tenth(x)]
            before(next) == [x \in Int |-> Earlier(next, x)]
            F == [n \in Nat |-> [next \in V |-> before(next)]]
            d == [n \in Nat |-> IF n = 0 THEN 0 ELSE n - 1]
            P(g) == g = [k \in 0..9 |-> [x \in Int |-> GroupsBody(g, k, x)]]
<1>1. last \in V /\ \A next \in V : before(next) \in V
  <2>1. \A next \in V, x \in Int : Tenth(x) \in Seq(Bytes) /\ Earlier(next, x) \in Seq(Bytes)
    BY GroupTyped
  <2>2. [x \in Int |-> <<>>] \in V
    OBVIOUS
  <2>. QED
    BY <2>1, <2>2
<1>. HIDE DEF V, last, before
<1>2. F \in [Nat -> [V -> V]]
  BY <1>1
<1>3. Descends(d) /\ \A n \in Nat \ {0} : d[n] = n - 1
  BY DEF Descends
<1>4. PICK h \in [Nat -> V] : Follows(h, last, d, F)
  <2>. HIDE DEF F, d
  <2>. QED
    BY <1>1, <1>2, <1>3, Recursion
<1>5. h[0] = last /\ \A n \in Nat \ {0} : h[n] = before(h[n - 1])
  <2>1. ASSUME NEW n \in Nat \ {0} PROVE h[n] = before(h[n - 1])
    <3>1. h[n] = F[n][h[n - 1]] /\ h[n - 1] \in V
      <4>. HIDE DEF F, d
      <4>. QED
        BY <1>3, <1>4 DEF Follows
    <3>. QED
      BY <3>1
  <2>. QED
    BY <1>4, <2>1 DEF Follows
<1>. HIDE DEF F, d
<1>. DEFINE w == [k \in 0..9 |-> h[9 - k]]
<1>6. w[9] = last /\ \A k \in 0..8 : w[k] = before(w[k + 1])
  <2>1. ASSUME NEW k \in 0..8 PROVE w[k] = before(w[k + 1])
    <3>1. 9 - k \in Nat \ {0} /\ (9 - k) - 1 = 9 - (k + 1)
      OBVIOUS
    <3>. QED
      BY <1>5, <3>1
  <2>. QED
    BY <1>5, <2>1
<1>7. P(w)
  <2>1. ASSUME NEW k \in 0..9 PROVE w[k] = [x \in Int |-> GroupsBody(w, k, x)]
    <3>1. CASE k = 9
      BY <1>6, <3>1 DEF GroupsBody, last
    <3>2. CASE k # 9
      <4>1. w[k] = before(w[k + 1])
        <5>1. k \in 0..8
          BY <3>2
        <5>. HIDE DEF w
        <5>. QED
          BY <1>6, <5>1
      <4>. HIDE DEF w
      <4>. QED
        BY <3>2, <4>1 DEF GroupsBody, before
    <3>. QED
      BY <3>1, <3>2
  <2>. QED
    BY <2>1
<1>8. Groups = [k \in 0..9 |-> [x \in Int |-> GroupsBody(Groups, k, x)]]
  <2>1. Groups = CHOOSE g : P(g)
    BY DEF Groups, GroupsBody, Tenth, Earlier
  <2>2. P(Groups)
    <3>. HIDE DEF P, w
    <3>. QED
      BY <1>7, <2>1
  <2>. QED
    BY <2>2
<1>9. /\ Groups[9] = last
      /\ \A k \in 0..8 : Groups[k] = before(Groups[k + 1])
  BY <1>8 DEF GroupsBody, last, before
<1>10. \A k \in 0..9 : Groups[k] \in V
  <2>9. Groups[9] \in V BY <1>1, <1>9
  <2>8. Groups[8] \in V BY <1>1, <1>9, <2>9
  <2>7. Groups[7] \in V BY <1>1, <1>9, <2>8
  <2>6. Groups[6] \in V BY <1>1, <1>9, <2>7
  <2>5. Groups[5] \in V BY <1>1, <1>9, <2>6
  <2>4. Groups[4] \in V BY <1>1, <1>9, <2>5
  <2>3. Groups[3] \in V BY <1>1, <1>9, <2>4
  <2>2. Groups[2] \in V BY <1>1, <1>9, <2>3
  <2>1. Groups[1] \in V BY <1>1, <1>9, <2>2
  <2>0. Groups[0] \in V BY <1>1, <1>9, <2>1
  <2>. QED
    BY <2>0, <2>1, <2>2, <2>3, <2>4, <2>5, <2>6, <2>7, <2>8, <2>9
<1>11. Groups \in [0..9 -> V]
  BY <1>8, <1>10
<1>12. /\ \A x \in Int : Groups[9][x] = Tenth(x)
       /\ \A k \in 0..8 : \A x \in Int : Groups[k][x] = Earlier(Groups[k + 1], x)
  BY <1>9 DEF last, before
<1>. QED
  BY <1>11, <1>12 DEF V

\* Seven bits at a time.
LEMMA BitsSeven ==
    ASSUME NEW x \in Nat
    PROVE  /\ Bits[x] \in Nat
           /\ x = 0 => Bits[x] = 0
           /\ x \in 1..127 => Bits[x] \in 1..7
           /\ x > 127 => x \div 128 \in Nat /\ Bits[x] = 7 + Bits[x \div 128]
<1>. DEFINE a == x \div 2
            b == a \div 2
            c == b \div 2
            d == c \div 2
            e == d \div 2
            f == e \div 2
            g == f \div 2
<1>1. /\ a \in Nat /\ b \in Nat /\ c \in Nat /\ d \in Nat /\ e \in Nat
      /\ f \in Nat /\ g \in Nat
  OBVIOUS
<1>2. /\ x <= 127 => g = 0
      /\ x > 127 => a > 0 /\ b > 0 /\ c > 0 /\ d > 0 /\ e > 0 /\ f > 0
      /\ g = x \div 128
  OBVIOUS
<1>3. /\ Bits[x] = (IF x = 0 THEN 0 ELSE 1 + Bits[a])
      /\ Bits[a] = (IF a = 0 THEN 0 ELSE 1 + Bits[b])
      /\ Bits[b] = (IF b = 0 THEN 0 ELSE 1 + Bits[c])
      /\ Bits[c] = (IF c = 0 THEN 0 ELSE 1 + Bits[d])
      /\ Bits[d] = (IF d = 0 THEN 0 ELSE 1 + Bits[e])
      /\ Bits[e] = (IF e = 0 THEN 0 ELSE 1 + Bits[f])
      /\ Bits[f] = (IF f = 0 THEN 0 ELSE 1 + Bits[g])
      /\ Bits[g] \in Nat /\ (g = 0 => Bits[g] = 0)
  BY <1>1, BitsOf
<1>. HIDE DEF a, b, c, d, e, f, g
<1>. QED
  BY <1>1, <1>2, <1>3

\* How many groups there are from the k-th on: one for each seven bits, one for
\* zero, and no more than the tenth.
Septets(x) == IF x = 0 THEN 1 ELSE (Bits[x] + 6) \div 7
Counted(k) ==
    /\ \A x \in Nat : Len(Groups[k][x]) = IF Septets(x) <= 10 - k THEN Septets(x) ELSE 10 - k
    /\ \A x \in Int : x < 0 => Len(Groups[k][x]) = 10 - k

LEMMA GroupAt ==
    ASSUME NEW k \in 0..8, NEW x \in Int
    PROVE  /\ Groups[k][x] = Earlier(Groups[k + 1], x)
           /\ x \div 128 \in Int
           /\ Groups[k + 1][x \div 128] \in Seq(Bytes)
<1>1. k + 1 \in 0..9 /\ x \div 128 \in Int
  OBVIOUS
<1>2. Groups[k + 1] \in [Int -> Seq(Bytes)]
  BY <1>1, GroupsDefined
<1>. QED
  BY <1>1, <1>2, GroupsDefined

LEMMA OneByte ==
    ASSUME NEW x \in Int
    PROVE  <<(x % 128) + 128>> \in Seq(Bytes) /\ Len(<<(x % 128) + 128>>) = 1
<1>1. (x % 128) + 128 \in Bytes
  BY DEF Bytes
<1>. QED
  BY <1>1

LEMMA CountedBefore ==
    ASSUME NEW k \in 0..8, NEW j, j = k + 1, Counted(j)
    PROVE  Counted(k)
<1>1. ASSUME NEW x \in Int, x \notin 0..127
      PROVE  /\ x \div 128 \in Int
             /\ Len(Groups[k][x]) = 1 + Len(Groups[k + 1][x \div 128])
  <2>1. Groups[k][x] = <<(x % 128) + 128>> \o Groups[k + 1][x \div 128]
    <3>1. Groups[k][x] = Earlier(Groups[k + 1], x)
      BY <1>1, GroupAt
    <3>. QED
      BY <1>1, <3>1 DEF Earlier
  <2>2. /\ x \div 128 \in Int
        /\ Groups[k + 1][x \div 128] \in Seq(Bytes)
        /\ <<(x % 128) + 128>> \in Seq(Bytes) /\ Len(<<(x % 128) + 128>>) = 1
    BY GroupAt, OneByte
  <2>3. Len(Groups[k][x])
          = Len(<<(x % 128) + 128>>) + Len(Groups[k + 1][x \div 128])
    BY <2>1, <2>2, ConcatProperties
  <2>. QED
    BY <2>2, <2>3
<1>2. ASSUME NEW x \in Int, x < 0
      PROVE  Len(Groups[k][x]) = 10 - k
  <2>1. x \div 128 \in Int /\ x \div 128 < 0 /\ x \notin 0..127
    BY <1>2
  <2>2. Len(Groups[k + 1][x \div 128]) = 10 - (k + 1)
    BY <2>1 DEF Counted
  <2>3. Len(Groups[k][x]) = 1 + Len(Groups[k + 1][x \div 128])
    BY <1>1, <2>1
  <2>. QED
    BY <2>2, <2>3
<1>3. ASSUME NEW x \in Nat
      PROVE  Len(Groups[k][x]) = IF Septets(x) <= 10 - k THEN Septets(x) ELSE 10 - k
  <2>1. CASE x \in 0..127
    <3>1. Len(Groups[k][x]) = 1
      <4>1. Groups[k][x] = <<x>>
        <5>1. x \in Int
          OBVIOUS
        <5>2. Groups[k][x] = Earlier(Groups[k + 1], x)
          BY <5>1, GroupAt
        <5>. QED
          BY <2>1, <5>2 DEF Earlier
      <4>. QED
        BY <4>1
    <3>2. Septets(x) = 1
      BY <2>1, BitsSeven DEF Septets
    <3>. QED
      BY <3>1, <3>2
  <2>2. CASE x > 127
    <3>1. x \div 128 \in Nat /\ x \div 128 > 0 /\ Bits[x] = 7 + Bits[x \div 128]
      BY <2>2, BitsSeven
    <3>2. Bits[x \div 128] \in Nat
      BY <3>1, BitsSeven
    <3>3. Septets(x) = 1 + Septets(x \div 128) /\ Septets(x \div 128) \in Nat
      BY <2>2, <3>1, <3>2 DEF Septets
    <3>4. Len(Groups[k + 1][x \div 128])
            = IF Septets(x \div 128) <= 10 - (k + 1) THEN Septets(x \div 128) ELSE 10 - (k + 1)
      BY <3>1 DEF Counted
    <3>5. Len(Groups[k][x]) = 1 + Len(Groups[k + 1][x \div 128])
      BY <1>1, <2>2
    <3>. QED
      BY <3>3, <3>4, <3>5
  <2>. QED
    BY <2>1, <2>2
<1>. QED
  BY <1>2, <1>3 DEF Counted

\* sovTypes(x) is the number of bytes that encodeVarintTypes writes, for every
\* 64-bit number (types.pb.go).
THEOREM VarintSized ==
    ASSUME NEW x \in Int
    PROVE  /\ Varint(x) \in Seq(Bytes)
           /\ Len(Varint(x)) = sovTypes(x)
           /\ sovTypes(x) \in 1..10
<1>1. Counted(9)
  <2>1. ASSUME NEW y \in Int PROVE Len(Groups[9][y]) = 1
    <3>1. Groups[9][y] = <<y % 2>> /\ y % 2 \in Int
      <4>1. Groups[9][y] = Tenth(y)
        BY GroupsDefined
      <4>. QED
        BY <4>1 DEF Tenth
    <3>. QED
      BY <3>1
  <2>2. ASSUME NEW y \in Nat
        PROVE  Len(Groups[9][y]) = IF Septets(y) <= 10 - 9 THEN Septets(y) ELSE 10 - 9
    <3>1. Septets(y) \in Nat /\ Septets(y) >= 1
      BY BitsSeven DEF Septets
    <3>2. Len(Groups[9][y]) = 1
      BY <2>1
    <3>. QED
      BY <3>1, <3>2
  <2>3. \A y \in Int : y < 0 => Len(Groups[9][y]) = 10 - 9
    BY <2>1
  <2>. QED
    BY <2>2, <2>3 DEF Counted
<1>2. Counted(0)
  <2>8. Counted(8) BY <1>1, CountedBefore
  <2>7. Counted(7) BY <2>8, CountedBefore
  <2>6. Counted(6) BY <2>7, CountedBefore
  <2>5. Counted(5) BY <2>6, CountedBefore
  <2>4. Counted(4) BY <2>5, CountedBefore
  <2>3. Counted(3) BY <2>4, CountedBefore
  <2>2. Counted(2) BY <2>3, CountedBefore
  <2>1. Counted(1) BY <2>2, CountedBefore
  <2>. QED
    BY <2>1, CountedBefore
<1>3. Varint(x) \in Seq(Bytes)
  BY GroupsDefined DEF Varint
<1>4. CASE x < 0
  <2>1. Len(Varint(x)) = 10 /\ sovTypes(x) = 10
    BY <1>2, <1>4 DEF Varint, Counted, sovTypes, Len64
  <2>. QED
    BY <1>3, <2>1
<1>5. CASE x >= 0
  <2>1. x \in Nat /\ Bits[x] \in Nat /\ (x # 0 => Bits[x] >= 1)
    BY <1>5, BitsSeven
  <2>2. Len(Varint(x)) = IF Septets(x) <= 10 THEN Septets(x) ELSE 10
    BY <1>2, <2>1 DEF Varint, Counted
  <2>3. sovTypes(x) = IF x = 0 THEN 1
                      ELSE ((IF Bits[x] > 64 THEN 64 ELSE Bits[x]) + 6) \div 7
    BY <2>1 DEF sovTypes, Len64
  <2>4. Len(Varint(x)) = sovTypes(x) /\ sovTypes(x) \in 1..10
    <3>1. CASE x = 0
      BY <2>2, <2>3, <3>1 DEF Septets
    <3>2. CASE x # 0 /\ Bits[x] > 64
      <4>1. Septets(x) = (Bits[x] + 6) \div 7 /\ sovTypes(x) = 70 \div 7
        BY <2>3, <3>2 DEF Septets
      <4>. QED
        BY <2>1, <2>2, <3>2, <4>1
    <3>3. CASE x # 0 /\ ~(Bits[x] > 64)
      <4>1. Septets(x) = (Bits[x] + 6) \div 7 /\ sovTypes(x) = (Bits[x] + 6) \div 7
        BY <2>3, <3>3 DEF Septets
      <4>. QED
        BY SMTT(30), <2>1, <2>2, <3>3, <4>1
    <3>. QED
      BY <3>1, <3>2, <3>3
  <2>. QED
    BY <1>3, <2>4
<1>. QED
  BY <1>4, <1>5

-------------------------------------------------------------------------------
(* Sequences of sequences, and sums. *)

\* The sequences of ss up to the n-th, one after the other.
LEMMA FlattenDefined ==
    ASSUME NEW T, NEW ss \in Seq(Seq(T))
    PROVE  \E h \in [Nat -> Seq(T)] :
              /\ h[0] = <<>>
              /\ \A n \in 1..Len(ss) : h[n] = h[n - 1] \o ss[n]
              /\ FlattenSeq(ss) = h[Len(ss)]
<1>. DEFINE V == Seq(T)
            F == [n \in Nat |-> [v \in V |-> IF n \in 1..Len(ss) THEN v \o ss[n] ELSE v]]
            d == [n \in Nat |-> IF n = 0 THEN 0 ELSE n - 1]
<1>1. \A n \in 1..Len(ss) : ss[n] \in V
  OBVIOUS
<1>2. \A v \in V, n \in 1..Len(ss) : v \o ss[n] \in V
  BY <1>1, ConcatProperties
<1>3. <<>> \in V /\ Len(ss) \in Nat
  OBVIOUS
<1>. HIDE DEF V
<1>4. F \in [Nat -> [V -> V]]
  BY <1>2
<1>5. Descends(d) /\ \A n \in Nat \ {0} : d[n] = n - 1
  BY DEF Descends
<1>6. PICK h \in [Nat -> V] : Follows(h, <<>>, d, F)
  <2>. HIDE DEF F, d
  <2>. QED
    BY <1>3, <1>4, <1>5, Recursion
<1>7. ASSUME NEW n \in 1..Len(ss) PROVE h[n] = h[n - 1] \o ss[n]
  <2>1. n \in Nat \ {0} /\ n - 1 \in Nat
    BY <1>3
  <2>2. h[n] = F[n][h[n - 1]] /\ h[n - 1] \in V
    <3>. HIDE DEF F, d
    <3>. QED
      BY <1>5, <1>6, <2>1 DEF Follows
  <2>. QED
    BY <2>1, <2>2
<1>8. h[0] = <<>>
  BY <1>6 DEF Follows
<1>. HIDE DEF F, d
<1>11. 1 \in 1..Len(ss) => h[1] = ss[1]
  <2>1. SUFFICES ASSUME 1 \in 1..Len(ss) PROVE h[1] = ss[1]
    OBVIOUS
  <2>2. h[1] = h[1 - 1] \o ss[1]
    BY <1>7, <2>1
  <2>3. h[1 - 1] = <<>>
    <3>1. 1 - 1 = 0
      OBVIOUS
    <3>. QED
      BY <1>8, <3>1
  <2>4. ss[1] \in Seq(T)
    BY <1>1, <2>1 DEF V
  <2>. QED
    BY <2>2, <2>3, <2>4, ConcatEmptySeq
<1>9. CASE ss = <<>>
  BY <1>7, <1>8, <1>9 DEF V, FlattenSeq
<1>10. CASE ss # <<>>
  <2>. DEFINE P(f) == f = [i \in 1..Len(ss) |-> IF i = 1 THEN ss[i] ELSE f[i - 1] \o ss[i]]
              w == [i \in 1..Len(ss) |-> h[i]]
              fl == CHOOSE f : P(f)
  <2>1. Len(ss) \in Nat \ {0}
    BY <1>3, <1>10
  <2>2. P(w)
    <3>1. ASSUME NEW i \in 1..Len(ss)
          PROVE  h[i] = IF i = 1 THEN ss[i] ELSE w[i - 1] \o ss[i]
      <4>1. CASE i = 1
        BY <1>11, <4>1
      <4>2. CASE i # 1
        <5>1. i - 1 \in 1..Len(ss)
          BY <1>3, <4>2
        <5>2. w[i - 1] = h[i - 1]
          BY <5>1
        <5>. QED
          BY <1>7, <4>2, <5>2
      <4>. QED
        BY <4>1, <4>2
    <3>. QED
      BY <3>1
  <2>3. FlattenSeq(ss) = fl[Len(ss)]
    BY <2>1 DEF FlattenSeq
  <2>4. P(fl)
    <3>. HIDE DEF P
    <3>. QED
      BY <2>2
  <2>. HIDE DEF w, fl
  <2>5. ASSUME NEW T2 \in SUBSET (1..Len(ss)), T2 # {},
               \A i \in T2 : fl[i] # h[i],
               \A i \in (1..Len(ss)) \ T2 : fl[i] = h[i]
        PROVE  FALSE
    <3>1. PICK i \in T2 : \A j \in T2 : i <= j
      <4>1. T2 \in SUBSET Nat
        BY <1>3
      <4>. QED
        BY <2>5, <4>1, NatMin
    <3>2. i \in 1..Len(ss) /\ fl[i] # h[i]
      BY <2>5
    <3>3. fl[i] = IF i = 1 THEN ss[i] ELSE fl[i - 1] \o ss[i]
      BY <2>4, <3>2
    <3>4. CASE i = 1
      BY <1>11, <3>2, <3>3, <3>4
    <3>5. CASE i # 1
      <4>1. i - 1 \in 1..Len(ss) /\ i - 1 \notin T2
        BY <1>3, <3>1, <3>2, <3>5
      <4>2. fl[i - 1] = h[i - 1]
        BY <2>5, <4>1
      <4>. QED
        BY <1>7, <3>2, <3>3, <3>5, <4>2
    <3>. QED
      BY <3>4, <3>5
  <2>6. fl[Len(ss)] = h[Len(ss)]
    <3>. DEFINE T2 == {i \in 1..Len(ss) : fl[i] # h[i]}
    <3>1. /\ T2 \in SUBSET (1..Len(ss))
          /\ \A i \in T2 : fl[i] # h[i]
          /\ \A i \in (1..Len(ss)) \ T2 : fl[i] = h[i]
      OBVIOUS
    <3>2. Len(ss) \in 1..Len(ss)
      BY <2>1
    <3>. HIDE DEF T2
    <3>. QED
      BY <2>5, <3>1, <3>2
  <2>. QED
    BY <1>7, <1>8, <2>3, <2>6 DEF V
<1>. QED
  BY <1>9, <1>10

\* An induction on the positions of a sequence: what holds at 1 and goes on
\* from each to the next fails nowhere.
LEMMA NowhereFails ==
    ASSUME NEW n \in Nat, NEW bad \in SUBSET (1..n), 1 \notin bad,
           \A i \in 2..n : i - 1 \notin bad => i \notin bad
    PROVE  bad = {}
<1>1. SUFFICES ASSUME bad # {} PROVE FALSE
  OBVIOUS
<1>2. PICK i \in bad : \A j \in bad : i <= j
  <2>1. bad \in SUBSET Nat
    OBVIOUS
  <2>. QED
    BY <1>1, <2>1, NatMin
<1>3. i \in 2..n /\ i - 1 \notin bad
  BY <1>2
<1>. QED
  BY <1>2, <1>3

\* ss is a sequence of sequences over T.
Parts(ss, T) == ss \in Seq(Seq(T))

LEMMA PartsOf ==
    ASSUME NEW T, NEW ss, Parts(ss, T)
    PROVE  /\ Len(ss) \in Nat
           /\ \A i \in 1..Len(ss) : ss[i] \in Seq(T) /\ Len(ss[i]) \in Nat
           /\ \E h \in [Nat -> Seq(T)] :
                 /\ h[0] = <<>>
                 /\ \A n \in 1..Len(ss) : h[n] = h[n - 1] \o ss[n]
                 /\ FlattenSeq(ss) = h[Len(ss)]
<1>1. ss \in Seq(Seq(T))
  BY DEF Parts
<1>2. Len(ss) \in Nat /\ \A i \in 1..Len(ss) : ss[i] \in Seq(T)
  BY <1>1
<1>3. \A s \in Seq(T) : Len(s) \in Nat
  BY LenProperties
<1>. QED
  BY <1>1, <1>2, <1>3, FlattenDefined

\* w ends with v, after u.
EndsWith(w, u, v) ==
    \A j \in 1..Len(v) : Len(u) + j \in 1..Len(w) /\ w[Len(u) + j] = v[j]

\* One sequence after another.
LEMMA Joined ==
    ASSUME NEW T, NEW u \in Seq(T), NEW v \in Seq(T), NEW w, w = u \o v
    PROVE  /\ Len(u) \in Nat /\ Len(v) \in Nat /\ w \in Seq(T)
           /\ Len(w) = Len(u) + Len(v)
           /\ \A j \in 1..Len(u) : j \in 1..Len(w) /\ w[j] = u[j]
           /\ EndsWith(w, u, v)
BY DEF EndsWith

LEMMA UpTo ==
    ASSUME NEW n \in Nat, n >= 1
    PROVE  n - 1 \in Nat /\ n \in 1..n /\ (1..n) \ {n} = 1..(n - 1)
OBVIOUS

\* The lengths of the parts.
Lengths(ns, ss) == \A i \in 1..Len(ss) : ns[i] = Len(ss[i])

\* What is flattened has the elements and, together, the lengths of its parts.
LEMMA FlattenSized ==
    ASSUME NEW T, NEW ss, Parts(ss, T),
           NEW ns, Lengths(ns, ss)
    PROVE  /\ FlattenSeq(ss) \in Seq(T)
           /\ Len(FlattenSeq(ss)) = SumFunctionOnSet(ns, 1..Len(ss))
<1>1. PICK h \in [Nat -> Seq(T)] :
         /\ h[0] = <<>>
         /\ \A n \in 1..Len(ss) : h[n] = h[n - 1] \o ss[n]
         /\ FlattenSeq(ss) = h[Len(ss)]
  BY PartsOf
<1>2. Len(ss) \in Nat /\ \A i \in 1..Len(ss) : ss[i] \in Seq(T) /\ ns[i] \in Nat
  BY PartsOf DEF Lengths
<1>. DEFINE bad == {n \in 1..Len(ss) : Len(h[n]) # SumFunctionOnSet(ns, 1..n)}
<1>3. ASSUME NEW n \in 1..Len(ss)
      PROVE  /\ Len(h[n]) = Len(h[n - 1]) + ns[n]
             /\ SumFunctionOnSet(ns, 1..n) = ns[n] + SumFunctionOnSet(ns, 1..(n - 1))
             /\ ns[n] \in Nat
  <2>1. n \in Nat /\ n - 1 \in Nat /\ n \in 1..n /\ (1..n) \ {n} = 1..(n - 1)
    <3>1. n \in Nat /\ n >= 1
      BY <1>2
    <3>. QED
      BY <3>1, UpTo
  <2>2. h[n - 1] \in Seq(T) /\ ss[n] \in Seq(T) /\ h[n] = h[n - 1] \o ss[n]
    BY <1>1, <1>2, <2>1
  <2>3. Len(h[n]) = Len(h[n - 1]) + Len(ss[n])
    BY <2>2, Joined
  <2>4. IsFiniteSet(1..n) /\ \A i \in 1..n : ns[i] \in Nat
    BY <1>2, <2>1, FS_Interval
  <2>5. SumFunctionOnSet(ns, 1..n) = ns[n] + SumFunctionOnSet(ns, (1..n) \ {n})
    BY <2>1, <2>4, SumSplits
  <2>6. ns[n] = Len(ss[n]) /\ ns[n] \in Nat
    BY <1>2 DEF Lengths
  <2>. QED
    BY <2>1, <2>3, <2>5, <2>6
<1>4. Len(h[0]) = 0 /\ SumFunctionOnSet(ns, 1..0) = 0
  <2>1. 1..0 = {}
    OBVIOUS
  <2>. QED
    BY <1>1, <2>1, SumOfNothing
<1>5. 1 \notin bad
  <2>1. ASSUME 1 \in 1..Len(ss) PROVE Len(h[1]) = SumFunctionOnSet(ns, 1..1)
    <3>1. /\ Len(h[1]) = Len(h[1 - 1]) + ns[1]
          /\ SumFunctionOnSet(ns, 1..1) = ns[1] + SumFunctionOnSet(ns, 1..(1 - 1))
          /\ ns[1] \in Nat
      BY <1>3, <2>1
    <3>2. 1 - 1 = 0
      OBVIOUS
    <3>. QED
      BY <1>4, <3>1, <3>2
  <2>. QED
    BY <2>1
<1>6. \A i \in 2..Len(ss) : i - 1 \notin bad => i \notin bad
  <2>1. ASSUME NEW i \in 2..Len(ss), i - 1 \notin bad PROVE i \notin bad
    <3>1. i \in 1..Len(ss) /\ i - 1 \in 1..Len(ss) /\ i - 1 \in Nat
      BY <1>2
    <3>2. Len(h[i - 1]) = SumFunctionOnSet(ns, 1..(i - 1))
      BY <2>1, <3>1
    <3>3. /\ Len(h[i]) = Len(h[i - 1]) + ns[i]
          /\ SumFunctionOnSet(ns, 1..i) = ns[i] + SumFunctionOnSet(ns, 1..(i - 1))
          /\ ns[i] \in Nat
      BY <1>3, <3>1
    <3>4. Len(h[i - 1]) \in Nat
      <4>1. h[i - 1] \in Seq(T)
        BY <3>1
      <4>. QED
        BY <4>1, LenProperties
    <3>. DEFINE a == Len(h[i - 1])
                b == SumFunctionOnSet(ns, 1..(i - 1))
    <3>5. a + ns[i] = ns[i] + b
      <4>1. a = b /\ a \in Nat /\ ns[i] \in Nat
        BY <3>2, <3>3, <3>4
      <4>. HIDE DEF a, b
      <4>. QED
        BY <4>1
    <3>6. Len(h[i]) = SumFunctionOnSet(ns, 1..i)
      BY <3>3, <3>5
    <3>. QED
      BY <3>6
  <2>. QED
    BY <2>1
<1>7. bad = {}
  <2>1. bad \in SUBSET (1..Len(ss))
    OBVIOUS
  <2>. HIDE DEF bad
  <2>. QED
    BY <1>2, <1>5, <1>6, <2>1, NowhereFails
<1>8. Len(h[Len(ss)]) = SumFunctionOnSet(ns, 1..Len(ss))
  <2>1. CASE Len(ss) = 0
    BY <1>4, <2>1
  <2>2. CASE Len(ss) # 0
    <3>1. Len(ss) \in 1..Len(ss)
      BY <1>2, <2>2
    <3>. QED
      BY <1>7, <3>1
  <2>. QED
    BY <2>1, <2>2
<1>. QED
  BY <1>1, <1>2, <1>8

\* Every element of a part is an element of the whole.
LEMMA FlattenHolds ==
    ASSUME NEW T, NEW ss, Parts(ss, T), NEW n \in 1..Len(ss), NEW k \in 1..Len(ss[n])
    PROVE  \E j \in 1..Len(FlattenSeq(ss)) : FlattenSeq(ss)[j] = ss[n][k]
<1>1. PICK h \in [Nat -> Seq(T)] :
         /\ h[0] = <<>>
         /\ \A i \in 1..Len(ss) : h[i] = h[i - 1] \o ss[i]
         /\ FlattenSeq(ss) = h[Len(ss)]
  BY PartsOf
<1>2. Len(ss) \in Nat /\ \A i \in 1..Len(ss) : ss[i] \in Seq(T)
  BY PartsOf
<1>0. n \in Nat /\ n >= 1 /\ n <= Len(ss)
  BY <1>2
<1>. DEFINE Holds(s) == \E j \in 1..Len(s) : s[j] = ss[n][k]
            bad == {i \in 1..Len(ss) : i >= n /\ ~Holds(h[i])}
<1>3. ASSUME NEW i \in 1..Len(ss)
      PROVE  h[i - 1] \in Seq(T) /\ ss[i] \in Seq(T) /\ h[i] = h[i - 1] \o ss[i]
  <2>1. i - 1 \in Nat
    BY <1>2
  <2>. QED
    BY <1>1, <1>2, <2>1
<1>4. Holds(h[n])
  <2>1. h[n - 1] \in Seq(T) /\ ss[n] \in Seq(T) /\ h[n] = h[n - 1] \o ss[n]
    BY <1>3
  <2>2. \A j \in 1..Len(ss[n]) : /\ Len(h[n - 1]) + j \in 1..Len(h[n])
                                  /\ h[n][Len(h[n - 1]) + j] = ss[n][j]
    <3>. DEFINE u == h[n - 1]
                v == ss[n]
                w == h[n]
    <3>1. u \in Seq(T) /\ v \in Seq(T) /\ w = u \o v
      BY <2>1
    <3>. HIDE DEF u, v, w
    <3>2. EndsWith(w, u, v)
      BY <3>1, Joined
    <3>. QED
      BY <3>2 DEF u, v, w, EndsWith
  <2>3. Len(h[n - 1]) + k \in 1..Len(h[n]) /\ h[n][Len(h[n - 1]) + k] = ss[n][k]
    BY <2>2
  <2>. QED
    BY <2>3
<1>5. ASSUME NEW i \in 1..Len(ss), Holds(h[i - 1]) PROVE Holds(h[i])
  <2>1. PICK j \in 1..Len(h[i - 1]) : h[i - 1][j] = ss[n][k]
    BY <1>5
  <2>2. h[i - 1] \in Seq(T) /\ ss[i] \in Seq(T) /\ h[i] = h[i - 1] \o ss[i]
    BY <1>3
  <2>3. \A m \in 1..Len(h[i - 1]) : m \in 1..Len(h[i]) /\ h[i][m] = h[i - 1][m]
    <3>. DEFINE u == h[i - 1]
                v == ss[i]
                w == h[i]
    <3>1. u \in Seq(T) /\ v \in Seq(T) /\ w = u \o v
      BY <2>2
    <3>. HIDE DEF u, v, w
    <3>2. \A m \in 1..Len(u) : m \in 1..Len(w) /\ w[m] = u[m]
      BY <3>1, Joined
    <3>. QED
      BY <3>2 DEF u, v, w
  <2>. QED
    BY <2>1, <2>3
<1>. HIDE DEF Holds
<1>6. 1 \notin bad
  <2>1. ASSUME 1 \in bad PROVE FALSE
    <3>1. n = 1
      BY <1>0, <2>1
    <3>. QED
      BY <1>4, <2>1, <3>1
  <2>. QED
    BY <2>1
<1>7. \A i \in 2..Len(ss) : i - 1 \notin bad => i \notin bad
  <2>1. ASSUME NEW i \in 2..Len(ss), i - 1 \notin bad, i \in bad PROVE FALSE
    <3>1. i \in 1..Len(ss) /\ i - 1 \in 1..Len(ss) /\ i >= n /\ ~Holds(h[i])
      BY <1>2, <2>1
    <3>2. CASE i = n
      BY <1>4, <3>1, <3>2
    <3>3. CASE i # n
      <4>1. i - 1 >= n
        BY <1>0, <3>1, <3>3
      <4>2. Holds(h[i - 1])
        BY <2>1, <3>1, <4>1
      <4>. QED
        BY <1>5, <3>1, <4>2
    <3>. QED
      BY <3>2, <3>3
  <2>. QED
    BY <2>1
<1>8. bad = {}
  <2>1. bad \in SUBSET (1..Len(ss))
    OBVIOUS
  <2>. HIDE DEF bad
  <2>. QED
    BY <1>2, <1>6, <1>7, <2>1, NowhereFails
<1>9. Holds(h[Len(ss)])
  <2>1. Len(ss) \in 1..Len(ss) /\ Len(ss) >= n
    BY <1>0, <1>2
  <2>. QED
    BY <1>8, <2>1
<1>. QED
  BY <1>1, <1>9 DEF Holds

-------------------------------------------------------------------------------
(* The fields of a message are as long as their sizes say. *)

Written(b, n) == b \in Seq(Bytes) /\ Len(b) = n /\ n \in Nat

\* ms are l pieces, as long as ns says.
AllWritten(ms, ns, l) ==
    /\ l \in Nat
    /\ ms \in [1..l -> Seq(Bytes)] /\ ns \in [1..l -> Nat]
    /\ \A i \in 1..l : Len(ms[i]) = ns[i]

LEMMA WrittenNothing == Written(<<>>, 0)
BY DEF Written

LEMMA WrittenNext ==
    ASSUME NEW a, NEW b, NEW m, NEW n, Written(a, m), Written(b, n)
    PROVE  Written(a \o b, m + n)
<1>1. a \in Seq(Bytes) /\ b \in Seq(Bytes) /\ Len(a) = m /\ Len(b) = n /\ m \in Nat /\ n \in Nat
  BY DEF Written
<1>2. a \o b \in Seq(Bytes) /\ Len(a \o b) = Len(a) + Len(b)
  BY <1>1, ConcatProperties
<1>3. m + n \in Nat
  BY <1>1
<1>. QED
  BY <1>1, <1>2, <1>3 DEF Written

LEMMA VarintWritten ==
    ASSUME NEW x \in Int
    PROVE  Written(Varint(x), sovTypes(x)) /\ sovTypes(x) \in 1..10
BY VarintSized DEF Written

\* How long the tag of a field is, beyond the byte that sizes count.
Extra(num) == IF num = 16 THEN 1 ELSE 0

LEMMA TagWritten ==
    ASSUME NEW num \in 1..16, NEW kind \in 0..5
    PROVE  Written(Tag(num, kind), 1 + Extra(num))
<1>. DEFINE x == 8 * num + kind
<1>1. x \in 8..133 /\ x \in Nat /\ x \in Int
  OBVIOUS
<1>2. Tag(num, kind) = Varint(x)
  BY DEF Tag
<1>3. CASE num # 16
  <2>1. x \in 1..127
    BY <1>3
  <2>. HIDE DEF x
  <2>2. Bits[x] \in 1..7
    BY <1>1, <2>1, BitsSeven
  <2>3. x # 0 /\ ~(x < 0) /\ Len64(x) = Bits[x]
    BY <2>1, <2>2 DEF Len64
  <2>4. sovTypes(x) = (Bits[x] + 6) \div 7
    BY <2>3 DEF sovTypes
  <2>5. sovTypes(x) = 1
    BY <2>2, <2>4
  <2>6. 1 + Extra(num) = sovTypes(x)
    BY <1>3, <2>5 DEF Extra
  <2>. QED
    BY <1>1, <1>2, <2>6, VarintWritten
<1>4. CASE num = 16
  <2>1. x \in 128..133
    BY <1>4
  <2>. HIDE DEF x
  <2>2. x > 127 /\ x \div 128 = 1
    BY <2>1
  <2>3. Bits[x] = 7 + Bits[1]
    BY <1>1, <2>2, BitsSeven
  <2>4. Bits[1] = 1
    <3>1. Bits[1] = 1 + Bits[1 \div 2] /\ Bits[0] = 0
      BY BitsOf
    <3>2. 1 \div 2 = 0
      OBVIOUS
    <3>. QED
      BY <3>1, <3>2
  <2>5. x # 0 /\ ~(x < 0) /\ Len64(x) = 8
    BY <2>1, <2>3, <2>4 DEF Len64
  <2>6. sovTypes(x) = 2
    BY <2>5 DEF sovTypes
  <2>7. 1 + Extra(num) = sovTypes(x)
    BY <1>4, <2>6 DEF Extra
  <2>. QED
    BY <1>1, <1>2, <2>7, VarintWritten
<1>. QED
  BY <1>3, <1>4


LEMMA Fixed64Written ==
    ASSUME NEW v \in Floats
    PROVE  Written(Fixed64(v), 8)
<1>1. v \in Nat /\ v <= 65535
  BY DEF Floats
<1>2. v \div 256 \in 0..255
  BY <1>1
<1>3. v % 256 \in 0..255
  BY <1>1
<1>4. v % 256 \in Bytes /\ v \div 256 \in Bytes /\ 0 \in Bytes
  BY <1>2, <1>3 DEF Bytes
<1>. QED
  BY <1>4 DEF Written, Fixed64

LEMMA VarintFieldWritten ==
    ASSUME NEW num \in 1..15, NEW v \in Int
    PROVE  Written(VarintField(num, v), VarintSize(v))
<1>1. Written(Tag(num, 0), 1)
  <2>1. Written(Tag(num, 0), 1 + Extra(num))
    BY TagWritten
  <2>2. 1 + Extra(num) = 1
    BY DEF Extra
  <2>. QED
    BY <2>1, <2>2
<1>2. Written(Tag(num, 0) \o Varint(v), 1 + sovTypes(v))
  BY <1>1, VarintWritten, WrittenNext
<1>. QED
  BY <1>2, WrittenNothing DEF VarintField, VarintSize

LEMMA FloatFieldWritten ==
    ASSUME NEW num \in 1..15, NEW v \in Floats
    PROVE  /\ Written(FloatField(num, v), FloatSize(v))
           /\ Written(Tag(num, 1) \o Fixed64(v), 9)
<1>1. Written(Tag(num, 1), 1)
  <2>1. Written(Tag(num, 1), 1 + Extra(num))
    BY TagWritten
  <2>2. 1 + Extra(num) = 1
    BY DEF Extra
  <2>. QED
    BY <2>1, <2>2
<1>2. Written(Tag(num, 1) \o Fixed64(v), 1 + 8)
  BY <1>1, Fixed64Written, WrittenNext
<1>. QED
  BY <1>2, WrittenNothing DEF FloatField, FloatSize

LEMMA DelimitedWritten ==
    ASSUME NEW num \in 1..16, NEW b, NEW n, Written(b, n)
    PROVE  Written(Delimited(num, b), Extra(num) + DelimitedSize(n))
<1>1. n \in Nat /\ Len(b) = n /\ sovTypes(n) \in 1..10
  BY VarintWritten DEF Written
<1>2. Written(Tag(num, 2), 1 + Extra(num))
  BY TagWritten
<1>3. Written(Varint(n), sovTypes(n))
  BY <1>1, VarintWritten
<1>4. Written((Tag(num, 2) \o Varint(n)) \o b, ((1 + Extra(num)) + sovTypes(n)) + n)
  BY <1>2, <1>3, WrittenNext
<1>5. ((1 + Extra(num)) + sovTypes(n)) + n = Extra(num) + DelimitedSize(n)
  BY <1>1 DEF Extra, DelimitedSize
<1>. QED
  BY <1>1, <1>4, <1>5 DEF Delimited

LEMMA DelimitedPlain ==
    ASSUME NEW num \in 1..15, NEW b, NEW n, Written(b, n)
    PROVE  Written(Delimited(num, b), DelimitedSize(n)) /\ DelimitedSize(n) \in Nat
<1>1. Written(Delimited(num, b), Extra(num) + DelimitedSize(n))
  BY DelimitedWritten
<1>2. n \in Nat /\ sovTypes(n) \in 1..10
  BY VarintWritten DEF Written
<1>3. DelimitedSize(n) \in Nat /\ Extra(num) + DelimitedSize(n) = DelimitedSize(n)
  BY <1>2 DEF Extra, DelimitedSize
<1>. QED
  BY <1>1, <1>3

LEMMA BytesFieldWritten ==
    ASSUME NEW num \in 1..15, NEW b \in Seq(Bytes)
    PROVE  Written(BytesField(num, b), BytesSize(b))
<1>1. Written(b, Len(b))
  BY LenProperties DEF Written
<1>2. Written(Delimited(num, b), DelimitedSize(Len(b)))
  BY <1>1, DelimitedPlain
<1>. QED
  BY <1>2, WrittenNothing DEF BytesField, BytesSize

LEMMA IntervalFinite == ASSUME NEW n \in Nat PROVE IsFiniteSet(1..n)
BY FS_Interval

LEMMA AllFlattened ==
    ASSUME NEW ms, NEW ns, NEW l, AllWritten(ms, ns, l)
    PROVE  Written(FlattenSeq(ms), Sum(ns))
<1>1. /\ l \in Nat /\ ms \in [1..l -> Seq(Bytes)] /\ ns \in [1..l -> Nat]
      /\ \A i \in 1..l : Len(ms[i]) = ns[i]
  BY DEF AllWritten
<1>2. Parts(ms, Bytes) /\ Len(ms) = l
  BY <1>1 DEF Parts
<1>3. Lengths(ns, ms)
  BY <1>1, <1>2 DEF Lengths
<1>4. FlattenSeq(ms) \in Seq(Bytes) /\ Len(FlattenSeq(ms)) = SumFunctionOnSet(ns, 1..l)
  BY <1>2, <1>3, FlattenSized
<1>5. Sum(ns) = SumFunctionOnSet(ns, 1..l)
  BY <1>1 DEF Sum, SumFunction
<1>6. SumFunctionOnSet(ns, 1..l) \in Nat
  <2>1. IsFiniteSet(1..l) /\ \A i \in 1..l : ns[i] \in Nat
    BY <1>1, IntervalFinite
  <2>. QED
    BY <2>1, SumNat
<1>. QED
  BY <1>4, <1>5, <1>6 DEF Written

LEMMA RepeatedWritten ==
    ASSUME NEW num \in 1..15, NEW ms, NEW ns, NEW l, AllWritten(ms, ns, l)
    PROVE  Written(RepeatedField(num, ms), RepeatedSize(ns))
<1>. DEFINE entries == [i \in 1..l |-> Delimited(num, ms[i])]
            sizes == [i \in 1..l |-> DelimitedSize(ns[i])]
<1>1. /\ l \in Nat /\ ms \in [1..l -> Seq(Bytes)] /\ ns \in [1..l -> Nat]
      /\ \A i \in 1..l : Len(ms[i]) = ns[i]
  BY DEF AllWritten
<1>2. ASSUME NEW i \in 1..l
      PROVE  Written(Delimited(num, ms[i]), DelimitedSize(ns[i]))
  <2>1. Written(ms[i], ns[i])
    BY <1>1 DEF Written
  <2>. QED
    BY <2>1, DelimitedPlain
<1>3. AllWritten(entries, sizes, l)
  BY <1>1, <1>2 DEF AllWritten, Written
<1>4. Written(FlattenSeq(entries), Sum(sizes))
  <2>. HIDE DEF entries, sizes
  <2>. QED
    BY <1>3, AllFlattened
<1>5. RepeatedField(num, ms) = FlattenSeq(entries) /\ RepeatedSize(ns) = Sum(sizes)
  BY <1>1 DEF RepeatedField, RepeatedSize, Each
<1>. QED
  BY <1>4, <1>5

\* The elements of a packed field are not empty.
AllPositive(ns, l) == \A i \in 1..l : ns[i] > 0

LEMMA PackedWritten ==
    ASSUME NEW num \in 1..16, NEW ms, NEW ns, NEW l, AllWritten(ms, ns, l),
           AllPositive(ns, l)
    PROVE  Written(PackedField(num, ms),
                   IF ns = <<>> THEN 0 ELSE Extra(num) + PackedSize(ns))
<1>1. /\ l \in Nat /\ ms \in [1..l -> Seq(Bytes)] /\ ns \in [1..l -> Nat]
      /\ \A i \in 1..l : Len(ms[i]) = ns[i]
  BY DEF AllWritten
<1>. DEFINE b == FlattenSeq(ms)
<1>2. Written(b, Sum(ns))
  BY AllFlattened
<1>3. PackedField(num, ms) = BytesField(num, b)
  BY DEF PackedField
<1>. HIDE DEF b
<1>4. CASE l = 0
  <2>1. ns = <<>>
    BY <1>1, <1>4
  <2>2. Sum(ns) = 0
    <3>1. DOMAIN ns = {}
      BY <1>1, <1>4
    <3>. QED
      BY <3>1, SumOfNothing DEF Sum, SumFunction
  <2>3. b = <<>>
    BY <1>2, <2>2, EmptySeq DEF Written
  <2>. QED
    BY <1>3, <2>1, <2>3, WrittenNothing DEF BytesField
<1>5. CASE l # 0
  <2>1. 1 \in 1..l /\ ns # <<>>
    BY <1>1, <1>5
  <2>2. IsFiniteSet(1..l) /\ IsFiniteSet((1..l) \ {1})
    BY <1>1, IntervalFinite, FS_RemoveElement
  <2>3. SumFunctionOnSet(ns, 1..l) = ns[1] + SumFunctionOnSet(ns, (1..l) \ {1})
    BY <1>1, <2>1, <2>2, SumSplits
  <2>4. SumFunctionOnSet(ns, (1..l) \ {1}) \in Nat
    BY <1>1, <2>2, SumNat
  <2>5. Sum(ns) = SumFunctionOnSet(ns, 1..l)
    BY <1>1 DEF Sum, SumFunction
  <2>6. ns[1] \in Nat /\ ns[1] > 0
    BY <1>1, <2>1 DEF AllPositive
  <2>7. Sum(ns) > 0
    BY <2>3, <2>4, <2>5, <2>6
  <2>8. b # <<>>
    BY <1>2, <2>7 DEF Written
  <2>9. Written(Delimited(num, b), Extra(num) + DelimitedSize(Sum(ns)))
    BY <1>2, DelimitedWritten
  <2>. QED
    BY <1>3, <2>1, <2>8, <2>9 DEF BytesField, PackedSize
<1>. QED
  BY <1>4, <1>5

LEMMA PackedPlain ==
    ASSUME NEW num \in 1..15, NEW ms, NEW ns, NEW l, AllWritten(ms, ns, l),
           AllPositive(ns, l)
    PROVE  Written(PackedField(num, ms), PackedSize(ns))
<1>. DEFINE size == IF ns = <<>> THEN 0 ELSE Extra(num) + PackedSize(ns)
<1>1. Written(PackedField(num, ms), size)
  BY PackedWritten
<1>2. Extra(num) = 0
  BY DEF Extra
<1>3. CASE ns = <<>>
  BY <1>1, <1>3 DEF PackedSize
<1>4. CASE ns # <<>>
  <2>1. Sum(ns) \in Nat
    BY AllFlattened DEF Written
  <2>2. sovTypes(Sum(ns)) \in 1..10
    BY <2>1, VarintWritten
  <2>3. PackedSize(ns) \in Nat
    BY <1>4, <2>1, <2>2 DEF PackedSize, DelimitedSize
  <2>4. size = PackedSize(ns)
    BY <1>2, <1>4, <2>3
  <2>. QED
    BY <1>1, <2>4
<1>. QED
  BY <1>3, <1>4

-------------------------------------------------------------------------------
(* The messages: their types, and each is as long as its Size says. *)

Payload == Seq(Bytes)

LabelMessages == [Name : Payload, Value : Payload, unrecognized : Payload]
SampleMessages == [Value : Floats, Timestamp : Int64, unrecognized : Payload]
SpanMessages == [Offset : Int64, Length : Int64, unrecognized : Payload]

\* A oneof of a histogram.
Counts == [is : {"nil"}, v : {0}] \cup [is : {"int"}, v : Int64] \cup [is : {"float"}, v : Floats]

HistogramMessages ==
    [Count : Counts, Sum : Floats, Schema : Int64, ZeroThreshold : Floats, ZeroCount : Counts,
     NegativeSpans : Seq(SpanMessages), NegativeDeltas : Seq(Int64),
     NegativeCounts : Seq(Floats),
     PositiveSpans : Seq(SpanMessages), PositiveDeltas : Seq(Int64),
     PositiveCounts : Seq(Floats),
     ResetHint : Int64, Timestamp : Int64, CustomValues : Seq(Floats), unrecognized : Payload]

\* The messages with references, whose references are of the numbers N.
ExemplarMessages(N) ==
    [LabelsRefs : Seq(N), Value : Floats, Timestamp : Int64, unrecognized : Payload]
MetadataMessages(N) == [Type : Int64, HelpRef : N, UnitRef : N, unrecognized : Payload]

SeriesMessages(N) ==
    [LabelsRefs : Seq(N), Samples : Seq(SampleMessages), Histograms : Seq(HistogramMessages),
     Exemplars : Seq(ExemplarMessages(N)), Metadata : MetadataMessages(N),
     CreatedTimestamp : Int64, Labels : Seq(LabelMessages), unrecognized : Payload]

RequestMessages(N) ==
    [Symbols : Seq(Payload), Timeseries : Seq(SeriesMessages(N)), unrecognized : Payload]

LEMMA Int64Int ==
    /\ Int64 \subseteq Int /\ Seq(Int64) \subseteq Seq(Int)
    /\ \A x \in Int64 : x \in Int
    /\ \A s : s \in Seq(Int64) => s \in Seq(Int)
    /\ \A x \in 0..127 : x \in Int64
BY DEF Int64

LEMMA Int64Holds == \A x \in Int32 \cup Uint32 \cup Bytes : x \in Int64
<1>1. ASSUME NEW x \in Int32 PROVE x \in Int64
  <2>. DEFINE y == x \div 2097152
  <2>1. x \in Int /\ y \in Int /\ y \div 1024 \in {-1, 0}
    BY DEF Int32
  <2>. HIDE DEF y
  <2>2. (y \div 2097152) \div 2097152 \in {-1, 0}
    BY <2>1
  <2>. QED
    BY <2>1, <2>2 DEF Int64, y
<1>2. ASSUME NEW x \in Uint32 PROVE x \in Int64
  <2>. DEFINE y == x \div 2097152
  <2>1. x \in Int /\ y \in Int /\ y \div 2048 = 0
    BY DEF Uint32
  <2>. HIDE DEF y
  <2>2. (y \div 2097152) \div 2097152 \in {-1, 0}
    BY <2>1
  <2>. QED
    BY <2>1, <2>2 DEF Int64, y
<1>3. ASSUME NEW x \in Bytes PROVE x \in Int64
  <2>1. x \in Nat /\ x < 256
    BY DEF Bytes
  <2>. QED
    BY <2>1 DEF Int64
<1>. QED
  BY <1>1, <1>2, <1>3

LEMMA PayloadWritten == ASSUME NEW b \in Payload PROVE Written(b, Len(b))
BY LenProperties DEF Written, Payload

\* Three fields after what is written already.
LEMMA WrittenThree ==
    ASSUME NEW p, NEW a, NEW b, NEW c, NEW o, NEW l, NEW m, NEW n,
           Written(p, o), Written(a, l), Written(b, m), Written(c, n)
    PROVE  Written(p \o a \o b \o c, o + l + m + n)
<1>1. Written(p \o a, o + l)
  BY WrittenNext
<1>2. Written((p \o a) \o b, (o + l) + m)
  BY <1>1, WrittenNext
<1>. QED
  BY <1>2, WrittenNext

LEMMA LabelWritten ==
    ASSUME NEW m \in LabelMessages
    PROVE  Written(LabelMarshal(m), LabelSize(m))
<1>1. m.Name \in Seq(Bytes) /\ m.Value \in Seq(Bytes) /\ m.unrecognized \in Payload
  BY DEF LabelMessages, Payload
<1>2. /\ Written(BytesField(1, m.Name), BytesSize(m.Name))
      /\ Written(BytesField(2, m.Value), BytesSize(m.Value))
      /\ Written(m.unrecognized, Len(m.unrecognized))
  <2>1. 1 \in 1..15 /\ 2 \in 1..15
    OBVIOUS
  <2>2. Written(BytesField(1, m.Name), BytesSize(m.Name))
    BY <1>1, <2>1, BytesFieldWritten
  <2>3. Written(BytesField(2, m.Value), BytesSize(m.Value))
    BY <1>1, <2>1, BytesFieldWritten
  <2>. QED
    BY <1>1, <2>2, <2>3, PayloadWritten
<1>3. Written(BytesField(1, m.Name) \o BytesField(2, m.Value),
              BytesSize(m.Name) + BytesSize(m.Value))
  BY <1>2, WrittenNext
<1>. QED
  BY <1>2, <1>3, WrittenNext DEF LabelMarshal, LabelSize

LEMMA SampleWritten ==
    ASSUME NEW m \in SampleMessages
    PROVE  Written(SampleMarshal(m), SampleSize(m))
<1>1. m.Value \in Floats /\ m.Timestamp \in Int /\ m.unrecognized \in Payload
  BY Int64Int DEF SampleMessages
<1>2. /\ Written(FloatField(1, m.Value), FloatSize(m.Value))
      /\ Written(VarintField(2, m.Timestamp), VarintSize(m.Timestamp))
      /\ Written(m.unrecognized, Len(m.unrecognized))
  BY <1>1, FloatFieldWritten, VarintFieldWritten, PayloadWritten
<1>3. Written(FloatField(1, m.Value) \o VarintField(2, m.Timestamp),
              FloatSize(m.Value) + VarintSize(m.Timestamp))
  BY <1>2, WrittenNext
<1>. QED
  BY <1>2, <1>3, WrittenNext DEF SampleMarshal, SampleSize

\* The packed fields of numbers.
LEMMA VarintsWritten ==
    ASSUME NEW s \in Seq(Int)
    PROVE  Written(PackedField(1, Each(s, Varint)), PackedSize(Each(s, sovTypes)))
<1>. DEFINE ms == Each(s, Varint)
            ns == Each(s, sovTypes)
<1>0. SUFFICES Written(PackedField(1, ms), PackedSize(ns))
  OBVIOUS
<1>1. Len(s) \in Nat /\ DOMAIN s = 1..Len(s) /\ \A i \in 1..Len(s) : s[i] \in Int
  OBVIOUS
<1>2. \A i \in 1..Len(s) : Written(Varint(s[i]), sovTypes(s[i])) /\ sovTypes(s[i]) \in 1..10
  BY <1>1, VarintWritten
<1>3. AllWritten(ms, ns, Len(s)) /\ AllPositive(ns, Len(s))
  <2>1. /\ ms = [i \in 1..Len(s) |-> Varint(s[i])]
        /\ ns = [i \in 1..Len(s) |-> sovTypes(s[i])]
    BY <1>1 DEF Each
  <2>. HIDE DEF ms, ns
  <2>2. \A i \in 1..Len(s) : ms[i] \in Seq(Bytes) /\ Len(ms[i]) = ns[i] /\ ns[i] \in 1..10
    BY <1>2, <2>1 DEF Written
  <2>3. ms \in [1..Len(s) -> Seq(Bytes)] /\ ns \in [1..Len(s) -> Nat]
    BY <2>1, <2>2
  <2>4. AllWritten(ms, ns, Len(s))
    BY <1>1, <2>2, <2>3 DEF AllWritten
  <2>5. ASSUME NEW i \in 1..Len(s) PROVE ns[i] > 0
    <3>1. ns[i] \in 1..10
      BY <2>2
    <3>. QED
      BY <3>1
  <2>. QED
    BY <2>4, <2>5 DEF AllPositive
<1>. HIDE DEF ms, ns
<1>. QED
  BY <1>3, PackedPlain

LEMMA ZigzagInt ==
    ASSUME NEW x \in Int
    PROVE  Zigzag(x) \in Int /\ (Zigzag(x) = 0 <=> x = 0)
BY DEF Zigzag

LEMMA ZigzagsWritten ==
    ASSUME NEW num \in 1..15, NEW s \in Seq(Int)
    PROVE  Written(PackedField(num, Each(s, ZigzagVarint)), PackedSize(Each(s, sozTypes)))
<1>. DEFINE ms == Each(s, ZigzagVarint)
            ns == Each(s, sozTypes)
<1>0. SUFFICES Written(PackedField(num, ms), PackedSize(ns))
  OBVIOUS
<1>1. Len(s) \in Nat /\ DOMAIN s = 1..Len(s) /\ \A i \in 1..Len(s) : s[i] \in Int
  OBVIOUS
<1>2. \A i \in 1..Len(s) : Written(ZigzagVarint(s[i]), sozTypes(s[i])) /\ sozTypes(s[i]) \in 1..10
  <2>1. ASSUME NEW x \in Int
        PROVE  Written(ZigzagVarint(x), sozTypes(x)) /\ sozTypes(x) \in 1..10
    <3>1. Zigzag(x) \in Int
      BY ZigzagInt
    <3>. QED
      BY <3>1, VarintWritten DEF ZigzagVarint, sozTypes
  <2>. QED
    BY <1>1, <2>1
<1>3. AllWritten(ms, ns, Len(s)) /\ AllPositive(ns, Len(s))
  <2>1. /\ ms = [i \in 1..Len(s) |-> ZigzagVarint(s[i])]
        /\ ns = [i \in 1..Len(s) |-> sozTypes(s[i])]
    BY <1>1 DEF Each
  <2>. HIDE DEF ms, ns
  <2>2. \A i \in 1..Len(s) : ms[i] \in Seq(Bytes) /\ Len(ms[i]) = ns[i] /\ ns[i] \in 1..10
    BY <1>2, <2>1 DEF Written
  <2>3. ms \in [1..Len(s) -> Seq(Bytes)] /\ ns \in [1..Len(s) -> Nat]
    BY <2>1, <2>2
  <2>4. AllWritten(ms, ns, Len(s))
    BY <1>1, <2>2, <2>3 DEF AllWritten
  <2>5. ASSUME NEW i \in 1..Len(s) PROVE ns[i] > 0
    <3>1. ns[i] \in 1..10
      BY <2>2
    <3>. QED
      BY <3>1
  <2>. QED
    BY <2>4, <2>5 DEF AllPositive
<1>. HIDE DEF ms, ns
<1>. QED
  BY <1>3, PackedPlain

LEMMA FloatsAllWritten ==
    ASSUME NEW s \in Seq(Floats)
    PROVE  /\ AllWritten(Each(s, Fixed64), Each(s, Eight), Len(s))
           /\ AllPositive(Each(s, Eight), Len(s))
           /\ Each(s, Eight) = <<>> <=> s = <<>>
<1>1. Len(s) \in Nat /\ DOMAIN s = 1..Len(s) /\ \A i \in 1..Len(s) : s[i] \in Floats
  OBVIOUS
<1>2. \A i \in 1..Len(s) : Written(Fixed64(s[i]), 8)
  BY <1>1, Fixed64Written
<1>3. Each(s, Eight) = [i \in 1..Len(s) |-> 8]
  BY <1>1 DEF Each, Eight
<1>4. Each(s, Eight) = <<>> <=> s = <<>>
  <2>1. Each(s, Eight) \in Seq(Nat) /\ Len(Each(s, Eight)) = Len(s)
    BY <1>1, <1>3
  <2>. QED
    BY <1>1, <2>1, EmptySeq
<1>5. Each(s, Fixed64) = [i \in 1..Len(s) |-> Fixed64(s[i])]
  BY <1>1 DEF Each
<1>6. AllWritten(Each(s, Fixed64), Each(s, Eight), Len(s))
  BY <1>1, <1>2, <1>3, <1>5 DEF AllWritten, Written
<1>. QED
  BY <1>3, <1>4, <1>6 DEF AllPositive

LEMMA FloatsWritten ==
    ASSUME NEW num \in 1..15, NEW s \in Seq(Floats)
    PROVE  Written(PackedField(num, Each(s, Fixed64)), PackedSize(Each(s, Eight)))
<1>. DEFINE ms == Each(s, Fixed64)
            ns == Each(s, Eight)
<1>0. SUFFICES Written(PackedField(num, ms), PackedSize(ns))
  OBVIOUS
<1>1. AllWritten(ms, ns, Len(s)) /\ AllPositive(ns, Len(s))
  BY FloatsAllWritten
<1>. HIDE DEF ms, ns
<1>. QED
  BY <1>1, PackedPlain

LEMMA CustomWritten ==
    ASSUME NEW s \in Seq(Floats)
    PROVE  Written(PackedField(16, Each(s, Fixed64)),
                   IF s = <<>> THEN 0 ELSE 1 + PackedSize(Each(s, Eight)))
<1>. DEFINE ms == Each(s, Fixed64)
            ns == Each(s, Eight)
<1>1. AllWritten(ms, ns, Len(s)) /\ AllPositive(ns, Len(s)) /\ (ns = <<>> <=> s = <<>>)
  BY FloatsAllWritten
<1>. HIDE DEF ms, ns
<1>2. Written(PackedField(16, ms), IF ns = <<>> THEN 0 ELSE Extra(16) + PackedSize(ns))
  <2>1. 16 \in 1..16
    OBVIOUS
  <2>. QED
    BY <1>1, <2>1, PackedWritten
<1>3. Extra(16) = 1
  BY DEF Extra
<1>4. Written(PackedField(16, ms), IF s = <<>> THEN 0 ELSE 1 + PackedSize(ns))
  BY <1>1, <1>2, <1>3
<1>. QED
  BY <1>4 DEF ms, ns

LEMMA ExemplarWritten ==
    ASSUME NEW m \in ExemplarMessages(Int)
    PROVE  Written(ExemplarMarshal(m), ExemplarSize(m))
<1>1. /\ m.LabelsRefs \in Seq(Int) /\ m.Value \in Floats /\ m.Timestamp \in Int
      /\ m.unrecognized \in Payload
  BY Int64Int DEF ExemplarMessages
<1>2. /\ Written(PackedField(1, Each(m.LabelsRefs, Varint)),
                 PackedSize(Each(m.LabelsRefs, sovTypes)))
      /\ Written(FloatField(2, m.Value), FloatSize(m.Value))
      /\ Written(VarintField(3, m.Timestamp), VarintSize(m.Timestamp))
      /\ Written(m.unrecognized, Len(m.unrecognized))
  <2>1. 2 \in 1..15 /\ 3 \in 1..15
    OBVIOUS
  <2>2. Written(PackedField(1, Each(m.LabelsRefs, Varint)),
                PackedSize(Each(m.LabelsRefs, sovTypes)))
    BY <1>1, VarintsWritten
  <2>3. Written(FloatField(2, m.Value), FloatSize(m.Value))
    BY <1>1, <2>1, FloatFieldWritten
  <2>4. Written(VarintField(3, m.Timestamp), VarintSize(m.Timestamp))
    BY <1>1, <2>1, VarintFieldWritten
  <2>. QED
    BY <1>1, <2>2, <2>3, <2>4, PayloadWritten
<1>. QED
  BY <1>2, WrittenThree DEF ExemplarMarshal, ExemplarSize

LEMMA MetadataWritten ==
    ASSUME NEW m \in MetadataMessages(Int)
    PROVE  Written(MetadataMarshal(m), MetadataSize(m))
<1>1. m.Type \in Int /\ m.HelpRef \in Int /\ m.UnitRef \in Int /\ m.unrecognized \in Payload
  BY Int64Int DEF MetadataMessages
<1>2. /\ Written(VarintField(1, m.Type), VarintSize(m.Type))
      /\ Written(VarintField(3, m.HelpRef), VarintSize(m.HelpRef))
      /\ Written(VarintField(4, m.UnitRef), VarintSize(m.UnitRef))
      /\ Written(m.unrecognized, Len(m.unrecognized))
  <2>1. 1 \in 1..15 /\ 3 \in 1..15 /\ 4 \in 1..15
    OBVIOUS
  <2>2. Written(VarintField(1, m.Type), VarintSize(m.Type))
    BY <1>1, <2>1, VarintFieldWritten
  <2>3. Written(VarintField(3, m.HelpRef), VarintSize(m.HelpRef))
    BY <1>1, <2>1, VarintFieldWritten
  <2>4. Written(VarintField(4, m.UnitRef), VarintSize(m.UnitRef))
    BY <1>1, <2>1, VarintFieldWritten
  <2>. QED
    BY <1>1, <2>2, <2>3, <2>4, PayloadWritten
<1>. QED
  BY <1>2, WrittenThree DEF MetadataMarshal, MetadataSize

\* A signed number, left out when it is zero.
LEMMA ZigzagFieldWritten ==
    ASSUME NEW num \in 1..15, NEW x \in Int
    PROVE  Written(VarintField(num, Zigzag(x)), IF x = 0 THEN 0 ELSE 1 + sozTypes(x))
<1>1. Zigzag(x) \in Int /\ (Zigzag(x) = 0 <=> x = 0)
  BY ZigzagInt
<1>2. Written(VarintField(num, Zigzag(x)), VarintSize(Zigzag(x)))
  BY <1>1, VarintFieldWritten
<1>. QED
  BY <1>1, <1>2 DEF VarintSize, sozTypes

LEMMA SpanWritten ==
    ASSUME NEW m \in SpanMessages
    PROVE  Written(SpanMarshal(m), SpanSize(m))
<1>1. m.Offset \in Int /\ m.Length \in Int /\ m.unrecognized \in Payload
  BY Int64Int DEF SpanMessages
<1>. DEFINE n == IF m.Offset = 0 THEN 0 ELSE 1 + sozTypes(m.Offset)
<1>2. /\ Written(VarintField(1, Zigzag(m.Offset)), n)
      /\ Written(VarintField(2, m.Length), VarintSize(m.Length))
      /\ Written(m.unrecognized, Len(m.unrecognized))
  <2>1. 1 \in 1..15 /\ 2 \in 1..15
    OBVIOUS
  <2>2. Written(VarintField(1, Zigzag(m.Offset)), n)
    BY <1>1, <2>1, ZigzagFieldWritten
  <2>3. Written(VarintField(2, m.Length), VarintSize(m.Length))
    BY <1>1, <2>1, VarintFieldWritten
  <2>. QED
    BY <1>1, <2>2, <2>3, PayloadWritten
<1>5. SpanSize(m) = n + VarintSize(m.Length) + Len(m.unrecognized)
  BY DEF SpanSize
<1>. HIDE DEF n
<1>3. Written(VarintField(1, Zigzag(m.Offset)) \o VarintField(2, m.Length),
              n + VarintSize(m.Length))
  BY <1>2, WrittenNext
<1>4. Written(SpanMarshal(m), n + VarintSize(m.Length) + Len(m.unrecognized))
  BY <1>2, <1>3, WrittenNext DEF SpanMarshal
<1>. QED
  BY <1>4, <1>5

LEMMA SpansWritten ==
    ASSUME NEW num \in 1..15, NEW s \in Seq(SpanMessages)
    PROVE  Written(RepeatedField(num, Each(s, SpanMarshal)), RepeatedSize(Each(s, SpanSize)))
<1>. DEFINE ms == Each(s, SpanMarshal)
            ns == Each(s, SpanSize)
<1>0. SUFFICES Written(RepeatedField(num, ms), RepeatedSize(ns))
  OBVIOUS
<1>1. Len(s) \in Nat /\ DOMAIN s = 1..Len(s) /\ \A i \in 1..Len(s) : s[i] \in SpanMessages
  OBVIOUS
<1>2. \A i \in 1..Len(s) : Written(SpanMarshal(s[i]), SpanSize(s[i]))
  BY <1>1, SpanWritten
<1>3. AllWritten(ms, ns, Len(s))
  BY <1>1, <1>2 DEF AllWritten, Written, Each
<1>. HIDE DEF ms, ns
<1>. QED
  BY <1>3, RepeatedWritten

LEMMA CountWritten ==
    ASSUME NEW c \in Counts, NEW i \in 1..15, NEW f \in 1..15
    PROVE  Written(CountMarshal(c, i, f), CountSize(c))
<1>1. CASE c \in [is : {"nil"}, v : {0}] \cup [is : {"int"}, v : Int64]
  <2>1. c.v \in Int /\ c.is \in {"nil", "int"}
    <3>1. CASE c \in [is : {"nil"}, v : {0}]
      BY <3>1
    <3>2. CASE c \in [is : {"int"}, v : Int64]
      <4>1. c.v \in Int64 /\ c.is = "int"
        BY <3>2
      <4>. QED
        BY <4>1, Int64Int
    <3>. QED
      BY <1>1, <3>1, <3>2
  <2>2. Written(Tag(i, 0), 1)
    <3>1. Written(Tag(i, 0), 1 + Extra(i))
      BY TagWritten
    <3>2. 1 + Extra(i) = 1
      BY DEF Extra
    <3>. QED
      BY <3>1, <3>2
  <2>3. Written(Tag(i, 0) \o Varint(c.v), 1 + sovTypes(c.v))
    BY <2>1, <2>2, VarintWritten, WrittenNext
  <2>. QED
    BY <2>1, <2>3, WrittenNothing DEF CountMarshal, CountSize
<1>2. CASE c \in [is : {"float"}, v : Floats]
  <2>1. c.v \in Floats /\ c.is = "float"
    BY <1>2
  <2>2. Written(Tag(f, 1) \o Fixed64(c.v), 9)
    BY <2>1, FloatFieldWritten
  <2>. QED
    BY <2>1, <2>2 DEF CountMarshal, CountSize
<1>. QED
  BY <1>1, <1>2 DEF Counts

LEMMA HistogramWritten ==
    ASSUME NEW m \in HistogramMessages
    PROVE  Written(HistogramMarshal(m), HistogramSize(m))
<1>1. /\ m.Count \in Counts /\ m.Sum \in Floats /\ m.Schema \in Int
      /\ m.ZeroThreshold \in Floats /\ m.ZeroCount \in Counts
      /\ m.NegativeSpans \in Seq(SpanMessages) /\ m.NegativeDeltas \in Seq(Int)
      /\ m.NegativeCounts \in Seq(Floats)
      /\ m.PositiveSpans \in Seq(SpanMessages) /\ m.PositiveDeltas \in Seq(Int)
      /\ m.PositiveCounts \in Seq(Floats)
      /\ m.ResetHint \in Int /\ m.Timestamp \in Int
      /\ m.CustomValues \in Seq(Floats) /\ m.unrecognized \in Payload
  BY Int64Int DEF HistogramMessages
<1>. DEFINE f1 == CountMarshal(m.Count, 1, 2)
            f3 == FloatField(3, m.Sum)
            f4 == VarintField(4, Zigzag(m.Schema))
            f5 == FloatField(5, m.ZeroThreshold)
            f6 == CountMarshal(m.ZeroCount, 6, 7)
            f8 == RepeatedField(8, Each(m.NegativeSpans, SpanMarshal))
            f9 == PackedField(9, Each(m.NegativeDeltas, ZigzagVarint))
            f10 == PackedField(10, Each(m.NegativeCounts, Fixed64))
            f11 == RepeatedField(11, Each(m.PositiveSpans, SpanMarshal))
            f12 == PackedField(12, Each(m.PositiveDeltas, ZigzagVarint))
            f13 == PackedField(13, Each(m.PositiveCounts, Fixed64))
            f14 == VarintField(14, m.ResetHint)
            f15 == VarintField(15, m.Timestamp)
            f16 == PackedField(16, Each(m.CustomValues, Fixed64))
            n1 == CountSize(m.Count)
            n3 == FloatSize(m.Sum)
            n4 == IF m.Schema = 0 THEN 0 ELSE 1 + sozTypes(m.Schema)
            n5 == FloatSize(m.ZeroThreshold)
            n6 == CountSize(m.ZeroCount)
            n8 == RepeatedSize(Each(m.NegativeSpans, SpanSize))
            n9 == PackedSize(Each(m.NegativeDeltas, sozTypes))
            n10 == PackedSize(Each(m.NegativeCounts, Eight))
            n11 == RepeatedSize(Each(m.PositiveSpans, SpanSize))
            n12 == PackedSize(Each(m.PositiveDeltas, sozTypes))
            n13 == PackedSize(Each(m.PositiveCounts, Eight))
            n14 == VarintSize(m.ResetHint)
            n15 == VarintSize(m.Timestamp)
            n16 == IF m.CustomValues = <<>> THEN 0
                   ELSE 1 + PackedSize(Each(m.CustomValues, Eight))
<1>2. /\ HistogramMarshal(m)
           = f1 \o f3 \o f4 \o f5 \o f6 \o f8 \o f9 \o f10 \o f11 \o f12 \o f13
               \o f14 \o f15 \o f16 \o m.unrecognized
      /\ HistogramSize(m)
           = n1 + n3 + n4 + n5 + n6 + n8 + n9 + n10 + n11 + n12 + n13
               + n14 + n15 + n16 + Len(m.unrecognized)
  BY DEF HistogramMarshal, HistogramSize
<1>3. Written(f1, n1) /\ Written(f6, n6)
  <2>1. 1 \in 1..15 /\ 2 \in 1..15 /\ 6 \in 1..15 /\ 7 \in 1..15
    OBVIOUS
  <2>2. m.Count \in Counts /\ m.ZeroCount \in Counts
    BY <1>1
  <2>. QED
    BY <2>1, <2>2, CountWritten
<1>4. Written(f3, n3) /\ Written(f5, n5)
  <2>1. 3 \in 1..15 /\ 5 \in 1..15
    OBVIOUS
  <2>2. m.Sum \in Floats /\ m.ZeroThreshold \in Floats
    BY <1>1
  <2>. QED
    BY <2>1, <2>2, FloatFieldWritten
<1>5. Written(f4, n4)
  <2>1. 4 \in 1..15
    OBVIOUS
  <2>2. m.Schema \in Int
    BY <1>1
  <2>. QED
    BY <2>1, <2>2, ZigzagFieldWritten
<1>6. Written(f8, n8) /\ Written(f11, n11)
  <2>1. 8 \in 1..15 /\ 11 \in 1..15
    OBVIOUS
  <2>2. m.NegativeSpans \in Seq(SpanMessages) /\ m.PositiveSpans \in Seq(SpanMessages)
    BY <1>1
  <2>. QED
    BY <2>1, <2>2, SpansWritten
<1>7. Written(f9, n9) /\ Written(f12, n12)
  <2>1. 9 \in 1..15 /\ 12 \in 1..15
    OBVIOUS
  <2>2. m.NegativeDeltas \in Seq(Int) /\ m.PositiveDeltas \in Seq(Int)
    BY <1>1
  <2>. QED
    BY <2>1, <2>2, ZigzagsWritten
<1>8. Written(f10, n10) /\ Written(f13, n13)
  <2>1. 10 \in 1..15 /\ 13 \in 1..15
    OBVIOUS
  <2>2. m.NegativeCounts \in Seq(Floats) /\ m.PositiveCounts \in Seq(Floats)
    BY <1>1
  <2>. QED
    BY <2>1, <2>2, FloatsWritten
<1>9. Written(f14, n14) /\ Written(f15, n15)
  <2>1. 14 \in 1..15 /\ 15 \in 1..15
    OBVIOUS
  <2>2. m.ResetHint \in Int /\ m.Timestamp \in Int
    BY <1>1
  <2>. QED
    BY <2>1, <2>2, VarintFieldWritten
<1>10. Written(f16, n16)
  BY <1>1, CustomWritten
<1>11. Written(m.unrecognized, Len(m.unrecognized))
  BY <1>1, PayloadWritten
<1>. HIDE DEF f1, f3, f4, f5, f6, f8, f9, f10, f11, f12, f13, f14, f15, f16,
              n1, n3, n4, n5, n6, n8, n9, n10, n11, n12, n13, n14, n15, n16
<1>12. Written(f1 \o f3 \o f4 \o f5, n1 + n3 + n4 + n5)
  BY <1>3, <1>4, <1>5, WrittenThree
<1>13. Written(f1 \o f3 \o f4 \o f5 \o f6 \o f8 \o f9, n1 + n3 + n4 + n5 + n6 + n8 + n9)
  BY <1>3, <1>6, <1>7, <1>12, WrittenThree
<1>14. Written(f1 \o f3 \o f4 \o f5 \o f6 \o f8 \o f9 \o f10 \o f11 \o f12,
               n1 + n3 + n4 + n5 + n6 + n8 + n9 + n10 + n11 + n12)
  BY <1>6, <1>7, <1>8, <1>13, WrittenThree
<1>15. Written(f1 \o f3 \o f4 \o f5 \o f6 \o f8 \o f9 \o f10 \o f11 \o f12
                 \o f13 \o f14 \o f15,
               n1 + n3 + n4 + n5 + n6 + n8 + n9 + n10 + n11 + n12
                 + n13 + n14 + n15)
  BY <1>8, <1>9, <1>14, WrittenThree
<1>16. Written(f1 \o f3 \o f4 \o f5 \o f6 \o f8 \o f9 \o f10 \o f11 \o f12
                 \o f13 \o f14 \o f15 \o f16,
               n1 + n3 + n4 + n5 + n6 + n8 + n9 + n10 + n11 + n12
                 + n13 + n14 + n15 + n16)
  BY <1>10, <1>15, WrittenNext
<1>. QED
  BY <1>2, <1>11, <1>16, WrittenNext

LEMMA LabelsAllWritten ==
    ASSUME NEW num \in 1..15, NEW s \in Seq(LabelMessages)
    PROVE  Written(RepeatedField(num, Each(s, LabelMarshal)), RepeatedSize(Each(s, LabelSize)))
<1>. DEFINE ms == Each(s, LabelMarshal)
            ns == Each(s, LabelSize)
<1>0. SUFFICES Written(RepeatedField(num, ms), RepeatedSize(ns))
  OBVIOUS
<1>1. Len(s) \in Nat /\ DOMAIN s = 1..Len(s) /\ \A i \in 1..Len(s) : s[i] \in LabelMessages
  OBVIOUS
<1>2. \A i \in 1..Len(s) : Written(LabelMarshal(s[i]), LabelSize(s[i]))
  BY <1>1, LabelWritten
<1>3. AllWritten(ms, ns, Len(s))
  BY <1>1, <1>2 DEF AllWritten, Written, Each
<1>. HIDE DEF ms, ns
<1>. QED
  BY <1>3, RepeatedWritten

LEMMA SamplesAllWritten ==
    ASSUME NEW num \in 1..15, NEW s \in Seq(SampleMessages)
    PROVE  Written(RepeatedField(num, Each(s, SampleMarshal)), RepeatedSize(Each(s, SampleSize)))
<1>. DEFINE ms == Each(s, SampleMarshal)
            ns == Each(s, SampleSize)
<1>0. SUFFICES Written(RepeatedField(num, ms), RepeatedSize(ns))
  OBVIOUS
<1>1. Len(s) \in Nat /\ DOMAIN s = 1..Len(s) /\ \A i \in 1..Len(s) : s[i] \in SampleMessages
  OBVIOUS
<1>2. \A i \in 1..Len(s) : Written(SampleMarshal(s[i]), SampleSize(s[i]))
  BY <1>1, SampleWritten
<1>3. AllWritten(ms, ns, Len(s))
  BY <1>1, <1>2 DEF AllWritten, Written, Each
<1>. HIDE DEF ms, ns
<1>. QED
  BY <1>3, RepeatedWritten

LEMMA ExemplarsAllWritten ==
    ASSUME NEW num \in 1..15, NEW s \in Seq(ExemplarMessages(Int))
    PROVE  Written(RepeatedField(num, Each(s, ExemplarMarshal)), RepeatedSize(Each(s, ExemplarSize)))
<1>. DEFINE ms == Each(s, ExemplarMarshal)
            ns == Each(s, ExemplarSize)
<1>0. SUFFICES Written(RepeatedField(num, ms), RepeatedSize(ns))
  OBVIOUS
<1>1. Len(s) \in Nat /\ DOMAIN s = 1..Len(s) /\ \A i \in 1..Len(s) : s[i] \in ExemplarMessages(Int)
  OBVIOUS
<1>2. \A i \in 1..Len(s) : Written(ExemplarMarshal(s[i]), ExemplarSize(s[i]))
  BY <1>1, ExemplarWritten
<1>3. AllWritten(ms, ns, Len(s))
  BY <1>1, <1>2 DEF AllWritten, Written, Each
<1>. HIDE DEF ms, ns
<1>. QED
  BY <1>3, RepeatedWritten

LEMMA HistogramsAllWritten ==
    ASSUME NEW num \in 1..15, NEW s \in Seq(HistogramMessages)
    PROVE  Written(RepeatedField(num, Each(s, HistogramMarshal)), RepeatedSize(Each(s, HistogramSize)))
<1>. DEFINE ms == Each(s, HistogramMarshal)
            ns == Each(s, HistogramSize)
<1>0. SUFFICES Written(RepeatedField(num, ms), RepeatedSize(ns))
  OBVIOUS
<1>1. Len(s) \in Nat /\ DOMAIN s = 1..Len(s) /\ \A i \in 1..Len(s) : s[i] \in HistogramMessages
  OBVIOUS
<1>2. \A i \in 1..Len(s) : Written(HistogramMarshal(s[i]), HistogramSize(s[i]))
  BY <1>1, HistogramWritten
<1>3. AllWritten(ms, ns, Len(s))
  BY <1>1, <1>2 DEF AllWritten, Written, Each
<1>. HIDE DEF ms, ns
<1>. QED
  BY <1>3, RepeatedWritten

\* What custom.go reverses twice is the same.
LEMMA ReversedTwice ==
    ASSUME NEW b \in Seq(Bytes)
    PROVE  Reverse(Reverse(b)) = b
<1>1. Len(b) \in Nat /\ DOMAIN b = 1..Len(b)
  OBVIOUS
<1>2. Reverse(b) \in Seq(Bytes) /\ Len(Reverse(b)) = Len(b)
  BY <1>1 DEF Reverse
<1>3. ASSUME NEW i \in 1..Len(b) PROVE Reverse(Reverse(b))[i] = b[i]
  <2>1. (Len(b) - i) + 1 \in 1..Len(b) /\ (Len(b) - ((Len(b) - i) + 1)) + 1 = i
    BY <1>1
  <2>2. Reverse(Reverse(b))[i] = Reverse(b)[(Len(b) - i) + 1]
    BY <1>2 DEF Reverse
  <2>3. Reverse(b)[(Len(b) - i) + 1] = b[(Len(b) - ((Len(b) - i) + 1)) + 1]
    BY <2>1 DEF Reverse
  <2>. QED
    BY <2>1, <2>2, <2>3
<1>4. Reverse(Reverse(b)) \in Seq(Bytes) /\ Len(Reverse(Reverse(b))) = Len(b)
  <2>1. \A c \in Seq(Bytes) : Reverse(c) \in Seq(Bytes) /\ Len(Reverse(c)) = Len(c)
    BY DEF Reverse
  <2>. QED
    BY <1>2, <2>1
<1>. QED
  BY <1>3, <1>4, SeqEqual

LEMMA RefsWritten ==
    ASSUME NEW refs2 \in Seq(Int)
    PROVE  Written(RefsInPlace(refs2), PackedSize(Each(refs2, sovTypes)))
<1>. DEFINE ms == Each(refs2, Varint)
<1>1. Len(refs2) \in Nat /\ DOMAIN refs2 = 1..Len(refs2) /\ \A i \in 1..Len(refs2) : refs2[i] \in Int
  OBVIOUS
<1>2. ms = [i \in 1..Len(refs2) |-> Varint(refs2[i])]
  BY <1>1 DEF Each
<1>3. \A i \in 1..Len(refs2) : Varint(refs2[i]) \in Seq(Bytes)
  BY <1>1, VarintSized
<1>4. Parts(ms, Bytes)
  <2>. HIDE DEF ms
  <2>. QED
    BY <1>1, <1>2, <1>3 DEF Parts
<1>5. FlattenSeq(ms) \in Seq(Bytes)
  <2>. HIDE DEF ms
  <2>1. FlattenSeq(ms) \in Seq(Bytes)
    <3>1. PICK h \in [Nat -> Seq(Bytes)] : FlattenSeq(ms) = h[Len(ms)]
      BY <1>4, PartsOf
    <3>2. Len(ms) \in Nat
      BY <1>4, PartsOf
    <3>. QED
      BY <3>1, <3>2
  <2>. QED
    BY <2>1
<1>6. RefsInPlace(refs2) = BytesField(1, Reverse(Reverse(FlattenSeq(ms))))
  BY DEF RefsInPlace
<1>7. RefsInPlace(refs2) = PackedField(1, ms)
  BY <1>5, <1>6, ReversedTwice DEF PackedField
<1>. QED
  BY <1>7, VarintsWritten

\* The size of a series without its field Labels: what OptimizedMarshal writes.
OptimizedSize(m) ==
    PackedSize(Each(m.LabelsRefs, sovTypes)) + RepeatedSize(Each(m.Samples, SampleSize))
      + RepeatedSize(Each(m.Exemplars, ExemplarSize))
      + RepeatedSize(Each(m.Histograms, HistogramSize))
      + DelimitedSize(MetadataSize(m.Metadata)) + VarintSize(m.CreatedTimestamp)
      + Len(m.unrecognized)

LEMMA SizeNat == ASSUME NEW b, NEW n, Written(b, n) PROVE n \in Nat
BY DEF Written

LEMMA SeriesWritten ==
    ASSUME NEW m \in SeriesMessages(Int)
    PROVE  /\ Written(TimeSeriesMarshal(m), TimeSeriesSize(m))
           /\ Written(OptimizedSeriesMarshal(m), OptimizedSize(m))
           /\ OptimizedSize(m) <= TimeSeriesSize(m)
           /\ m.Labels = <<>> => OptimizedSize(m) = TimeSeriesSize(m)
<1>1. /\ m.LabelsRefs \in Seq(Int) /\ m.Samples \in Seq(SampleMessages)
      /\ m.Histograms \in Seq(HistogramMessages) /\ m.Exemplars \in Seq(ExemplarMessages(Int))
      /\ m.Metadata \in MetadataMessages(Int) /\ m.CreatedTimestamp \in Int
      /\ m.Labels \in Seq(LabelMessages) /\ m.unrecognized \in Payload
  BY Int64Int DEF SeriesMessages
<1>. DEFINE f1 == PackedField(1, Each(m.LabelsRefs, Varint))
            g1 == RefsInPlace(m.LabelsRefs)
            f2 == RepeatedField(2, Each(m.Samples, SampleMarshal))
            f3 == RepeatedField(3, Each(m.Histograms, HistogramMarshal))
            f4 == RepeatedField(4, Each(m.Exemplars, ExemplarMarshal))
            f5 == Delimited(5, MetadataMarshal(m.Metadata))
            f6 == VarintField(6, m.CreatedTimestamp)
            f7 == RepeatedField(7, Each(m.Labels, LabelMarshal))
            n1 == PackedSize(Each(m.LabelsRefs, sovTypes))
            n2 == RepeatedSize(Each(m.Samples, SampleSize))
            n3 == RepeatedSize(Each(m.Histograms, HistogramSize))
            n4 == RepeatedSize(Each(m.Exemplars, ExemplarSize))
            n5 == DelimitedSize(MetadataSize(m.Metadata))
            n6 == VarintSize(m.CreatedTimestamp)
            n7 == RepeatedSize(Each(m.Labels, LabelSize))
            l == Len(m.unrecognized)
<1>2. /\ TimeSeriesMarshal(m) = f1 \o f2 \o f3 \o f4 \o f5 \o f6 \o f7 \o m.unrecognized
      /\ TimeSeriesSize(m) = n1 + n2 + n3 + n4 + n5 + n6 + n7 + l
      /\ OptimizedSeriesMarshal(m) = g1 \o f2 \o f4 \o f3 \o f5 \o f6 \o m.unrecognized
      /\ OptimizedSize(m) = n1 + n2 + n4 + n3 + n5 + n6 + l
  BY DEF TimeSeriesMarshal, TimeSeriesSize, OptimizedSeriesMarshal, OptimizedSize
<1>3. Written(f1, n1) /\ Written(g1, n1)
  <2>1. m.LabelsRefs \in Seq(Int)
    BY <1>1
  <2>. QED
    BY <2>1, VarintsWritten, RefsWritten
<1>4. Written(f2, n2)
  <2>1. m.Samples \in Seq(SampleMessages) /\ 2 \in 1..15
    BY <1>1
  <2>. QED
    BY <2>1, SamplesAllWritten
<1>5. Written(f3, n3)
  <2>1. m.Histograms \in Seq(HistogramMessages) /\ 3 \in 1..15
    BY <1>1
  <2>. QED
    BY <2>1, HistogramsAllWritten
<1>6. Written(f4, n4)
  <2>1. m.Exemplars \in Seq(ExemplarMessages(Int)) /\ 4 \in 1..15
    BY <1>1
  <2>. QED
    BY <2>1, ExemplarsAllWritten
<1>7. Written(f5, n5)
  <2>1. Written(MetadataMarshal(m.Metadata), MetadataSize(m.Metadata)) /\ 5 \in 1..15
    BY <1>1, MetadataWritten
  <2>. QED
    BY <2>1, DelimitedPlain
<1>8. Written(f6, n6)
  <2>1. m.CreatedTimestamp \in Int /\ 6 \in 1..15
    BY <1>1
  <2>. QED
    BY <2>1, VarintFieldWritten
<1>9. Written(f7, n7)
  <2>1. m.Labels \in Seq(LabelMessages) /\ 7 \in 1..15
    BY <1>1
  <2>. QED
    BY <2>1, LabelsAllWritten
<1>10. Written(m.unrecognized, l)
  <2>1. m.unrecognized \in Payload
    BY <1>1
  <2>. QED
    BY <2>1, PayloadWritten
<1>11. m.Labels = <<>> => n7 = 0
  <2>1. SUFFICES ASSUME m.Labels = <<>> PROVE n7 = 0
    OBVIOUS
  <2>2. DOMAIN Each(Each(m.Labels, LabelSize), DelimitedSize) = {}
    BY <2>1 DEF Each
  <2>. QED
    BY <2>2, SumOfNothing DEF RepeatedSize, Sum, SumFunction
<1>. HIDE DEF f1, g1, f2, f3, f4, f5, f6, f7, n1, n2, n3, n4, n5, n6, n7, l
<1>12. Written(f1 \o f2 \o f3 \o f4, n1 + n2 + n3 + n4)
  BY <1>3, <1>4, <1>5, <1>6, WrittenThree
<1>13. Written(f1 \o f2 \o f3 \o f4 \o f5 \o f6 \o f7, n1 + n2 + n3 + n4 + n5 + n6 + n7)
  BY <1>7, <1>8, <1>9, <1>12, WrittenThree
<1>14. Written(TimeSeriesMarshal(m), TimeSeriesSize(m))
  BY <1>2, <1>10, <1>13, WrittenNext
<1>15. Written(g1 \o f2 \o f4 \o f3, n1 + n2 + n4 + n3)
  BY <1>3, <1>4, <1>5, <1>6, WrittenThree
<1>16. Written(OptimizedSeriesMarshal(m), OptimizedSize(m))
  BY <1>2, <1>7, <1>8, <1>10, <1>15, WrittenThree
<1>17. /\ n1 \in Nat /\ n2 \in Nat /\ n3 \in Nat /\ n4 \in Nat
       /\ n5 \in Nat /\ n6 \in Nat /\ n7 \in Nat /\ l \in Nat
  BY <1>3, <1>4, <1>5, <1>6, <1>7, <1>8, <1>9, <1>10, SizeNat
<1>18. TimeSeriesSize(m) = OptimizedSize(m) + n7
  BY <1>2, <1>17
<1>19. OptimizedSize(m) \in Nat
  BY <1>16, SizeNat
<1>. QED
  BY <1>11, <1>14, <1>16, <1>17, <1>18, <1>19

\* The bits of a number are no fewer than those of a smaller one.
LEMMA BitsGrow ==
    ASSUME NEW x \in Nat, NEW y \in Nat, x <= y
    PROVE  Bits[x] <= Bits[y]
<1>. DEFINE bad == {n \in Nat : \E k \in 0..n : ~(Bits[k] <= Bits[n])}
<1>1. bad = {}
  <2>1. SUFFICES ASSUME bad # {} PROVE FALSE
    OBVIOUS
  <2>2. PICK n \in bad : \A k \in bad : n <= k
    <3>1. bad \in SUBSET Nat
      OBVIOUS
    <3>. HIDE DEF bad
    <3>. QED
      BY <2>1, <3>1, NatMin
  <2>3. PICK k \in 0..n : ~(Bits[k] <= Bits[n])
    OBVIOUS
  <2>. DEFINE p == n \div 2
              q == k \div 2
  <2>4. n \in Nat /\ k \in Nat /\ k <= n /\ Bits[n] \in Nat /\ Bits[k] \in Nat
    <3>1. n \in Nat /\ k \in Nat /\ k <= n
      OBVIOUS
    <3>. QED
      BY <3>1, BitsSeven
  <2>5. k # 0
    <3>1. ASSUME k = 0 PROVE FALSE
      <4>1. Bits[k] = 0
        BY <3>1, BitsOf
      <4>. QED
        BY <2>3, <2>4, <4>1
    <3>. QED
      BY <3>1
  <2>6. Bits[n] = 1 + Bits[p] /\ Bits[k] = 1 + Bits[q]
    BY <2>4, <2>5, BitsOf
  <2>7. p \in Nat /\ q \in Nat /\ q <= p /\ p < n
    BY <2>4, <2>5
  <2>. HIDE DEF p, q
  <2>8. p \notin bad
    <3>. HIDE DEF bad
    <3>. QED
      BY <2>2, <2>4, <2>7
  <2>9. Bits[q] <= Bits[p]
    BY <2>7, <2>8
  <2>10. Bits[p] \in Nat /\ Bits[q] \in Nat
    BY <2>7, BitsSeven
  <2>. QED
    BY <2>3, <2>4, <2>6, <2>9, <2>10
<1>2. x \in 0..y
  OBVIOUS
<1>. QED
  BY <1>1, <1>2

LEMMA DelimitedGrows ==
    ASSUME NEW x \in Nat, NEW y \in Nat, x <= y
    PROVE  DelimitedSize(x) <= DelimitedSize(y)
<1>1. Bits[x] \in Nat /\ Bits[y] \in Nat /\ Bits[x] <= Bits[y]
  BY BitsSeven, BitsGrow
<1>2. /\ Len64(x) = IF Bits[x] > 64 THEN 64 ELSE Bits[x]
      /\ Len64(y) = IF Bits[y] > 64 THEN 64 ELSE Bits[y]
  BY DEF Len64
<1>3. Len64(x) \in Nat /\ Len64(y) \in Nat /\ Len64(x) <= Len64(y)
  BY <1>1, <1>2
<1>. DEFINE a == (Len64(x) + 6) \div 7
            b == (Len64(y) + 6) \div 7
<1>4. a \in Int /\ b \in Int /\ a <= b
  BY <1>3
<1>5. /\ sovTypes(x) = IF x = 0 THEN 1 ELSE a
      /\ sovTypes(y) = IF y = 0 THEN 1 ELSE b
  BY DEF sovTypes
<1>6. sovTypes(x) \in 1..10 /\ sovTypes(y) \in 1..10
  BY VarintWritten
<1>. HIDE DEF a, b
<1>7. sovTypes(x) <= sovTypes(y)
  BY <1>4, <1>5, <1>6
<1>. QED
  BY <1>6, <1>7 DEF DelimitedSize

\* A repeated field of shorter messages is no longer.
LEMMA RepeatedGrows ==
    ASSUME NEW l \in Nat, NEW ms \in [1..l -> Nat], NEW ns \in [1..l -> Nat],
           \A i \in 1..l : ms[i] <= ns[i]
    PROVE  RepeatedSize(ms) <= RepeatedSize(ns)
<1>. DEFINE f == [i \in 1..l |-> DelimitedSize(ms[i])]
            g == [i \in 1..l |-> DelimitedSize(ns[i])]
<1>1. RepeatedSize(ms) = SumFunctionOnSet(f, 1..l) /\ RepeatedSize(ns) = SumFunctionOnSet(g, 1..l)
  BY DEF RepeatedSize, Each, Sum, SumFunction
<1>2. ASSUME NEW i \in 1..l PROVE f[i] \in Nat /\ g[i] \in Nat /\ f[i] <= g[i]
  <2>1. ms[i] \in Nat /\ ns[i] \in Nat /\ ms[i] <= ns[i]
    OBVIOUS
  <2>2. DelimitedSize(ms[i]) <= DelimitedSize(ns[i])
    BY <2>1, DelimitedGrows
  <2>3. ASSUME NEW n \in Nat PROVE DelimitedSize(n) \in Nat
    <3>1. sovTypes(n) \in 1..10
      BY VarintWritten
    <3>. QED
      BY <3>1 DEF DelimitedSize
  <2>. QED
    BY <2>1, <2>2, <2>3
<1>3. IsFiniteSet(1..l)
  BY IntervalFinite
<1>. HIDE DEF f, g
<1>. QED
  BY <1>1, <1>2, <1>3, SumMonotone

\* The size of a request that OptimizedMarshal writes.
OptimizedRequestSize(m) ==
    RepeatedSize(Each(m.Symbols, Len)) + RepeatedSize(Each(m.Timeseries, OptimizedSize))
      + Len(m.unrecognized)

Unlabelled(m) == \A i \in 1..Len(m.Timeseries) : m.Timeseries[i].Labels = <<>>

LEMMA SymbolsWritten ==
    ASSUME NEW num \in 1..15, NEW s \in Seq(Payload)
    PROVE  Written(RepeatedField(num, s), RepeatedSize(Each(s, Len)))
<1>. DEFINE ns == Each(s, Len)
<1>0. SUFFICES Written(RepeatedField(num, s), RepeatedSize(ns))
  OBVIOUS
<1>1. Len(s) \in Nat /\ DOMAIN s = 1..Len(s) /\ \A i \in 1..Len(s) : s[i] \in Payload
  OBVIOUS
<1>2. \A i \in 1..Len(s) : Written(s[i], Len(s[i]))
  BY <1>1, PayloadWritten
<1>3. s \in [1..Len(s) -> Payload]
  OBVIOUS
<1>4. ns = [i \in 1..Len(s) |-> Len(s[i])]
  BY <1>1 DEF Each
<1>. HIDE DEF ns
<1>5. AllWritten(s, ns, Len(s))
  BY <1>1, <1>2, <1>3, <1>4 DEF AllWritten, Written, Payload
<1>. QED
  BY <1>5, RepeatedWritten

\* Size is what Marshal writes, for every request; OptimizedMarshal writes as
\* much of a request without the field Labels, and otherwise no more.
THEOREM RequestWritten ==
    ASSUME NEW m \in RequestMessages(Int)
    PROVE  /\ Written(RequestMarshal(m), RequestSize(m))
           /\ Written(OptimizedRequestMarshal(m), OptimizedRequestSize(m))
           /\ OptimizedRequestSize(m) <= RequestSize(m)
           /\ Unlabelled(m) => OptimizedRequestSize(m) = RequestSize(m)
<1>. DEFINE s == m.Timeseries
            n4 == RepeatedSize(Each(m.Symbols, Len))
            n5 == RepeatedSize(Each(s, TimeSeriesSize))
            o5 == RepeatedSize(Each(s, OptimizedSize))
            l == Len(m.unrecognized)
            f4 == RepeatedField(4, m.Symbols)
            f5 == RepeatedField(5, Each(s, TimeSeriesMarshal))
            g5 == RepeatedField(5, Each(s, OptimizedSeriesMarshal))
<1>1. m.Symbols \in Seq(Payload) /\ s \in Seq(SeriesMessages(Int)) /\ m.unrecognized \in Payload
  BY DEF RequestMessages
<1>2. /\ RequestMarshal(m) = f4 \o f5 \o m.unrecognized
      /\ RequestSize(m) = n4 + n5 + l
      /\ OptimizedRequestMarshal(m) = f4 \o g5 \o m.unrecognized
      /\ OptimizedRequestSize(m) = n4 + o5 + l
  BY DEF RequestMarshal, RequestSize, OptimizedRequestMarshal, OptimizedRequestSize
<1>3. Written(f4, n4)
  <2>1. 4 \in 1..15
    OBVIOUS
  <2>. QED
    BY <1>1, <2>1, SymbolsWritten
<1>4. Written(m.unrecognized, l)
  BY <1>1, PayloadWritten
<1>5. /\ Written(f5, n5) /\ Written(g5, o5) /\ o5 <= n5
      /\ Unlabelled(m) => o5 = n5
  <2>. DEFINE ms == Each(s, TimeSeriesMarshal)
              ns == Each(s, TimeSeriesSize)
              gs == Each(s, OptimizedSeriesMarshal)
              os == Each(s, OptimizedSize)
  <2>1. Len(s) \in Nat /\ DOMAIN s = 1..Len(s) /\ \A i \in 1..Len(s) : s[i] \in SeriesMessages(Int)
    BY <1>1
  <2>2. \A i \in 1..Len(s) : /\ Written(TimeSeriesMarshal(s[i]), TimeSeriesSize(s[i]))
                             /\ Written(OptimizedSeriesMarshal(s[i]), OptimizedSize(s[i]))
                             /\ OptimizedSize(s[i]) <= TimeSeriesSize(s[i])
                             /\ s[i].Labels = <<>>
                                  => OptimizedSize(s[i]) = TimeSeriesSize(s[i])
    BY <2>1, SeriesWritten
  <2>3. /\ ms = [i \in 1..Len(s) |-> TimeSeriesMarshal(s[i])]
        /\ ns = [i \in 1..Len(s) |-> TimeSeriesSize(s[i])]
        /\ gs = [i \in 1..Len(s) |-> OptimizedSeriesMarshal(s[i])]
        /\ os = [i \in 1..Len(s) |-> OptimizedSize(s[i])]
    BY <2>1 DEF Each
  <2>4. Unlabelled(m) => os = ns
    BY <2>2, <2>3 DEF Unlabelled
  <2>. SUFFICES /\ Written(RepeatedField(5, ms), RepeatedSize(ns))
                /\ Written(RepeatedField(5, gs), RepeatedSize(os))
                /\ RepeatedSize(os) <= RepeatedSize(ns)
                /\ Unlabelled(m) => RepeatedSize(os) = RepeatedSize(ns)
    OBVIOUS
  <2>. HIDE DEF ms, ns, gs, os, s
  <2>5. AllWritten(ms, ns, Len(s)) /\ AllWritten(gs, os, Len(s))
    BY <2>1, <2>2, <2>3 DEF AllWritten, Written
  <2>6. 5 \in 1..15
    OBVIOUS
  <2>7. /\ Written(RepeatedField(5, ms), RepeatedSize(ns))
        /\ Written(RepeatedField(5, gs), RepeatedSize(os))
    BY <2>5, <2>6, RepeatedWritten
  <2>8. RepeatedSize(os) <= RepeatedSize(ns)
    <3>1. os \in [1..Len(s) -> Nat] /\ ns \in [1..Len(s) -> Nat]
      BY <2>5 DEF AllWritten
    <3>2. \A i \in 1..Len(s) : os[i] <= ns[i]
      BY <2>2, <2>3
    <3>. QED
      BY <2>1, <3>1, <3>2, RepeatedGrows
  <2>. QED
    BY <2>4, <2>7, <2>8
<1>. HIDE DEF s, n4, n5, o5, l, f4, f5, g5
<1>6. Written(RequestMarshal(m), RequestSize(m))
  <2>1. Written(f4 \o f5, n4 + n5)
    BY <1>3, <1>5, WrittenNext
  <2>. QED
    BY <1>2, <1>4, <2>1, WrittenNext
<1>7. Written(OptimizedRequestMarshal(m), OptimizedRequestSize(m))
  <2>1. Written(f4 \o g5, n4 + o5)
    BY <1>3, <1>5, WrittenNext
  <2>. QED
    BY <1>2, <1>4, <2>1, WrittenNext
<1>8. n4 \in Nat /\ n5 \in Nat /\ o5 \in Nat /\ l \in Nat
  BY <1>3, <1>4, <1>5, SizeNat
<1>. QED
  BY <1>2, <1>5, <1>6, <1>7, <1>8

-------------------------------------------------------------------------------
(* The buffers. *)

LEMMA BufferFilled ==
    ASSUME NEW buffer \in Seq(Bytes), NEW bytes \in Seq(Bytes), Len(bytes) <= Len(buffer)
    PROVE  /\ WriteAtEnd(buffer, bytes) \in Seq(Bytes)
           /\ Len(WriteAtEnd(buffer, bytes)) = Len(buffer)
           /\ Len(bytes) = Len(buffer) => WriteAtEnd(buffer, bytes) = bytes
<1>. DEFINE k == Len(buffer) - Len(bytes)
            front == SubSeq(buffer, 1, k)
<1>1. Len(buffer) \in Nat /\ Len(bytes) \in Nat /\ k \in 0..Len(buffer)
  <2>1. Len(buffer) \in Nat /\ Len(bytes) \in Nat
    BY LenProperties
  <2>. QED
    BY <2>1
<1>. HIDE DEF k
<1>2. front \in Seq(Bytes) /\ Len(front) = k
  BY <1>1
<1>. HIDE DEF front
<1>3. front \o bytes \in Seq(Bytes) /\ Len(front \o bytes) = k + Len(bytes)
  BY <1>1, <1>2, ConcatProperties
<1>4. WriteAtEnd(buffer, bytes) = front \o bytes
  BY DEF WriteAtEnd, front, k
<1>5. k + Len(bytes) = Len(buffer) /\ (Len(bytes) = Len(buffer) => k = 0)
  BY <1>1 DEF k
<1>6. k = 0 => front \o bytes = bytes
  <2>1. SUFFICES ASSUME k = 0 PROVE front \o bytes = bytes
    OBVIOUS
  <2>2. front = <<>>
    BY <1>2, <2>1, EmptySeq
  <2>. QED
    BY <2>2, ConcatEmptySeq
<1>. QED
  BY <1>3, <1>4, <1>5, <1>6

LEMMA WholeOf ==
    ASSUME NEW s \in Seq(Bytes)
    PROVE  SubSeq(s, 1, Len(s)) = s
OBVIOUS

LEMMA PrefixOf ==
    ASSUME NEW s \in Seq(Bytes), NEW n \in Nat, n <= Len(s)
    PROVE  SubSeq(s, 1, n) \in Seq(Bytes) /\ Len(SubSeq(s, 1, n)) = n
<1>1. Len(s) \in Nat
  BY LenProperties
<1>. QED
  BY <1>1

LEMMA MadeOf ==
    ASSUME NEW n \in Nat
    PROVE  Make(n) \in Seq(Bytes) /\ Len(Make(n)) = n
<1>1. 0 \in Bytes
  BY DEF Bytes
<1>. QED
  BY <1>1 DEF Make

\* Marshal returns what is written, all of it and nothing else.
THEOREM MarshalIsWhole ==
    ASSUME NEW m \in RequestMessages(Int)
    PROVE  Marshal(m) = RequestMarshal(m) /\ Marshal(m) \in Seq(Bytes)
<1>. DEFINE bytes == RequestMarshal(m)
            size == RequestSize(m)
<1>1. bytes \in Seq(Bytes) /\ Len(bytes) = size /\ size \in Nat
  BY RequestWritten DEF Written
<1>2. Marshal(m) = IF Len(bytes) > size THEN Error
                   ELSE SubSeq(WriteAtEnd(Make(size), bytes), 1, Len(bytes))
  BY DEF Marshal
<1>. HIDE DEF bytes, size
<1>3. Make(size) \in Seq(Bytes) /\ Len(Make(size)) = size
  BY <1>1, MadeOf
<1>4. WriteAtEnd(Make(size), bytes) = bytes
  BY <1>1, <1>3, BufferFilled
<1>5. Marshal(m) = SubSeq(bytes, 1, Len(bytes))
  BY <1>1, <1>2, <1>4
<1>6. Marshal(m) = bytes
  BY <1>1, <1>5, WholeOf
<1>. QED
  BY <1>1, <1>6 DEF bytes

\* OptimizedMarshal returns bytes whatever buffer it is given, and for a
\* request without the field Labels what is written: of the buffer, nothing.
THEOREM OptimizedIsWhole ==
    ASSUME NEW m \in RequestMessages(Int), NEW b \in Seq(Bytes)
    PROVE  /\ OptimizedMarshal(m, b) \in Seq(Bytes)
           /\ OptimizedBuffer(m, b) \in Seq(Bytes)
           /\ Unlabelled(m) => OptimizedMarshal(m, b) = OptimizedRequestMarshal(m)
<1>. DEFINE bytes == OptimizedRequestMarshal(m)
            size == RequestSize(m)
            n == OptimizedRequestSize(m)
            buffer == IF Len(b) < size THEN Make(size) ELSE b
            front == SubSeq(buffer, 1, size)
            rest == SubSeq(buffer, size + 1, Len(buffer))
            filled == WriteAtEnd(front, bytes)
<1>1. /\ bytes \in Seq(Bytes) /\ Len(bytes) = n /\ n \in Nat
      /\ size \in Nat /\ n <= size /\ (Unlabelled(m) => n = size)
  BY RequestWritten DEF Written
<1>2. /\ OptimizedBuffer(m, b) = filled \o rest
      /\ OptimizedMarshal(m, b) = IF Len(bytes) > size THEN Error
                                  ELSE SubSeq(OptimizedBuffer(m, b), 1, Len(bytes))
  BY DEF OptimizedBuffer, OptimizedMarshal
<1>. HIDE DEF bytes, size, n
<1>3. buffer \in Seq(Bytes) /\ Len(buffer) \in Nat /\ size <= Len(buffer)
  <2>1. Make(size) \in Seq(Bytes) /\ Len(Make(size)) = size /\ Len(b) \in Nat
    BY <1>1, MadeOf, LenProperties
  <2>. QED
    BY <1>1, <2>1
<1>. HIDE DEF buffer
<1>4. front \in Seq(Bytes) /\ Len(front) = size
  BY <1>1, <1>3, PrefixOf
<1>5. rest \in Seq(Bytes)
  BY <1>1, <1>3
<1>. HIDE DEF front, rest
<1>6. /\ filled \in Seq(Bytes) /\ Len(filled) = size
      /\ n = size => filled = bytes
  BY <1>1, <1>4, BufferFilled
<1>. HIDE DEF filled
<1>7. filled \o rest \in Seq(Bytes) /\ Len(filled \o rest) >= size
  <2>1. Len(filled \o rest) = Len(filled) + Len(rest) /\ filled \o rest \in Seq(Bytes)
    BY <1>5, <1>6, ConcatProperties
  <2>2. Len(rest) \in Nat
    BY <1>5, LenProperties
  <2>. QED
    BY <1>1, <1>6, <2>1, <2>2
<1>8. OptimizedMarshal(m, b) = SubSeq(filled \o rest, 1, n)
  <2>1. ~(Len(bytes) > size) /\ Len(bytes) = n
    BY <1>1
  <2>2. OptimizedMarshal(m, b) = SubSeq(OptimizedBuffer(m, b), 1, Len(bytes))
    BY <1>2, <2>1
  <2>. QED
    BY <1>2, <2>1, <2>2
<1>9. SubSeq(filled \o rest, 1, n) \in Seq(Bytes)
  <2>1. n <= Len(filled \o rest)
    <3>1. Len(filled \o rest) \in Nat
      BY <1>7, LenProperties
    <3>. QED
      BY <1>1, <1>7, <3>1
  <2>. QED
    BY <1>1, <1>7, <2>1, PrefixOf
<1>10. n = size => SubSeq(filled \o rest, 1, n) = bytes
  <2>1. SUFFICES ASSUME n = size PROVE SubSeq(bytes \o rest, 1, Len(bytes)) = bytes
    BY <1>1, <1>6
  <2>. QED
    BY <1>1, <1>5
<1>. QED
  BY <1>1, <1>2, <1>7, <1>8, <1>9, <1>10 DEF bytes

-------------------------------------------------------------------------------
(* What sequences hold. *)

LEMMA SeqTyped ==
    ASSUME NEW T, NEW s \in Seq(T)
    PROVE  /\ Len(s) \in Nat /\ DOMAIN s = 1..Len(s)
           /\ \A i \in 1..Len(s) : s[i] \in T
OBVIOUS

LEMMA FlattenTyped ==
    ASSUME NEW T, NEW ss, Parts(ss, T)
    PROVE  FlattenSeq(ss) \in Seq(T)
<1>1. PICK h \in [Nat -> Seq(T)] : FlattenSeq(ss) = h[Len(ss)]
  BY PartsOf
<1>2. Len(ss) \in Nat
  BY PartsOf
<1>. QED
  BY <1>1, <1>2

LEMMA RangeTyped ==
    ASSUME NEW T, NEW s \in Seq(T)
    PROVE  /\ Range(s) \subseteq T
           /\ \A i \in 1..Len(s) : s[i] \in Range(s)
BY DEF Range

\* Both parts of a sequence are in it.
LEMMA RangeJoined ==
    ASSUME NEW T, NEW u \in Seq(T), NEW v \in Seq(T)
    PROVE  /\ u \o v \in Seq(T)
           /\ Range(u) \subseteq Range(u \o v)
           /\ Range(v) \subseteq Range(u \o v)
<1>. DEFINE w == u \o v
<1>1. /\ w \in Seq(T)
      /\ \A j \in 1..Len(u) : j \in 1..Len(w) /\ w[j] = u[j]
      /\ EndsWith(w, u, v)
  BY Joined
<1>. HIDE DEF w
<1>2. /\ \A x \in Range(u) : \E j \in 1..Len(u) : x = u[j]
      /\ \A x \in Range(v) : \E j \in 1..Len(v) : x = v[j]
  BY DEF Range
<1>3. \A j \in 1..Len(w) : w[j] \in Range(w)
  BY <1>1, RangeTyped
<1>4. Range(u) \subseteq Range(w)
  BY <1>1, <1>2, <1>3
<1>5. Range(v) \subseteq Range(w)
  BY <1>1, <1>2, <1>3 DEF EndsWith
<1>. QED
  BY <1>1, <1>4, <1>5 DEF w

\* And every part of a flattened one.
LEMMA RangeFlat ==
    ASSUME NEW T, NEW ss, Parts(ss, T), NEW n \in 1..Len(ss)
    PROVE  Range(ss[n]) \subseteq Range(FlattenSeq(ss))
<1>1. ss[n] \in Seq(T)
  BY PartsOf
<1>2. \A k \in 1..Len(ss[n]) :
         \E j \in 1..Len(FlattenSeq(ss)) : FlattenSeq(ss)[j] = ss[n][k]
  BY FlattenHolds
<1>3. FlattenSeq(ss) \in Seq(T)
  BY FlattenTyped
<1>4. \A j \in 1..Len(FlattenSeq(ss)) : FlattenSeq(ss)[j] \in Range(FlattenSeq(ss))
  BY <1>3, RangeTyped
<1>5. \A x \in Range(ss[n]) : \E k \in 1..Len(ss[n]) : x = ss[n][k]
  BY <1>1 DEF Range
<1>. QED
  BY <1>2, <1>4, <1>5

-------------------------------------------------------------------------------
(* Recursion from the end of an interval. *)

\* F[i], given the values after i, is the value at i.
Later(F, lo, hi, V) ==
    /\ F \in [lo..hi -> [[lo..hi -> V] -> V]]
    /\ \A i \in lo..hi : \A f, g \in [lo..hi -> V] :
          (\A j \in (i + 1)..hi : f[j] = g[j]) => F[i][f] = F[i][g]

LEMMA Backwards ==
    ASSUME NEW lo \in Int, NEW hi \in Int, NEW V, NEW v \in V, NEW F, Later(F, lo, hi, V)
    PROVE  \E f \in [lo..hi -> V] : \A i \in lo..hi : f[i] = F[i][f]
<1>. DEFINE Good(k, f) == \A i \in lo..hi : i > hi - k => f[i] = F[i][f]
            T == {k \in Nat : ~ \E f \in [lo..hi -> V] : Good(k, f)}
<1>1. SUFFICES ASSUME T # {} PROVE FALSE
  <2>1. CASE hi < lo
    <3>1. [i \in lo..hi |-> v] \in [lo..hi -> V] /\ lo..hi = {}
      BY <2>1
    <3>. QED
      BY <3>1
  <2>2. CASE lo <= hi
    <3>1. T = {}
      BY <1>1
    <3>2. hi - lo + 1 \in Nat
      BY <2>2
    <3>3. PICK f \in [lo..hi -> V] : Good(hi - lo + 1, f)
      BY <3>1, <3>2
    <3>. QED
      BY <3>3
  <2>. QED
    BY <2>1, <2>2
<1>2. PICK k \in T : \A j \in T : k <= j
  BY <1>1, NatMin
<1>3. k \in Nat
  OBVIOUS
<1>4. k # 0
  <2>1. [i \in lo..hi |-> v] \in [lo..hi -> V] /\ Good(0, [i \in lo..hi |-> v])
    OBVIOUS
  <2>. QED
    BY <1>2, <2>1
<1>5. PICK f \in [lo..hi -> V] : Good(k - 1, f)
  <2>1. k - 1 \in Nat /\ k - 1 \notin T
    <3>. HIDE DEF T
    <3>. QED
      BY <1>2, <1>3, <1>4
  <2>. QED
    BY <2>1
<1>. DEFINE p == hi - k + 1
            g == [f EXCEPT ![p] = F[p][f]]
<1>6. CASE p \notin lo..hi
  <2>1. Good(k, f)
    BY <1>3, <1>4, <1>5, <1>6
  <2>. QED
    BY <1>2, <2>1
<1>7. CASE p \in lo..hi
  <2>1. F[p][f] \in V
    BY <1>7 DEF Later
  <2>2. g \in [lo..hi -> V]
    BY <2>1
  <2>3. ASSUME NEW i \in lo..hi, i > hi - k PROVE g[i] = F[i][g]
    <3>1. \A j \in (i + 1)..hi : g[j] = f[j]
      BY <1>3, <2>3
    <3>2. F[i][g] = F[i][f]
      <4>. HIDE DEF g
      <4>. QED
        BY <2>2, <3>1 DEF Later
    <3>3. CASE i = p
      BY <3>2, <3>3, <1>7
    <3>4. CASE i # p
      <4>1. g[i] = f[i] /\ i > hi - (k - 1)
        BY <1>3, <2>3, <3>4
      <4>2. f[i] = F[i][f]
        BY <1>5, <4>1
      <4>. QED
        BY <3>2, <4>1, <4>2
    <3>. QED
      BY <3>3, <3>4
  <2>4. Good(k, g)
    BY <2>3
  <2>. HIDE DEF g, Good
  <2>. QED
    BY <1>2, <2>2, <2>4
<1>. QED
  BY <1>6, <1>7

\* f agrees, all over the interval, with what F makes of it.
Fixes(f, F, lo, hi) == \A i \in lo..hi : f[i] = F[i][f]

LEMMA Recurs ==
    ASSUME NEW lo \in Int, NEW hi \in Int, NEW V, NEW v \in V, NEW F, Later(F, lo, hi, V)
    PROVE  \E f \in [lo..hi -> V] : Fixes(f, F, lo, hi)
BY Backwards DEF Fixes

-------------------------------------------------------------------------------
(* A varint that is read. *)

\* c is what b holds from i on.
Stands(c, b, i) ==
    /\ i \in Nat \ {0} /\ Len(c) \in Nat /\ i + Len(c) - 1 <= Len(b)
    /\ \A k \in 1..Len(c) : b[i + k - 1] = c[k]

LEMMA StandsTwo ==
    ASSUME NEW c \in Seq(Bytes), NEW d \in Seq(Bytes), NEW b \in Seq(Bytes), NEW i \in Nat \ {0}
    PROVE  Stands(c \o d, b, i) <=> (Stands(c, b, i) /\ Stands(d, b, i + Len(c)))
<1>1. /\ Len(c) \in Nat /\ Len(d) \in Nat /\ Len(b) \in Nat
      /\ Len(c \o d) = Len(c) + Len(d)
      /\ \A k \in 1..Len(c) : (c \o d)[k] = c[k]
      /\ \A k \in 1..Len(d) : (c \o d)[Len(c) + k] = d[k]
  BY ConcatProperties
<1>2. ASSUME Stands(c \o d, b, i)
      PROVE  Stands(c, b, i) /\ Stands(d, b, i + Len(c))
  <2>1. /\ i + (Len(c) + Len(d)) - 1 <= Len(b)
        /\ \A k \in 1..(Len(c) + Len(d)) : b[i + k - 1] = (c \o d)[k]
    BY <1>1, <1>2 DEF Stands
  <2>2. ASSUME NEW k \in 1..Len(c) PROVE b[i + k - 1] = c[k]
    <3>1. k \in 1..(Len(c) + Len(d)) /\ (c \o d)[k] = c[k]
      BY <1>1
    <3>. QED
      BY <2>1, <3>1
  <2>3. ASSUME NEW k \in 1..Len(d) PROVE b[(i + Len(c)) + k - 1] = d[k]
    <3>1. Len(c) + k \in 1..(Len(c) + Len(d)) /\ i + (Len(c) + k) - 1 = (i + Len(c)) + k - 1
      BY <1>1
    <3>. QED
      BY <1>1, <2>1, <3>1
  <2>. QED
    BY <1>1, <2>1, <2>2, <2>3 DEF Stands
<1>3. ASSUME Stands(c, b, i), Stands(d, b, i + Len(c))
      PROVE  Stands(c \o d, b, i)
  <2>1. /\ (i + Len(c)) + Len(d) - 1 <= Len(b)
        /\ \A k \in 1..Len(c) : b[i + k - 1] = c[k]
        /\ \A k \in 1..Len(d) : b[(i + Len(c)) + k - 1] = d[k]
    BY <1>3 DEF Stands
  <2>2. ASSUME NEW k \in 1..(Len(c) + Len(d)) PROVE b[i + k - 1] = (c \o d)[k]
    <3>1. CASE k <= Len(c)
      <4>1. k \in 1..Len(c)
        BY <1>1, <3>1
      <4>. QED
        BY <1>1, <2>1, <4>1
    <3>2. CASE k > Len(c)
      <4>1. PICK m \in 1..Len(d) : k = Len(c) + m
        <5>1. k - Len(c) \in 1..Len(d) /\ k = Len(c) + (k - Len(c))
          BY <1>1, <3>2
        <5>. QED
          BY <5>1
      <4>2. (i + Len(c)) + m - 1 = i + k - 1
        BY <1>1, <4>1
      <4>. QED
        BY <1>1, <2>1, <4>1, <4>2
    <3>. QED
      BY <1>1, <3>1, <3>2
  <2>. QED
    BY <1>1, <2>1, <2>2 DEF Stands
<1>. QED
  BY <1>2, <1>3

GoesDown(G) == \A k \in 1..9 : k \in G => k - 1 \in G

LEMMA Countdown ==
    ASSUME NEW G, 9 \in G, GoesDown(G)
    PROVE  \A k \in 0..9 : k \in G
<1>. DEFINE T == {n \in Nat : \E k \in 0..9 : k + n = 9 /\ k \notin G}
<1>1. SUFFICES ASSUME T # {} PROVE FALSE
  <2>1. ASSUME NEW k \in 0..9, k \notin G PROVE 9 - k \in T
    <3>1. 9 - k \in Nat /\ k + (9 - k) = 9
      OBVIOUS
    <3>. QED
      BY <2>1, <3>1
  <2>. QED
    BY <2>1
<1>2. PICK n \in T : \A m \in T : n <= m
  <2>. HIDE DEF T
  <2>1. T \in SUBSET Nat
    BY DEF T
  <2>. QED
    BY <1>1, <2>1, NatMin
<1>3. PICK k \in 0..9 : k + n = 9 /\ k \notin G
  OBVIOUS
<1>4. n \in Nat \ {0}
  <2>1. k # 9
    BY <1>3
  <2>. QED
    BY <1>3, <2>1
<1>5. PICK j \in 1..9 : j - 1 = k
  <2>1. k + 1 \in 1..9 /\ (k + 1) - 1 = k
    BY <1>3, <1>4
  <2>. QED
    BY <2>1
<1>6. j + (n - 1) = 9 /\ n - 1 \in Nat /\ j \in 0..9
  BY <1>3, <1>4, <1>5
<1>7. j \in G
  <2>1. n - 1 \notin T
    <3>1. n - 1 < n
      BY <1>4
    <3>. HIDE DEF T
    <3>2. \A m \in T : n <= m
      BY <1>2
    <3>. QED
      BY <1>4, <1>6, <3>1, <3>2
  <2>. QED
    BY <1>6, <2>1
<1>. QED
  BY <1>3, <1>5, <1>7 DEF GoesDown

\* The bytes of a varint: all but the last have their high bit.
Shaped(w, n) ==
    /\ w \in Seq(Bytes) /\ Len(w) \in 1..n /\ w[Len(w)] < 128
    /\ \A m \in 1..(Len(w) - 1) : w[m] >= 128

LEMMA ShapedNext ==
    ASSUME NEW k \in 0..8, NEW x \in Int, Shaped(Groups[k + 1][x \div 128], 9 - k)
    PROVE  Shaped(Groups[k][x], 10 - k)
<1>. DEFINE w == Groups[k + 1][x \div 128]
<1>1. Groups[k][x] = IF x \in 0..127 THEN <<x>> ELSE <<(x % 128) + 128>> \o w
  <2>1. Groups[k][x] = Earlier(Groups[k + 1], x)
    BY GroupsDefined
  <2>. QED
    BY <2>1 DEF Earlier
<1>2. CASE x \in 0..127
  <2>1. Groups[k][x] = <<x>> /\ <<x>> \in Seq(Bytes)
    BY <1>1, <1>2 DEF Bytes
  <2>. QED
    BY <1>2, <2>1 DEF Shaped
<1>3. CASE x \notin 0..127
  <2>. DEFINE c == (x % 128) + 128
  <2>1. c \in Bytes /\ c >= 128
    BY DEF Bytes
  <2>2. Groups[k][x] = <<c>> \o w
    BY <1>1, <1>3
  <2>. HIDE DEF c, w
  <2>3. /\ w \in Seq(Bytes) /\ Len(w) \in 1..(9 - k) /\ w[Len(w)] < 128
        /\ \A m \in 1..(Len(w) - 1) : w[m] >= 128
    BY DEF Shaped, w
  <2>4. /\ <<c>> \o w \in Seq(Bytes) /\ Len(<<c>> \o w) = 1 + Len(w)
        /\ (<<c>> \o w)[1] = c
        /\ \A m \in 1..Len(w) : (<<c>> \o w)[1 + m] = w[m]
    BY <2>1, <2>3, ConcatProperties
  <2>5. ASSUME NEW m \in 1..(Len(w) + 1 - 1) PROVE (<<c>> \o w)[m] >= 128
    <3>1. CASE m = 1
      BY <2>1, <2>4, <3>1
    <3>2. CASE m # 1
      <4>1. m - 1 \in 1..(Len(w) - 1) /\ m - 1 \in 1..Len(w) /\ 1 + (m - 1) = m
        BY <2>3, <3>2
      <4>2. (<<c>> \o w)[m] = w[m - 1]
        BY <2>4, <4>1
      <4>. QED
        BY <2>3, <4>1, <4>2
    <3>. QED
      BY <3>1, <3>2
  <2>6. (<<c>> \o w)[1 + Len(w)] = w[Len(w)] /\ 1 + Len(w) \in 1..(10 - k)
    BY <2>3, <2>4
  <2>7. Shaped(<<c>> \o w, 10 - k)
    BY <2>3, <2>4, <2>5, <2>6 DEF Shaped
  <2>. QED
    BY <2>2, <2>7
<1>. QED
  BY <1>2, <1>3

LEMMA GroupsShaped ==
    \A k \in 0..9 : \A x \in Int : Shaped(Groups[k][x], 10 - k)
<1>. DEFINE G == {k \in 0..9 : \A x \in Int : Shaped(Groups[k][x], 10 - k)}
<1>1. 9 \in G
  <2>1. ASSUME NEW x \in Int PROVE Shaped(Groups[9][x], 10 - 9)
    <3>1. Groups[9][x] = <<x % 2>>
      BY GroupsDefined DEF Tenth
    <3>2. x % 2 \in Bytes /\ x % 2 < 128
      BY DEF Bytes
    <3>3. Shaped(<<x % 2>>, 1) /\ 10 - 9 = 1
      BY <3>2 DEF Shaped
    <3>. QED
      BY <3>1, <3>3
  <2>. QED
    BY <2>1
<1>2. ASSUME NEW k \in 1..9, k \in G PROVE k - 1 \in G
  <2>1. ASSUME NEW x \in Int PROVE Shaped(Groups[k - 1][x], 10 - (k - 1))
    <3>1. x \div 128 \in Int /\ 10 - k = 9 - (k - 1) /\ k - 1 \in 0..8 /\ (k - 1) + 1 = k
      OBVIOUS
    <3>2. Shaped(Groups[(k - 1) + 1][x \div 128], 9 - (k - 1))
      BY <1>2, <3>1
    <3>. QED
      BY <3>1, <3>2, ShapedNext
  <2>. QED
    BY <2>1
<1>3. \A k \in 0..9 : k \in G
  <2>1. GoesDown(G)
    BY <1>2 DEF GoesDown
  <2>. HIDE DEF G
  <2>. QED
    BY <1>1, <2>1, Countdown
<1>. QED
  BY <1>3

LEMMA VarintShaped == \A x \in Int : Shaped(Varint(x), 10)
BY GroupsShaped DEF Varint

LEMMA VarintEndOf ==
    ASSUME NEW w, NEW n \in Nat, Shaped(w, n), NEW b \in Seq(Bytes), NEW i, Stands(w, b, i)
    PROVE  VarintEnd(b, i) = i + Len(w) - 1
<1>. DEFINE e == i + Len(w) - 1
            ends == {j \in i..Len(b) : b[j] < 128 /\ \A k \in i..(j - 1) : b[k] >= 128}
<1>1. /\ i \in Nat \ {0} /\ Len(w) \in Nat \ {0} /\ e \in i..Len(b)
      /\ w[Len(w)] < 128 /\ \A m \in 1..(Len(w) - 1) : w[m] >= 128
      /\ \A k \in 1..Len(w) : b[i + k - 1] = w[k]
  BY DEF Stands, Shaped
<1>2. b[e] < 128
  BY <1>1
<1>3. ASSUME NEW k \in i..(e - 1) PROVE b[k] >= 128
  <2>1. k - i + 1 \in 1..(Len(w) - 1) /\ k - i + 1 \in 1..Len(w) /\ i + (k - i + 1) - 1 = k
    BY <1>1
  <2>. QED
    BY <1>1, <2>1
<1>4. e \in ends
  BY <1>1, <1>2, <1>3
<1>5. ASSUME NEW j \in ends PROVE j = e
  <2>1. j \in i..Len(b) /\ b[j] < 128 /\ \A k \in i..(j - 1) : b[k] >= 128
    OBVIOUS
  <2>. HIDE DEF e, ends
  <2>2. b[j] \in Int /\ b[e] \in Int /\ e \in Int
    <3>1. \A k \in 1..Len(b) : b[k] \in Int
      <4>1. \A k \in 1..Len(b) : b[k] \in Bytes
        BY SeqTyped
      <4>2. \A x \in Bytes : x \in Int
        BY DEF Bytes
      <4>. QED
        BY <4>1, <4>2
    <3>2. j \in 1..Len(b) /\ e \in 1..Len(b)
      BY <1>1, <2>1
    <3>. QED
      BY <3>1, <3>2
  <2>3. ~ (j < e)
    <3>1. SUFFICES ASSUME j < e PROVE FALSE
      OBVIOUS
    <3>2. j \in i..(e - 1)
      BY <1>1, <2>1, <3>1
    <3>. QED
      BY <1>3, <2>1, <2>2, <3>2
  <2>4. ~ (e < j)
    <3>1. SUFFICES ASSUME e < j PROVE FALSE
      OBVIOUS
    <3>2. e \in i..(j - 1)
      BY <1>1, <2>1, <3>1
    <3>. QED
      BY <1>2, <2>1, <2>2, <3>2
  <2>. QED
    BY <2>1, <2>2, <2>3, <2>4
<1>6. VarintEnd(b, i) = IF ends = {} THEN 0 ELSE CHOOSE j \in ends : TRUE
  BY DEF VarintEnd
<1>. HIDE DEF e, ends
<1>7. VarintEnd(b, i) \in ends
  BY <1>4, <1>6
<1>. QED
  BY <1>5, <1>7 DEF e

\* The value from index i on of a varint that ends at j, at each index up to j.
Carries(f, b, i, j) ==
    /\ f[j] = (IF j = i + 9 THEN -(b[j] % 2) ELSE b[j] % 128)
    /\ \A m \in i..(j - 1) : f[m] = f[m + 1] * 128 + (b[m] % 128)

LEMMA ByteInt == ASSUME NEW b \in Seq(Bytes), NEW k \in 1..Len(b) PROVE b[k] \in Nat
<1>1. b[k] \in Bytes
  BY SeqTyped
<1>2. \A x \in Bytes : x \in Nat
  BY DEF Bytes
<1>. QED
  BY <1>1, <1>2

LEMMA ValueOf ==
    ASSUME NEW b \in Seq(Bytes), NEW i \in Nat \ {0}, NEW j \in i..Len(b)
    PROVE  \E f \in [i..j -> Int] : Carries(f, b, i, j) /\ Value(b, i, j) = f[i]
<1>. DEFINE V == Int
            At(k, f) == IF k < j THEN f[k + 1] * 128 + (b[k] % 128)
                        ELSE IF k = i + 9 THEN -(b[k] % 2) ELSE b[k] % 128
            F == [k \in i..j |-> [f \in [i..j -> V] |-> At(k, f)]]
            P(f) == f = [k \in i..j |-> IF k < j THEN f[k + 1] * 128 + (b[k] % 128)
                                        ELSE IF k = i + 9 THEN -(b[k] % 2) ELSE b[k] % 128]
<1>1. \A k \in i..j : b[k] \in Nat
  <2>1. \A k \in i..j : k \in 1..Len(b)
    OBVIOUS
  <2>. QED
    BY <2>1, ByteInt
<1>2. \A k \in i..j : \A f \in [i..j -> V] : At(k, f) \in V
  <2>. SUFFICES ASSUME NEW k \in i..j, NEW f \in [i..j -> V] PROVE At(k, f) \in V
    OBVIOUS
  <2>1. b[k] \in Nat
    BY <1>1
  <2>2. CASE k < j
    <3>1. k + 1 \in i..j
      BY <2>2
    <3>2. f[k + 1] \in Int
      BY <3>1
    <3>. DEFINE x == f[k + 1]
                y == b[k]
    <3>. HIDE DEF x, y
    <3>3. x \in Int /\ y % 128 \in Int
      BY <2>1, <3>2 DEF x, y
    <3>4. \A p, q \in Int : p * 128 + q \in Int
      OBVIOUS
    <3>5. x * 128 + (y % 128) \in Int
      BY <3>3, <3>4
    <3>. QED
      BY <2>2, <3>5 DEF x, y
  <2>3. CASE ~(k < j)
    <3>. DEFINE y == b[k]
    <3>. HIDE DEF y
    <3>1. -(y % 2) \in Int /\ y % 128 \in Int
      BY <2>1 DEF y
    <3>. QED
      BY <2>3, <3>1 DEF y
  <2>. QED
    BY <2>2, <2>3
<1>3. \A k \in i..j : \A f, g : (\A m \in (k + 1)..j : f[m] = g[m]) => At(k, f) = At(k, g)
  OBVIOUS
<1>4. \A k \in i..j : \A f \in [i..j -> V] : F[k][f] = At(k, f)
  OBVIOUS
<1>5. \A f : P(f) <=> f = [k \in i..j |-> At(k, f)]
  OBVIOUS
<1>. HIDE DEF At, P
<1>6. F \in [i..j -> [[i..j -> V] -> V]]
  BY <1>2
<1>7. i \in Int /\ j \in Int /\ 0 \in V
  OBVIOUS
<1>. HIDE DEF F, V
<1>8. Later(F, i, j, V)
  <2>1. ASSUME NEW k \in i..j, NEW f \in [i..j -> V], NEW g \in [i..j -> V],
               \A m \in (k + 1)..j : f[m] = g[m]
        PROVE  F[k][f] = F[k][g]
    <3>1. At(k, f) = At(k, g)
      BY <1>3, <2>1
    <3>. QED
      BY <1>4, <3>1
  <2>. QED
    BY <1>6, <2>1 DEF Later
<1>9. PICK h \in [i..j -> V] : \A k \in i..j : h[k] = F[k][h]
  <2>1. PICK v : v \in V
    BY <1>7
  <2>2. PICK h \in [i..j -> V] : Fixes(h, F, i, j)
    BY <1>7, <1>8, <2>1, Recurs
  <2>. QED
    BY <2>2 DEF Fixes
<1>10. P(h)
  <2>1. h = [k \in i..j |-> At(k, h)]
    BY <1>4, <1>9
  <2>. QED
    BY <1>5, <2>1
<1>. DEFINE from == CHOOSE f : P(f)
<1>11. P(from)
  <2>. HIDE DEF P
  <2>. QED
    BY <1>10
<1>12. Value(b, i, j) = from[i]
  BY DEF Value, P
<1>. HIDE DEF from
<1>13. from = [k \in i..j |-> At(k, from)] /\ \A k \in i..j : from[k] = At(k, from)
  BY <1>5, <1>11
<1>14. \A k \in i..(j - 1) : from[k] = from[k + 1] * 128 + (b[k] % 128)
  BY <1>13 DEF At
<1>15. from[j] = IF j = i + 9 THEN -(b[j] % 2) ELSE b[j] % 128
  BY <1>13 DEF At
<1>16. Carries(from, b, i, j)
  BY <1>14, <1>15 DEF Carries
<1>17. from \in [i..j -> Int]
  <2>1. from = [k \in i..j |-> from[k]]
    BY <1>13
  <2>2. \A k \in i..j : from[k] \in Int
    <3>. DEFINE T == {n \in Nat : n <= j - i /\ from[j - n] \notin Int}
    <3>1. SUFFICES ASSUME T # {} PROVE FALSE
      <4>1. ASSUME NEW k \in i..j PROVE from[k] \in Int
        <5>1. j - k \in Nat /\ j - k <= j - i /\ j - (j - k) = k
          OBVIOUS
        <5>2. j - k \notin T
          BY <3>1
        <5>. QED
          BY <5>1, <5>2
      <4>. QED
        BY <4>1
    <3>2. PICK n \in T : \A m \in T : n <= m
      BY <3>1, NatMin
    <3>3. n \in Nat /\ n <= j - i /\ from[j - n] \notin Int
      OBVIOUS
    <3>4. CASE n = 0
      <4>1. b[j] \in Nat
        BY <1>1
      <4>. QED
        BY <1>15, <3>3, <3>4, <4>1
    <3>5. CASE n # 0
      <4>1. n - 1 \in Nat /\ n - 1 \notin T /\ n - 1 <= j - i
        <5>. HIDE DEF T
        <5>. QED
          BY <3>2, <3>3, <3>5
      <4>2. from[j - (n - 1)] \in Int
        BY <4>1
      <4>3. j - n \in i..(j - 1) /\ j - (n - 1) = (j - n) + 1 /\ j - n \in i..j
        BY <3>3, <3>5
      <4>4. from[j - n] = from[(j - n) + 1] * 128 + (b[j - n] % 128) /\ b[j - n] \in Nat
        BY <1>1, <1>14, <4>3
      <4>. QED
        BY <3>3, <4>2, <4>3, <4>4
    <3>. QED
      BY <3>4, <3>5
  <2>. QED
    BY <2>1, <2>2
<1>. QED
  BY <1>12, <1>16, <1>17

\* The number that is left of x after the first k groups, and its value.
Limits == << 1, 128, 16384, 2097152, 2097152 * 128, 2097152 * 16384, 2097152 * 2097152,
             2097152 * 2097152 * 128, 2097152 * 2097152 * 16384,
             2097152 * 2097152 * 2097152 >>
Limit(k) == Limits[10 - k]
Signed(k, x) == IF x < Limit(k) THEN x ELSE x - 2 * Limit(k)

ReadsBack(k, x) ==
    \A b \in Seq(Bytes) : \A i \in Nat \ {0} : \A f :
        Stands(Groups[k][x], b, i + k)
          /\ Carries(f, b, i, i + k + Len(Groups[k][x]) - 1)
          => f[i + k] = Signed(k, x)

LEMMA LimitsAre ==
    /\ \A k \in 0..9 : Limit(k) \in Nat \ {0}
    /\ Limit(9) = 1
    /\ \A k \in 0..8 : Limit(k) = 128 * Limit(k + 1)
<1>. DEFINE c == 2097152
            d == c * c
            e == d * c
<1>1. Limit(9) = 1 /\ Limit(8) = 128 /\ Limit(7) = 16384 /\ Limit(6) = c
  BY DEF Limit, Limits
<1>2. Limit(5) = c * 128 /\ Limit(4) = c * 16384 /\ Limit(3) = d
  BY DEF Limit, Limits
<1>3. Limit(2) = d * 128 /\ Limit(1) = d * 16384 /\ Limit(0) = e
  BY DEF Limit, Limits
<1>4. c \in Nat /\ c = 128 * 16384
  OBVIOUS
<1>. HIDE DEF c
<1>5. d \in Nat /\ d # 0 /\ d = 128 * (c * 16384)
  BY <1>4
<1>. HIDE DEF d
<1>6. e \in Nat /\ e # 0 /\ e = 128 * (d * 16384)
  <2>1. \A x \in Nat : x * c = 128 * (x * 16384)
    BY <1>4
  <2>2. e = 128 * (d * 16384)
    BY <1>5, <2>1
  <2>. HIDE DEF e
  <2>. QED
    BY <1>5, <2>2
<1>. HIDE DEF e
<1>7. /\ Limit(9) \in Nat \ {0} /\ Limit(8) \in Nat \ {0} /\ Limit(7) \in Nat \ {0}
      /\ Limit(6) \in Nat \ {0} /\ Limit(5) \in Nat \ {0} /\ Limit(4) \in Nat \ {0}
      /\ Limit(3) \in Nat \ {0} /\ Limit(2) \in Nat \ {0} /\ Limit(1) \in Nat \ {0}
      /\ Limit(0) \in Nat \ {0}
  BY <1>1, <1>2, <1>3, <1>4, <1>5, <1>6
<1>8. \A k \in 0..9 : Limit(k) \in Nat \ {0}
  BY <1>7
<1>9. /\ Limit(8) = 128 * Limit(9) /\ Limit(7) = 128 * Limit(8) /\ Limit(6) = 128 * Limit(7)
      /\ Limit(5) = 128 * Limit(6) /\ Limit(4) = 128 * Limit(5) /\ Limit(3) = 128 * Limit(4)
      /\ Limit(2) = 128 * Limit(3) /\ Limit(1) = 128 * Limit(2) /\ Limit(0) = 128 * Limit(1)
  BY <1>1, <1>2, <1>3, <1>4, <1>5, <1>6
<1>10. \A k \in 0..8 : Limit(k) = 128 * Limit(k + 1)
  BY <1>9
<1>. QED
  BY <1>1, <1>8, <1>10

LEMMA ReadsBackLast == \A x \in -1..1 : ReadsBack(9, x)
<1>. SUFFICES ASSUME NEW x \in -1..1, NEW b \in Seq(Bytes), NEW i \in Nat \ {0}, NEW f,
                     Stands(Groups[9][x], b, i + 9),
                     Carries(f, b, i, i + 9 + Len(Groups[9][x]) - 1)
              PROVE  f[i + 9] = Signed(9, x)
  BY DEF ReadsBack
<1>1. Groups[9][x] = <<x % 2>> /\ Len(<<x % 2>>) = 1
  <2>1. x \in Int
    OBVIOUS
  <2>2. Groups[9][x] = Tenth(x)
    BY <2>1, GroupsDefined
  <2>3. Len(<<x % 2>>) = 1
    OBVIOUS
  <2>. QED
    BY <2>2, <2>3 DEF Tenth
<1>2. b[i + 9] = x % 2
  BY <1>1 DEF Stands
<1>3. f[i + 9] = -(b[i + 9] % 2)
  BY <1>1 DEF Carries
<1>4. Signed(9, x) = IF x < 1 THEN x ELSE x - 2
  <2>1. Limit(9) = 1
    BY LimitsAre
  <2>. QED
    BY <2>1 DEF Signed
<1>5. -((x % 2) % 2) = IF x < 1 THEN x ELSE x - 2
  OBVIOUS
<1>. QED
  BY <1>2, <1>3, <1>4, <1>5

LEMMA ReadsBackNext ==
    ASSUME NEW k \in 0..8, NEW x \in Int, x >= -Limit(k), x < 2 * Limit(k),
           ReadsBack(k + 1, x \div 128)
    PROVE  ReadsBack(k, x)
<1>. SUFFICES ASSUME NEW b \in Seq(Bytes), NEW i \in Nat \ {0}, NEW f,
                     Stands(Groups[k][x], b, i + k),
                     Carries(f, b, i, i + k + Len(Groups[k][x]) - 1)
              PROVE  f[i + k] = Signed(k, x)
  BY DEF ReadsBack
<1>. DEFINE w == Groups[k + 1][x \div 128]
<1>1. Groups[k][x] = IF x \in 0..127 THEN <<x>> ELSE <<(x % 128) + 128>> \o w
  <2>1. Groups[k][x] = Earlier(Groups[k + 1], x)
    BY GroupsDefined
  <2>. QED
    BY <2>1 DEF Earlier
<1>2. /\ Limit(k) \in Nat \ {0} /\ Limit(k + 1) \in Nat \ {0} /\ Limit(k) = 128 * Limit(k + 1)
  <2>1. k \in 0..9 /\ k + 1 \in 0..9
    OBVIOUS
  <2>2. Limit(k) \in Nat \ {0} /\ Limit(k + 1) \in Nat \ {0}
    BY <2>1, LimitsAre
  <2>3. Limit(k) = 128 * Limit(k + 1)
    BY LimitsAre
  <2>. QED
    BY <2>2, <2>3
<1>3. CASE x \in 0..127
  <2>1. Groups[k][x] = <<x>> /\ Len(<<x>>) = 1
    BY <1>1, <1>3
  <2>2. b[i + k] = x
    BY <2>1 DEF Stands
  <2>3. f[i + k] = b[i + k] % 128
    <3>1. i + k + 1 - 1 = i + k /\ i + k # i + 9
      OBVIOUS
    <3>. QED
      BY <2>1, <3>1 DEF Carries
  <2>4. Signed(k, x) = x
    <3>1. x < Limit(k)
      BY <1>2, <1>3
    <3>. QED
      BY <3>1 DEF Signed
  <2>. QED
    BY <1>3, <2>2, <2>3, <2>4
<1>4. CASE x \notin 0..127
  <2>. DEFINE c == (x % 128) + 128
  <2>1. Groups[k][x] = <<c>> \o w
    BY <1>1, <1>4
  <2>2. w \in Seq(Bytes) /\ <<c>> \in Seq(Bytes) /\ c % 128 = x % 128
    <3>1. x \div 128 \in Int /\ k + 1 \in 0..9
      OBVIOUS
    <3>2. w \in Seq(Bytes)
      BY <3>1, GroupsDefined
    <3>. QED
      BY <3>2 DEF Bytes
  <2>3. Len(w) \in Nat \ {0}
    <3>1. x \div 128 \in Int /\ k + 1 \in 0..9
      OBVIOUS
    <3>2. Shaped(w, 10 - (k + 1))
      BY <3>1, GroupsShaped
    <3>. QED
      BY <3>2 DEF Shaped
  <2>. HIDE DEF c, w
  <2>4. Len(<<c>>) = 1 /\ Len(<<c>> \o w) = 1 + Len(w) /\ i + k \in Nat \ {0}
    BY <2>2, ConcatProperties
  <2>5. Stands(<<c>>, b, i + k) /\ Stands(w, b, i + k + 1)
    <3>1. Stands(<<c>> \o w, b, i + k)
      BY <2>1
    <3>2. i + k + Len(<<c>>) = i + k + 1
      BY <2>4
    <3>. QED
      BY <2>2, <2>4, <3>1, <3>2, StandsTwo
  <2>6. b[i + k] = c
    BY <2>4, <2>5 DEF Stands
  <2>7. i + k + (1 + Len(w)) - 1 = i + (k + 1) + Len(w) - 1
    BY <2>3
  <2>8. Carries(f, b, i, i + (k + 1) + Len(w) - 1)
    BY <2>1, <2>4, <2>7
  <2>9. f[i + (k + 1)] = Signed(k + 1, x \div 128)
    <3>1. i + (k + 1) = i + k + 1
      OBVIOUS
    <3>. QED
      BY <2>5, <2>8, <3>1 DEF ReadsBack, w
  <2>10. f[i + k] = f[i + (k + 1)] * 128 + (b[i + k] % 128)
    <3>1. i + k \in i..((i + (k + 1) + Len(w) - 1) - 1) /\ (i + k) + 1 = i + (k + 1)
      BY <2>3
    <3>. QED
      BY <2>8, <3>1 DEF Carries
  <2>11. f[i + k] = Signed(k + 1, x \div 128) * 128 + (x % 128)
    BY <2>2, <2>6, <2>9, <2>10
  <2>12. Signed(k, x) = Signed(k + 1, x \div 128) * 128 + (x % 128)
    <3>. DEFINE l == Limit(k + 1)
    <3>1. l \in Nat \ {0} /\ Limit(k) = 128 * l
      BY <1>2
    <3>2. /\ Signed(k, x) = IF x < 128 * l THEN x ELSE x - 2 * (128 * l)
          /\ Signed(k + 1, x \div 128) = IF x \div 128 < l THEN x \div 128 ELSE x \div 128 - 2 * l
      BY <3>1 DEF Signed
    <3>. HIDE DEF l
    <3>3. x < 128 * l <=> x \div 128 < l
      BY <3>1
    <3>4. x = (x \div 128) * 128 + (x % 128) /\ x \div 128 \in Int /\ x % 128 \in Int
      OBVIOUS
    <3>. DEFINE h == x \div 128
                r == x % 128
    <3>. HIDE DEF h, r
    <3>5. CASE x < 128 * l
      <4>1. Signed(k, x) = x /\ Signed(k + 1, h) = h
        BY <3>2, <3>3, <3>5 DEF h
      <4>. QED
        BY <3>4, <4>1 DEF h, r
    <3>6. CASE ~(x < 128 * l)
      <4>1. Signed(k, x) = x - 2 * (128 * l) /\ Signed(k + 1, h) = h - 2 * l
        BY <3>2, <3>3, <3>6 DEF h
      <4>2. x = h * 128 + r /\ h \in Int /\ r \in Int
        BY <3>4 DEF h, r
      <4>3. x - 2 * (128 * l) = (h - 2 * l) * 128 + r
        BY <3>1, <4>2
      <4>. QED
        BY <4>1, <4>3 DEF h, r
    <3>. QED
      BY <3>5, <3>6
  <2>. QED
    BY <2>11, <2>12
<1>. QED
  BY <1>3, <1>4

LEMMA ReadsBackAll ==
    ASSUME NEW x \in Int, x >= -Limit(0), x < 2 * Limit(0)
    PROVE  ReadsBack(0, x)
<1>. DEFINE In(k) == (-Limit(k))..(2 * Limit(k) - 1)
            G == {k \in 0..9 : \A y \in In(k) : ReadsBack(k, y)}
<1>1. 9 \in G
  <2>1. In(9) = -1..1
    BY LimitsAre
  <2>. QED
    BY <2>1, ReadsBackLast
<1>2. ASSUME NEW k \in 1..9, k \in G PROVE k - 1 \in G
  <2>1. k - 1 \in 0..8 /\ (k - 1) + 1 = k
    OBVIOUS
  <2>2. Limit(k) \in Nat \ {0} /\ Limit(k - 1) = 128 * Limit(k)
    BY <2>1, LimitsAre
  <2>3. ASSUME NEW y \in In(k - 1) PROVE ReadsBack(k - 1, y)
    <3>. DEFINE l == Limit(k)
    <3>1. l \in Nat \ {0} /\ Limit(k - 1) = 128 * l
      BY <2>2
    <3>2. y \in Int /\ y >= -(128 * l) /\ y < 2 * (128 * l)
      BY <3>1
    <3>3. y \div 128 \in (-l)..(2 * l - 1)
      <4>. HIDE DEF l
      <4>. QED
        BY <3>1, <3>2
    <3>4. ReadsBack(k, y \div 128)
      BY <1>2, <3>3
    <3>. QED
      BY <2>1, <3>1, <3>2, <3>4, ReadsBackNext
  <2>. QED
    BY <2>1, <2>3
<1>3. \A k \in 0..9 : k \in G
  <2>1. GoesDown(G)
    BY <1>2 DEF GoesDown
  <2>. HIDE DEF G
  <2>. QED
    BY <1>1, <2>1, Countdown
<1>4. x \in In(0)
  BY LimitsAre
<1>5. 0 \in G
  BY <1>3
<1>. QED
  BY <1>4, <1>5

\* A varint of up to 64 bits is read back as the signed number of its bits.
LEMMA VarintReadBack ==
    ASSUME NEW x \in Int, x >= -Limit(0), x < 2 * Limit(0),
           NEW b \in Seq(Bytes), NEW i, Stands(Varint(x), b, i)
    PROVE  ReadVarint(b, i) = [val |-> Signed(0, x), next |-> i + Len(Varint(x))]
<1>. DEFINE w == Varint(x)
            e == i + Len(w) - 1
<1>1. Shaped(w, 10) /\ Stands(w, b, i) /\ w = Groups[0][x]
  BY VarintShaped DEF Varint
<1>. HIDE DEF w
<1>2. i \in Nat \ {0} /\ Len(w) \in 1..10 /\ e \in i..Len(b) /\ e - i <= 9 /\ e # 0
  <2>1. i \in Nat \ {0} /\ Len(w) \in 1..10 /\ i + Len(w) - 1 <= Len(b) /\ Len(b) \in Nat
    BY <1>1 DEF Shaped, Stands
  <2>. DEFINE n == Len(w)
              l == Len(b)
  <2>2. n \in 1..10 /\ l \in Nat /\ i + n - 1 <= l
    BY <2>1
  <2>. HIDE DEF n, l
  <2>3. i + n - 1 \in i..l /\ (i + n - 1) - i <= 9 /\ i + n - 1 # 0
    BY <2>1, <2>2
  <2>. QED
    BY <2>1, <2>3 DEF n, l
<1>3. VarintEnd(b, i) = e
  BY <1>1, VarintEndOf
<1>4. PICK f : Carries(f, b, i, e) /\ Value(b, i, e) = f[i]
  <2>. HIDE DEF e
  <2>. QED
    BY <1>2, ValueOf
<1>5. f[i] = Signed(0, x)
  <2>1. ReadsBack(0, x) /\ i + 0 = i /\ i + 0 + Len(w) - 1 = e
    BY <1>2, ReadsBackAll
  <2>2. Stands(Groups[0][x], b, i + 0) /\ Carries(f, b, i, i + 0 + Len(Groups[0][x]) - 1)
    BY <1>1, <1>4, <2>1
  <2>. QED
    BY <1>2, <2>1, <2>2 DEF ReadsBack
<1>6. ReadVarint(b, i) = [val |-> Value(b, i, e), next |-> e + 1]
  <2>1. ~(e = 0 \/ e - i > 9)
    BY <1>2
  <2>. HIDE DEF e
  <2>. QED
    BY <1>3, <2>1 DEF ReadVarint, VarintAt
<1>7. e + 1 = i + Len(w)
  BY <1>2
<1>. QED
  BY <1>4, <1>5, <1>6, <1>7 DEF w

LEMMA DivBelow ==
    ASSUME NEW x \in Int, NEW n \in Int
    PROVE  x < 2097152 * n <=> x \div 2097152 < n
BY SMT

LEMMA Thrice ==
    ASSUME NEW x \in Int
    PROVE  /\ ((x \div 2097152) \div 2097152) \div 2097152 \in {-1, 0}
                <=> x >= -Limit(0) /\ x < Limit(0)
<1>. DEFINE p == x \div 2097152
            q == p \div 2097152
            r == q \div 2097152
<1>1. Limit(0) = 2097152 * 2097152 * 2097152
  BY SMT DEF Limit, Limits
<1>2. p \in Int /\ q \in Int /\ r \in Int
  BY SMT
<1>3. \A n \in Int : x < 2097152 * n <=> p < n
  BY DivBelow, SMT
<1>4. \A n \in Int : p < 2097152 * n <=> q < n
  BY <1>2, DivBelow, SMT
<1>5. \A n \in Int : q < 2097152 * n <=> r < n
  BY <1>2, DivBelow, SMT
<1>. HIDE DEF p, q, r
<1>. DEFINE d == 2097152
            k == 2097152 * 2097152
<1>6. d \in Int /\ k \in Int /\ -d \in Int /\ -k \in Int /\ -1 \in Int
  BY SMT
<1>. HIDE DEF d, k
<1>7. /\ x < 2097152 * k <=> p < k
      /\ x < 2097152 * (-k) <=> p < -k
  BY <1>3, <1>6, SMT
<1>8. /\ p < 2097152 * d <=> q < d
      /\ p < 2097152 * (-d) <=> q < -d
  BY <1>4, <1>6, SMT
<1>9. /\ q < 2097152 * 1 <=> r < 1
      /\ q < 2097152 * (-1) <=> r < -1
  BY <1>5, <1>6, SMT
<1>10. r \in {-1, 0} <=> ~(x < 2097152 * (-k)) /\ x < 2097152 * k
  BY <1>2, <1>7, <1>8, <1>9, SMTT(30) DEF d, k
<1>. QED
  BY <1>1, <1>10, SMTT(30) DEF p, q, r, k

LEMMA Int64Is == \A x \in Int : x \in Int64 <=> x >= -Limit(0) /\ x < Limit(0)
BY Thrice, SMT DEF Int64

LEMMA ZigzagBack ==
    ASSUME NEW x \in Int64
    PROVE  /\ Zigzag(x) \in Int /\ Zigzag(x) >= -Limit(0) /\ Zigzag(x) < 2 * Limit(0)
           /\ Signed(0, Zigzag(x)) \in Int
           /\ Unzigzag(Signed(0, Zigzag(x))) = x
<1>. DEFINE l == Limit(0)
            z == Zigzag(x)
            v == Signed(0, z)
<1>1. l \in Nat \ {0} /\ l = 128 * Limit(1) /\ Limit(1) \in Nat
  BY LimitsAre
<1>2. l = 2097152 * 2097152 * 2097152
  BY SMT DEF Limit, Limits
<1>3. x \in Int /\ x >= -l /\ x < l
  BY Int64Is, Int64Int
<1>4. z = IF x >= 0 THEN 2 * x ELSE -2 * x - 1
  BY DEF Zigzag
<1>5. v = IF z < l THEN z ELSE z - 2 * l
  BY DEF Signed
<1>6. Unzigzag(v) = IF v % 2 = 0 THEN (v \div 2) + (IF v < 0 THEN l ELSE 0)
                    ELSE -((v \div 2) + (IF v < 0 THEN l ELSE 0)) - 1
  BY <1>2, SMT DEF Unzigzag, Halved
<1>. HIDE DEF l, z, v
<1>7. z \in Int /\ z >= -l /\ z < 2 * l
  BY <1>1, <1>3, <1>4
<1>8. v \in Int
  BY <1>1, <1>5, <1>7
<1>9. Unzigzag(v) = x
  <2>1. CASE x >= 0
    <3>1. CASE z < l
      <4>1. v = 2 * x
        BY <1>4, <1>5, <2>1, <3>1
      <4>2. v % 2 = 0 /\ v \div 2 = x /\ ~(v < 0)
        BY <1>3, <2>1, <4>1
      <4>. QED
        BY <1>3, <1>6, <4>2
    <3>2. CASE z >= l
      <4>1. v = 2 * (x - l) /\ x - l \in Int
        BY <1>1, <1>3, <1>4, <1>5, <1>7, <2>1, <3>2
      <4>2. v % 2 = 0 /\ v \div 2 = x - l /\ v < 0
        BY <1>1, <1>3, <4>1
      <4>. QED
        BY <1>1, <1>3, <1>6, <4>2
    <3>. QED
      BY <1>1, <1>7, <3>1, <3>2
  <2>2. CASE x < 0
    <3>1. CASE z < l
      <4>1. v = 2 * (-x - 1) + 1 /\ -x - 1 \in Nat
        BY <1>3, <1>4, <1>5, <2>2, <3>1
      <4>2. v % 2 = 1 /\ v \div 2 = -x - 1 /\ ~(v < 0)
        BY <1>3, <4>1
      <4>. QED
        BY <1>3, <1>6, <4>2
    <3>2. CASE z >= l
      <4>1. v = 2 * (-x - 1 - l) + 1 /\ -x - 1 - l \in Int
        BY <1>1, <1>3, <1>4, <1>5, <1>7, <2>2, <3>2
      <4>2. v % 2 = 1 /\ v \div 2 = -x - 1 - l /\ v < 0
        BY <1>1, <1>3, <4>1
      <4>. QED
        BY <1>1, <1>3, <1>6, <4>2
    <3>. QED
      BY <1>1, <1>7, <3>1, <3>2
  <2>. QED
    BY <1>3, <2>1, <2>2
<1>. QED
  BY <1>7, <1>8, <1>9 DEF l, z, v

\* What is written as a varint is read as it was.
THEOREM VarintRead ==
    ASSUME NEW x \in Int64, NEW b \in Seq(Bytes), NEW i, Stands(Varint(x), b, i)
    PROVE  ReadVarint(b, i) = [val |-> x, next |-> i + Len(Varint(x))]
<1>1. x \in Int /\ x >= -Limit(0) /\ x < Limit(0) /\ Limit(0) \in Nat
  BY Int64Is, Int64Int, LimitsAre
<1>2. Signed(0, x) = x /\ x < 2 * Limit(0)
  BY <1>1 DEF Signed
<1>. QED
  BY <1>1, <1>2, VarintReadBack

-------------------------------------------------------------------------------
(* The entries of a message. *)

\* A varint is read to a number, and to an index after its own or to none.
LEMMA ReadTyped ==
    ASSUME NEW b \in Seq(Bytes), NEW i \in Nat \ {0}
    PROVE  /\ ReadVarint(b, i).val \in Int
           /\ ReadVarint(b, i).next \in Nat
           /\ ReadVarint(b, i).next # 0
                => ReadVarint(b, i).next > i /\ ReadVarint(b, i).next <= Len(b) + 1
<1>. DEFINE ends == {j \in i..Len(b) : b[j] < 128 /\ \A k \in i..(j - 1) : b[k] >= 128}
            end == VarintEnd(b, i)
<1>1. end = 0 \/ end \in i..Len(b)
  <2>1. end = IF ends = {} THEN 0 ELSE CHOOSE j \in ends : TRUE
    BY DEF VarintEnd
  <2>2. ends \subseteq i..Len(b)
    OBVIOUS
  <2>. HIDE DEF ends, end
  <2>. QED
    BY <2>1, <2>2
<1>2. ReadVarint(b, i) = IF end = 0 \/ end - i > 9 THEN [val |-> 0, next |-> 0]
                         ELSE [val |-> Value(b, i, end), next |-> end + 1]
  BY DEF ReadVarint, VarintAt
<1>. HIDE DEF end
<1>3. CASE end = 0 \/ end - i > 9
  BY <1>2, <1>3
<1>4. CASE ~(end = 0 \/ end - i > 9)
  <2>1. end \in i..Len(b)
    BY <1>1, <1>4
  <2>2. Value(b, i, end) \in Int
    <3>1. PICK f \in [i..end -> Int] : Value(b, i, end) = f[i]
      BY <2>1, ValueOf
    <3>2. Len(b) \in Nat
      OBVIOUS
    <3>3. i \in i..end
      BY <2>1, <3>2
    <3>. QED
      BY <3>1, <3>3
  <2>3. end + 1 \in Nat /\ end + 1 # 0 /\ end + 1 > i /\ end + 1 <= Len(b) + 1
    <3>1. Len(b) \in Nat
      OBVIOUS
    <3>. QED
      BY <2>1, <3>1
  <2>. QED
    BY <1>2, <1>4, <2>2, <2>3
<1>. QED
  BY <1>3, <1>4

\* The index after an entry is after its own, or there is none.
LEMMA AfterTyped ==
    ASSUME NEW b \in Seq(Bytes), NEW i \in Nat \ {0}, NEW depth \in Nat
    PROVE  LET n == AfterEntry(b, ReadVarint(b, i), depth)
           IN  /\ n \in Int
               /\ n # 0 => n > i /\ Opened(ReadVarint(b, i).val % 8, depth) \in Nat
<1>. DEFINE tag == ReadVarint(b, i)
            t == tag.next
            w == tag.val % 8
            r == ReadVarint(b, t)
            n == AfterEntry(b, tag, depth)
            open == Opened(w, depth)
<1>1. tag.val \in Int /\ t \in Nat /\ (t # 0 => t > i)
  BY ReadTyped
<1>2. w \in 0..7
  <2>. DEFINE v == tag.val
  <2>1. v \in Int
    BY <1>1
  <2>. HIDE DEF v
  <2>2. v % 8 \in 0..7
    BY <2>1
  <2>. QED
    BY <2>2 DEF v
<1>3. t # 0 => r.val \in Int /\ r.next \in Nat /\ (r.next # 0 => r.next > t)
  BY <1>1, ReadTyped
<1>4. n = IF t = 0 THEN 0 ELSE AfterBody(b, t, w, depth)
  BY DEF AfterEntry
<1>5. AfterBody(b, t, w, depth) =
        IF w = 0 THEN r.next
        ELSE IF w = 1 THEN t + 8
        ELSE IF w = 2 THEN AfterBytes(r)
        ELSE IF w = 3 \/ (w = 4 /\ depth > 0) THEN t
        ELSE IF w = 5 THEN t + 4
        ELSE 0
  BY DEF AfterBody
<1>6. AfterBytes(r) = IF r.next = 0 \/ r.val < 0 THEN 0 ELSE r.next + r.val
  BY DEF AfterBytes
<1>7. open = depth + (IF w = 3 THEN 1 ELSE IF w = 4 THEN -1 ELSE 0)
  BY DEF Opened
<1>. DEFINE rn == r.next
            rv == r.val
<1>. HIDE DEF tag, t, w, r, n, open, rn, rv
<1>8. t # 0 => rv \in Int /\ rn \in Nat /\ (rn # 0 => rn > t)
  BY <1>3 DEF rn, rv
<1>9. AfterBytes(r) = IF rn = 0 \/ rv < 0 THEN 0 ELSE rn + rv
  BY <1>6 DEF rn, rv
<1>10. n = IF t = 0 THEN 0
           ELSE IF w = 0 THEN rn
           ELSE IF w = 1 THEN t + 8
           ELSE IF w = 2 THEN (IF rn = 0 \/ rv < 0 THEN 0 ELSE rn + rv)
           ELSE IF w = 3 \/ (w = 4 /\ depth > 0) THEN t
           ELSE IF w = 5 THEN t + 4
           ELSE 0
  BY <1>4, <1>5, <1>9 DEF rn
<1>11. n \in Int /\ (n # 0 => n > i /\ open \in Nat)
  BY <1>1, <1>2, <1>7, <1>8, <1>10
<1>. QED
  BY <1>11 DEF tag, w, n, open

\* The rest of the loop that skips, at every index and depth: step is the index
\* after the entry there, and open the depth after it.
Skips(step, open, l) ==
    /\ step \in [1..l -> [Nat -> Int]] /\ open \in [1..l -> [Nat -> Int]]
    /\ \A j \in 1..l : \A depth \in Nat :
          step[j][depth] # 0 => step[j][depth] > j /\ open[j][depth] \in Nat

LEMMA SkipRest ==
    ASSUME NEW l \in Nat, NEW n \in Int, NEW open \in Int, NEW j \in 1..l,
           n # 0 => n > j /\ open \in Nat,
           NEW f \in [1..l -> [Nat -> Int]]
    PROVE  /\ SkipOn(n, open, l, f) \in Int
           /\ \A g : (\A k \in (j + 1)..l : f[k] = g[k])
                => SkipOn(n, open, l, f) = SkipOn(n, open, l, g)
<1>1. \A g : SkipOn(n, open, l, g)
          = IF n = 0 \/ open = 0 THEN n ELSE IF n > l THEN 0 ELSE g[n][open]
  BY DEF SkipOn
<1>2. CASE n = 0 \/ open = 0 \/ n > l
  BY <1>1, <1>2
<1>3. CASE ~(n = 0 \/ open = 0 \/ n > l)
  <2>1. n \in 1..l /\ n \in (j + 1)..l /\ open \in Nat
    BY <1>3
  <2>2. f[n][open] \in Int
    BY <2>1
  <2>. QED
    BY <1>1, <1>3, <2>1, <2>2
<1>. QED
  BY <1>2, <1>3

LEMMA SkipDefined ==
    ASSUME NEW l \in Nat, NEW step, NEW open, Skips(step, open, l)
    PROVE  \E f : f = [j \in 1..l |-> [depth \in Nat |->
                         SkipOn(step[j][depth], open[j][depth], l, f)]]
<1>. DEFINE V == [Nat -> Int]
            At(j, f) == [depth \in Nat |-> SkipOn(step[j][depth], open[j][depth], l, f)]
            F == [j \in 1..l |-> [f \in [1..l -> V] |-> At(j, f)]]
<1>1. \A j \in 1..l : \A depth \in Nat :
        /\ step[j][depth] \in Int /\ open[j][depth] \in Int
        /\ step[j][depth] # 0 => step[j][depth] > j /\ open[j][depth] \in Nat
  BY DEF Skips
<1>2. \A j \in 1..l : \A f \in [1..l -> V] : At(j, f) \in V
  BY <1>1, SkipRest
<1>3. \A j \in 1..l : \A f, g \in [1..l -> V] :
        (\A k \in (j + 1)..l : f[k] = g[k]) => At(j, f) = At(j, g)
  <2>. SUFFICES ASSUME NEW j \in 1..l, NEW f \in [1..l -> V], NEW g \in [1..l -> V],
                       \A k \in (j + 1)..l : f[k] = g[k]
                PROVE  At(j, f) = At(j, g)
    OBVIOUS
  <2>1. ASSUME NEW depth \in Nat
        PROVE  SkipOn(step[j][depth], open[j][depth], l, f)
                 = SkipOn(step[j][depth], open[j][depth], l, g)
    <3>. DEFINE n == step[j][depth]
                o == open[j][depth]
    <3>1. n \in Int /\ o \in Int /\ (n # 0 => n > j /\ o \in Nat)
      BY <1>1
    <3>. HIDE DEF n, o
    <3>2. \A h : (\A k \in (j + 1)..l : f[k] = h[k]) => SkipOn(n, o, l, f) = SkipOn(n, o, l, h)
      BY <3>1, SkipRest
    <3>3. SkipOn(n, o, l, f) = SkipOn(n, o, l, g)
      BY <3>2
    <3>. QED
      BY <3>3 DEF n, o
  <2>. QED
    BY <2>1
<1>4. \A j \in 1..l : \A f \in [1..l -> V] : F[j][f] = At(j, f)
  OBVIOUS
<1>. HIDE DEF At
<1>5. F \in [1..l -> [[1..l -> V] -> V]]
  BY <1>2
<1>6. [depth \in Nat |-> 0] \in V
  OBVIOUS
<1>. HIDE DEF F, V
<1>7. Later(F, 1, l, V)
  <2>1. ASSUME NEW j \in 1..l, NEW f \in [1..l -> V], NEW g \in [1..l -> V],
               \A k \in (j + 1)..l : f[k] = g[k]
        PROVE  F[j][f] = F[j][g]
    <3>1. At(j, f) = At(j, g)
      BY <1>3, <2>1
    <3>. QED
      BY <1>4, <3>1
  <2>. QED
    BY <1>5, <2>1 DEF Later
<1>8. PICK f \in [1..l -> V] : \A j \in 1..l : f[j] = F[j][f]
  <2>1. 1 \in Int /\ l \in Int
    OBVIOUS
  <2>. QED
    BY <1>6, <1>7, <2>1, Backwards
<1>9. f = [j \in 1..l |-> At(j, f)]
  BY <1>4, <1>8
<1>. QED
  BY <1>9 DEF At

\* An entry at which no group opens is as long as its own body.
LEMMA SkipOne ==
    ASSUME NEW b \in Seq(Bytes), NEW i \in 1..Len(b),
           ReadVarint(b, i).val % 8 \in {0, 1, 2, 5}
    PROVE  skipTypes(b, i) = AfterEntry(b, ReadVarint(b, i), 0)
<1>. DEFINE Goes(j, depth) == AfterEntry(b, ReadVarint(b, j), depth)
            Open(j, depth) == Opened(ReadVarint(b, j).val % 8, depth)
            l == Len(b)
            P(f) == f = [j \in 1..l |-> [depth \in Nat |->
                           SkipOn(Goes(j, depth), Open(j, depth), l, f)]]
            step == [j \in 1..l |-> [depth \in Nat |-> Goes(j, depth)]]
            open == [j \in 1..l |-> [depth \in Nat |-> Open(j, depth)]]
<1>1. l \in Nat
  OBVIOUS
<1>2. \A j \in 1..l : \A depth \in Nat :
        /\ Goes(j, depth) \in Int /\ Open(j, depth) \in Int
        /\ Goes(j, depth) # 0 => Goes(j, depth) > j /\ Open(j, depth) \in Nat
  <2>. SUFFICES ASSUME NEW j \in 1..l, NEW depth \in Nat
                PROVE  /\ Goes(j, depth) \in Int /\ Open(j, depth) \in Int
                       /\ Goes(j, depth) # 0 => Goes(j, depth) > j /\ Open(j, depth) \in Nat
    OBVIOUS
  <2>1. j \in Nat \ {0}
    BY <1>1
  <2>2. Open(j, depth) \in Int
    BY DEF Opened
  <2>. QED
    BY <2>1, <2>2, AfterTyped
<1>3. \A j \in 1..l : \A depth \in Nat :
        step[j][depth] = Goes(j, depth) /\ open[j][depth] = Open(j, depth)
  OBVIOUS
<1>4. /\ step \in [1..l -> [Nat -> Int]] /\ open \in [1..l -> [Nat -> Int]]
  BY <1>2
<1>. HIDE DEF Goes, Open, step, open, l
<1>5. Skips(step, open, l)
  BY <1>2, <1>3, <1>4 DEF Skips
<1>6. PICK f : f = [j \in 1..l |-> [depth \in Nat |->
                      SkipOn(step[j][depth], open[j][depth], l, f)]]
  BY <1>1, <1>5, SkipDefined
<1>7. P(f)
  BY <1>3, <1>6
<1>. DEFINE skip == CHOOSE f1 : P(f1)
<1>8. skipTypes(b, i) = skip[i][0]
  BY DEF skipTypes, Goes, Open, l
<1>9. P(skip)
  <2>. HIDE DEF P
  <2>. QED
    BY <1>7
<1>. HIDE DEF skip
<1>10. i \in 1..l
  BY DEF l
<1>11. skip[i] = [depth \in Nat |-> SkipOn(Goes(i, depth), Open(i, depth), l, skip)]
  BY <1>9, <1>10
<1>. HIDE DEF P
<1>12. skip[i][0] = SkipOn(Goes(i, 0), Open(i, 0), l, skip)
  BY <1>11
<1>13. Open(i, 0) = 0
  <2>. DEFINE w == ReadVarint(b, i).val % 8
  <2>1. w \in {0, 1, 2, 5}
    OBVIOUS
  <2>. HIDE DEF w
  <2>2. Opened(w, 0) = 0
    BY <2>1 DEF Opened
  <2>. QED
    BY <2>2 DEF w, Open
<1>14. SkipOn(Goes(i, 0), Open(i, 0), l, skip) = Goes(i, 0)
  BY <1>13 DEF SkipOn
<1>. QED
  BY <1>8, <1>12, <1>14 DEF Goes

\* The entries of b from each index on.
IsEntries(f, b) ==
    f = [i \in 1..(Len(b) + 1) |->
           IF i > Len(b) THEN <<>>
           ELSE EntryOn(b, i, ReadVarint(b, i), skipTypes(b, i), f)]
EntriesFrom(b) == CHOOSE f : IsEntries(f, b)

\* The entries there may be.
EntryAtIndex(b, i) == Entry(b, i, ReadVarint(b, i), skipTypes(b, i))
EntrySet(b) == {EntryAtIndex(b, i) : i \in 1..Len(b)} \cup {Error}

LEMMA EntryLater ==
    ASSUME NEW b \in Seq(Bytes), NEW i \in 1..Len(b),
           NEW f \in [1..(Len(b) + 1) -> Seq(EntrySet(b))]
    PROVE  /\ EntryOn(b, i, ReadVarint(b, i), skipTypes(b, i), f) \in Seq(EntrySet(b))
           /\ \A g : (\A k \in (i + 1)..(Len(b) + 1) : f[k] = g[k])
                => EntryOn(b, i, ReadVarint(b, i), skipTypes(b, i), f)
                     = EntryOn(b, i, ReadVarint(b, i), skipTypes(b, i), g)
<1>. DEFINE tag == ReadVarint(b, i)
            next == skipTypes(b, i)
            bad == tag.next = 0 \/ tag.val \div 8 <= 0
            l == Len(b)
            W == EntrySet(b)
            e == EntryAtIndex(b, i)
<1>1. \A g : EntryOn(b, i, tag, next, g) =
               IF bad \/ next \notin (i + 1)..(l + 1) THEN <<Error>> ELSE <<e>> \o g[next]
  BY DEF EntryOn, EntryAtIndex
<1>2. e \in W /\ Error \in W
  BY DEF EntrySet
<1>3. l \in Nat /\ i \in 1..l
  OBVIOUS
<1>4. f \in [1..(l + 1) -> Seq(W)]
  OBVIOUS
<1>. HIDE DEF tag, next, bad, l, W, e
<1>5. CASE bad \/ next \notin (i + 1)..(l + 1)
  <2>1. <<Error>> \in Seq(W)
    BY <1>2
  <2>. QED
    BY <1>1, <1>5, <2>1 DEF tag, next, l, W
<1>6. CASE ~(bad \/ next \notin (i + 1)..(l + 1))
  <2>1. next \in (i + 1)..(l + 1) /\ next \in 1..(l + 1)
    BY <1>3, <1>6
  <2>2. f[next] \in Seq(W)
    BY <1>4, <2>1
  <2>3. <<e>> \in Seq(W)
    BY <1>2
  <2>4. <<e>> \o f[next] \in Seq(W)
    BY <2>2, <2>3
  <2>5. ASSUME NEW g, \A k \in (i + 1)..(l + 1) : f[k] = g[k]
        PROVE  EntryOn(b, i, tag, next, f) = EntryOn(b, i, tag, next, g)
    <3>1. f[next] = g[next]
      BY <2>1, <2>5
    <3>. QED
      BY <1>1, <3>1
  <2>6. EntryOn(b, i, tag, next, f) \in Seq(W)
    BY <1>1, <1>6, <2>4
  <2>. QED
    BY <2>5, <2>6 DEF tag, next, l, W
<1>. QED
  BY <1>5, <1>6

LEMMA EntriesDefined ==
    ASSUME NEW b \in Seq(Bytes)
    PROVE  /\ EntriesFrom(b) \in [1..(Len(b) + 1) -> Seq(EntrySet(b))]
           /\ IsEntries(EntriesFrom(b), b)
           /\ Entries(b) = EntriesFrom(b)[1]
<1>. DEFINE l == Len(b) + 1
            V == Seq(EntrySet(b))
            At(i, f) == IF i > Len(b) THEN <<>>
                        ELSE EntryOn(b, i, ReadVarint(b, i), skipTypes(b, i), f)
            F == [i \in 1..l |-> [f \in [1..l -> V] |-> At(i, f)]]
<1>1. Len(b) \in Nat /\ l \in Nat /\ l = Len(b) + 1
  OBVIOUS
<1>2. <<>> \in V
  OBVIOUS
<1>3. \A i \in 1..l : \A f \in [1..l -> V] : At(i, f) \in V
  <2>. SUFFICES ASSUME NEW i \in 1..l, NEW f \in [1..l -> V] PROVE At(i, f) \in V
    OBVIOUS
  <2>1. CASE i > Len(b)
    BY <2>1
  <2>2. CASE ~(i > Len(b))
    <3>1. i \in 1..Len(b)
      BY <1>1, <2>2
    <3>2. EntryOn(b, i, ReadVarint(b, i), skipTypes(b, i), f) \in V
      BY <3>1, EntryLater
    <3>. QED
      BY <2>2, <3>2
  <2>. QED
    BY <2>1, <2>2
<1>4. ASSUME NEW i \in 1..l, NEW f \in [1..l -> V], NEW g \in [1..l -> V],
             \A k \in (i + 1)..l : f[k] = g[k]
      PROVE  At(i, f) = At(i, g)
  <2>1. CASE i > Len(b)
    BY <2>1
  <2>2. CASE ~(i > Len(b))
    <3>1. i \in 1..Len(b)
      BY <1>1, <2>2
    <3>2. EntryOn(b, i, ReadVarint(b, i), skipTypes(b, i), f)
            = EntryOn(b, i, ReadVarint(b, i), skipTypes(b, i), g)
      BY <1>4, <3>1, EntryLater
    <3>. QED
      BY <2>2, <3>2
  <2>. QED
    BY <2>1, <2>2
<1>5. \A i \in 1..l : \A f \in [1..l -> V] : F[i][f] = At(i, f)
  OBVIOUS
<1>6. \A f : IsEntries(f, b) <=> f = [i \in 1..l |-> At(i, f)]
  BY DEF IsEntries
<1>. HIDE DEF At
<1>7. F \in [1..l -> [[1..l -> V] -> V]]
  BY <1>3
<1>. HIDE DEF F, V, l
<1>8. Later(F, 1, l, V)
  <2>1. ASSUME NEW i \in 1..l, NEW f \in [1..l -> V], NEW g \in [1..l -> V],
               \A k \in (i + 1)..l : f[k] = g[k]
        PROVE  F[i][f] = F[i][g]
    <3>1. At(i, f) = At(i, g)
      BY <1>4, <2>1
    <3>. QED
      BY <1>5, <3>1
  <2>. QED
    BY <1>7, <2>1 DEF Later
<1>9. PICK f \in [1..l -> V] : \A i \in 1..l : f[i] = F[i][f]
  <2>1. 1 \in Int /\ l \in Int
    BY <1>1
  <2>. QED
    BY <1>2, <1>8, <2>1, Backwards
<1>10. IsEntries(f, b)
  <2>1. f = [i \in 1..l |-> At(i, f)]
    BY <1>5, <1>9
  <2>. QED
    BY <1>6, <2>1
<1>. DEFINE g == EntriesFrom(b)
<1>11. IsEntries(g, b)
  BY <1>10 DEF EntriesFrom
<1>. HIDE DEF g
<1>12. g = [i \in 1..l |-> At(i, g)]
  BY <1>6, <1>11
<1>13. ASSUME NEW T, T = {i \in 1..l : g[i] \notin V}, T # {} PROVE FALSE
  <2>. DEFINE U == {n \in Nat : l - n \in T}
  <2>1. U # {} /\ U \in SUBSET Nat
    <3>1. PICK i \in T : TRUE
      BY <1>13
    <3>2. l - i \in Nat /\ l - (l - i) = i
      BY <1>1, <1>13
    <3>. QED
      BY <3>1, <3>2
  <2>2. PICK n \in U : \A k \in U : n <= k
    <3>. HIDE DEF U
    <3>. QED
      BY <2>1, NatMin
  <2>3. n \in Nat /\ l - n \in 1..l /\ g[l - n] \notin V
    BY <1>13
  <2>. DEFINE i == l - n
  <2>4. \A k \in (i + 1)..l : g[k] \in V
    <3>. SUFFICES ASSUME NEW k \in (i + 1)..l, g[k] \notin V PROVE FALSE
      OBVIOUS
    <3>1. k \in T /\ l - k \in Nat /\ l - (l - k) = k /\ l - k < n
      BY <1>1, <1>13, <2>3
    <3>2. l - k \in U
      BY <3>1
    <3>. HIDE DEF U
    <3>. QED
      BY <1>1, <2>2, <2>3, <3>1, <3>2
  <2>. HIDE DEF i, U
  <2>. DEFINE h == [k \in 1..l |-> IF k > i THEN g[k] ELSE <<>>]
  <2>5. i \in 1..l
    BY <2>3 DEF i
  <2>6. h \in [1..l -> V]
    BY <1>1, <1>2, <2>4, <2>5
  <2>7. \A k \in (i + 1)..l : h[k] = g[k]
    BY <1>1, <2>5
  <2>. HIDE DEF h
  <2>8. At(i, h) = At(i, g)
    <3>1. CASE i > Len(b)
      BY <3>1 DEF At
    <3>2. CASE ~(i > Len(b))
      <4>1. i \in 1..Len(b)
        BY <1>1, <2>5, <3>2
      <4>2. EntryOn(b, i, ReadVarint(b, i), skipTypes(b, i), h)
              = EntryOn(b, i, ReadVarint(b, i), skipTypes(b, i), g)
        BY <2>6, <2>7, <4>1, EntryLater DEF V, l
      <4>. QED
        BY <3>2, <4>2 DEF At
    <3>. QED
      BY <3>1, <3>2
  <2>9. At(i, h) \in V
    BY <1>3, <2>5, <2>6
  <2>10. g[i] = At(i, g)
    BY <1>12, <2>5
  <2>. QED
    BY <2>3, <2>8, <2>9, <2>10 DEF i
<1>14. g \in [1..l -> V]
  <2>1. \A i \in 1..l : g[i] \in V
    BY <1>13
  <2>2. g = [i \in 1..l |-> g[i]]
    BY <1>12
  <2>. QED
    BY <2>1, <2>2
<1>15. Entries(b) = g[1]
  BY DEF Entries, EntriesFrom, g, IsEntries
<1>. QED
  BY <1>11, <1>14, <1>15 DEF g, V, l

-------------------------------------------------------------------------------
(* The loop over the entries. *)

\* The message after each of the entries.
IsFilled(f, es, m, fields, n) ==
    f = [k \in 0..n |-> IF k = 0 THEN m ELSE Turn(f[k - 1], es[k], fields)]

LEMMA FilledDefined ==
    ASSUME NEW es, NEW m, NEW fields, NEW n \in Nat
    PROVE  \E f : IsFilled(f, es, m, fields, n)
<1>. DEFINE T == {k \in Nat : ~ \E f : IsFilled(f, es, m, fields, k)}
<1>1. SUFFICES ASSUME T # {} PROVE FALSE
  BY <1>1
<1>2. PICK k \in T : \A j \in T : k <= j
  BY <1>1, NatMin
<1>3. CASE k = 0
  <2>. DEFINE f == [j \in 0..0 |-> m]
  <2>1. IsFilled(f, es, m, fields, 0)
    BY DEF IsFilled
  <2>. QED
    BY <1>3, <2>1
<1>4. CASE k # 0
  <2>1. k \in Nat /\ k - 1 \in Nat /\ k - 1 \notin T
    <3>1. k \in Nat /\ k - 1 \in Nat /\ ~(k <= k - 1)
      BY <1>4
    <3>. HIDE DEF T
    <3>. QED
      BY <1>2, <3>1
  <2>2. PICK f : IsFilled(f, es, m, fields, k - 1)
    BY <2>1
  <2>. DEFINE g == [j \in 0..k |-> IF j = 0 THEN m ELSE Turn(f[j - 1], es[j], fields)]
  <2>3. \A j \in 0..(k - 1) : f[j] = IF j = 0 THEN m ELSE Turn(f[j - 1], es[j], fields)
    BY <2>2 DEF IsFilled
  <2>4. \A j \in 0..k : g[j] = IF j = 0 THEN m ELSE Turn(f[j - 1], es[j], fields)
    OBVIOUS
  <2>. HIDE DEF g
  <2>5. \A j \in 0..(k - 1) : g[j] = f[j]
    BY <2>1, <2>3, <2>4
  <2>6. \A j \in 1..k : g[j - 1] = f[j - 1]
    BY <2>1, <2>5
  <2>7. \A j \in 0..k : j # 0 => j \in 1..k
    OBVIOUS
  <2>8. g = [j \in 0..k |-> IF j = 0 THEN m ELSE Turn(g[j - 1], es[j], fields)]
    BY <2>6, <2>7 DEF g
  <2>9. IsFilled(g, es, m, fields, k)
    BY <2>8 DEF IsFilled
  <2>. QED
    BY <2>9
<1>. QED
  BY <1>3, <1>4

LEMMA FilledIs ==
    ASSUME NEW es, NEW m, NEW fields, Len(es) \in Nat
    PROVE  \E f : IsFilled(f, es, m, fields, Len(es)) /\ Filled(es, m, fields) = f[Len(es)]
<1>. DEFINE f == CHOOSE f : IsFilled(f, es, m, fields, Len(es))
<1>1. IsFilled(f, es, m, fields, Len(es))
  BY FilledDefined
<1>2. Filled(es, m, fields) = f[Len(es)]
  BY DEF Filled, IsFilled
<1>. QED
  BY <1>1, <1>2

\* Nothing leaves the message, and the first of the entries is the first turn.
LEMMA FilledNothing == \A m, fields : Filled(<<>>, m, fields) = m
<1>. SUFFICES ASSUME NEW m, NEW fields PROVE Filled(<<>>, m, fields) = m
  OBVIOUS
<1>1. Len(<<>>) = 0
  OBVIOUS
<1>2. PICK f : IsFilled(f, <<>>, m, fields, 0) /\ Filled(<<>>, m, fields) = f[0]
  BY <1>1, FilledIs
<1>. QED
  BY <1>2 DEF IsFilled

LEMMA FilledNext ==
    ASSUME NEW W, NEW e \in W, NEW es \in Seq(W), NEW m, NEW fields
    PROVE  Filled(<<e>> \o es, m, fields) = Filled(es, Turn(m, e, fields), fields)
<1>. DEFINE all == <<e>> \o es
            l == Len(es)
<1>1. l \in Nat /\ Len(all) = l + 1 /\ all[1] = e /\ \A k \in 1..l : all[k + 1] = es[k]
  OBVIOUS
<1>. HIDE DEF l, all
<1>2. PICK f : IsFilled(f, es, Turn(m, e, fields), fields, l)
                 /\ Filled(es, Turn(m, e, fields), fields) = f[l]
  BY <1>1, FilledIs DEF l
<1>3. PICK g : IsFilled(g, all, m, fields, l + 1) /\ Filled(all, m, fields) = g[l + 1]
  <2>1. Len(all) \in Nat
    BY <1>1
  <2>. QED
    BY <1>1, <2>1, FilledIs
<1>4. /\ f[0] = Turn(m, e, fields)
      /\ \A k \in 1..l : f[k] = Turn(f[k - 1], es[k], fields)
  <2>1. f = [k \in 0..l |-> IF k = 0 THEN Turn(m, e, fields) ELSE Turn(f[k - 1], es[k], fields)]
    BY <1>2 DEF IsFilled
  <2>2. 0 \in 0..l /\ \A k \in 1..l : k \in 0..l /\ k # 0
    BY <1>1
  <2>. QED
    BY <2>1, <2>2
<1>5. g[0] = m /\ \A k \in 1..(l + 1) : g[k] = Turn(g[k - 1], all[k], fields)
  <2>1. g = [k \in 0..(l + 1) |-> IF k = 0 THEN m ELSE Turn(g[k - 1], all[k], fields)]
    BY <1>3 DEF IsFilled
  <2>2. 0 \in 0..(l + 1) /\ \A k \in 1..(l + 1) : k \in 0..(l + 1) /\ k # 0
    BY <1>1
  <2>. QED
    BY <2>1, <2>2
<1>. DEFINE T == {k \in 0..l : g[k + 1] # f[k]}
<1>6. SUFFICES ASSUME T # {} PROVE FALSE
  <2>1. l \in 0..l
    BY <1>1
  <2>2. g[l + 1] = f[l]
    BY <1>6, <2>1
  <2>. QED
    BY <1>2, <1>3, <2>2 DEF all
<1>7. PICK k \in T : \A j \in T : k <= j
  <2>1. T \in SUBSET Nat
    OBVIOUS
  <2>. HIDE DEF T
  <2>. QED
    BY <1>6, <2>1, NatMin
<1>8. k \in 0..l /\ g[k + 1] # f[k]
  OBVIOUS
<1>9. k # 0
  <2>1. 1 \in 1..(l + 1) /\ 1 - 1 = 0
    BY <1>1
  <2>2. g[1] = Turn(m, e, fields)
    BY <1>1, <1>5, <2>1
  <2>. QED
    BY <1>4, <1>8, <2>2
<1>10. k - 1 \in 0..l /\ k - 1 \notin T
  <2>1. k - 1 \in 0..l /\ ~(k <= k - 1)
    BY <1>1, <1>8, <1>9
  <2>. HIDE DEF T
  <2>. QED
    BY <1>7, <2>1
<1>11. g[(k - 1) + 1] = f[k - 1]
  BY <1>10
<1>. HIDE DEF T
<1>12. k \in 1..l /\ k + 1 \in 1..(l + 1) /\ (k - 1) + 1 = k /\ (k + 1) - 1 = k
  BY <1>1, <1>8, <1>9
<1>13. g[k + 1] = Turn(f[k - 1], es[k], fields)
  <2>1. g[k + 1] = Turn(g[k], all[k + 1], fields)
    BY <1>5, <1>12
  <2>2. g[k] = f[k - 1] /\ all[k + 1] = es[k]
    BY <1>1, <1>11, <1>12
  <2>. QED
    BY <2>1, <2>2
<1>. QED
  BY <1>4, <1>8, <1>12, <1>13

-------------------------------------------------------------------------------
(* What a loop makes of the message m when it comes to c: the message n.      *)

\* The message that the loop ends with, from index i on.
Rest(b, i, m, fields) == Filled(EntriesFrom(b)[i], m, fields)

Takes(fields, c, m, n) ==
    /\ c \in Seq(Bytes)
    /\ \A b \in Seq(Bytes) : \A i \in Nat \ {0} :
          Len(b) \in Int64 /\ Stands(c, b, i)
            => Rest(b, i, m, fields) = Rest(b, i + Len(c), n, fields)

LEMMA TakesNothing == \A fields, m : Takes(fields, <<>>, m, m)
<1>1. \A i \in Nat \ {0} : i + Len(<<>>) = i
  OBVIOUS
<1>2. <<>> \in Seq(Bytes)
  OBVIOUS
<1>. QED
  BY <1>1, <1>2 DEF Takes

LEMMA TakesBoth ==
    ASSUME NEW fields, NEW c, NEW d, NEW m, NEW n, NEW o,
           Takes(fields, c, m, n), Takes(fields, d, n, o)
    PROVE  Takes(fields, c \o d, m, o)
<1>1. c \in Seq(Bytes) /\ d \in Seq(Bytes)
  BY DEF Takes
<1>2. c \o d \in Seq(Bytes) /\ Len(c \o d) = Len(c) + Len(d) /\ Len(c) \in Nat /\ Len(d) \in Nat
  BY <1>1
<1>3. ASSUME NEW b \in Seq(Bytes), NEW i \in Nat \ {0},
             Len(b) \in Int64, Stands(c \o d, b, i)
      PROVE  Rest(b, i, m, fields) = Rest(b, i + Len(c \o d), o, fields)
  <2>1. Stands(c, b, i) /\ Stands(d, b, i + Len(c))
    BY <1>1, <1>3, StandsTwo
  <2>2. Rest(b, i, m, fields) = Rest(b, i + Len(c), n, fields)
    BY <1>3, <2>1 DEF Takes
  <2>3. i + Len(c) \in Nat \ {0}
    BY <1>2
  <2>4. Rest(b, i + Len(c), n, fields) = Rest(b, (i + Len(c)) + Len(d), o, fields)
    BY <1>3, <2>1, <2>3 DEF Takes
  <2>5. (i + Len(c)) + Len(d) = i + Len(c \o d)
    BY <1>2
  <2>. QED
    BY <2>2, <2>4, <2>5
<1>. QED
  BY <1>2, <1>3 DEF Takes

LEMMA StandsWhole == ASSUME NEW c \in Seq(Bytes) PROVE Stands(c, c, 1)
<1>1. Len(c) \in Nat /\ 1 + Len(c) - 1 <= Len(c)
  OBVIOUS
<1>2. \A k \in 1..Len(c) : c[1 + k - 1] = c[k]
  <2>1. \A k \in 1..Len(c) : 1 + k - 1 = k
    OBVIOUS
  <2>. QED
    BY <2>1
<1>. QED
  BY <1>1, <1>2 DEF Stands

\* A message that is all of what is read.
LEMMA DecodeTaken ==
    ASSUME NEW fields, NEW c, NEW m, NEW n, Takes(fields, c, m, n), Len(c) \in Int64
    PROVE  Decode(c, m, fields) = n
<1>1. c \in Seq(Bytes) /\ Len(c) \in Nat
  BY DEF Takes
<1>2. Rest(c, 1, m, fields) = Rest(c, 1 + Len(c), n, fields)
  BY <1>1, StandsWhole DEF Takes
<1>3. EntriesFrom(c)[1 + Len(c)] = <<>>
  <2>1. 1 + Len(c) \in 1..(Len(c) + 1) /\ 1 + Len(c) > Len(c)
    BY <1>1
  <2>. QED
    BY <1>1, <2>1, EntriesDefined DEF IsEntries
<1>4. Rest(c, 1 + Len(c), n, fields) = n
  BY <1>3, FilledNothing DEF Rest
<1>5. Decode(c, m, fields) = Rest(c, 1, m, fields)
  BY <1>1, EntriesDefined DEF Decode, Rest
<1>. QED
  BY <1>2, <1>4, <1>5

-------------------------------------------------------------------------------
(* One entry. *)

LEMMA StandsPart ==
    ASSUME NEW c \in Seq(Bytes), NEW b \in Seq(Bytes), NEW i \in Nat \ {0}, Stands(c, b, i)
    PROVE  SubSeq(b, i, i + Len(c) - 1) = c
<1>. DEFINE l == Len(c)
            d == SubSeq(b, i, i + Len(c) - 1)
<1>1. l \in Nat /\ Len(b) \in Nat /\ i + l - 1 <= Len(b) /\ \A k \in 1..l : b[i + k - 1] = c[k]
  BY DEF Stands
<1>2. i + l - 1 \in Int /\ i \in Int
  BY <1>1
<1>3. d = [k \in 1..((i + l - 1) - i + 1) |-> b[k + i - 1]]
  BY SMT
<1>4. (i + l - 1) - i + 1 = l
  BY <1>1
<1>5. c = [k \in 1..l |-> c[k]]
  OBVIOUS
<1>6. \A k \in 1..l : k + i - 1 = i + k - 1
  BY <1>1
<1>. HIDE DEF l, d
<1>7. d = [k \in 1..l |-> b[i + k - 1]]
  BY <1>3, <1>4, <1>6
<1>. QED
  BY <1>1, <1>5, <1>7 DEF d

LEMMA LengthInt64 ==
    ASSUME NEW l \in Nat, NEW n \in Int64, l <= n
    PROVE  l \in Int64
<1>1. n \in Int /\ n < Limit(0) /\ Limit(0) \in Nat
  BY Int64Int, Int64Is, LimitsAre
<1>. DEFINE k == Limit(0)
<1>2. l >= -k /\ l < k
  <2>1. n \in Int /\ n < k /\ k \in Nat
    BY <1>1
  <2>. HIDE DEF k
  <2>. QED
    BY <2>1
<1>. QED
  BY <1>2, Int64Is

\* What is written as a varint of 64 bits: numbers with a sign, and without.
Wide == {x \in Int : x >= -Limit(0) /\ x < 2 * Limit(0)}

\* The body of an entry: of a number, a float, and of bytes with their length.
HasBody(kind, v, body) ==
    \/ kind = 0 /\ \E x \in Wide : v = Signed(0, x) /\ body = Varint(x)
    \/ kind = 1 /\ v \in Seq(Bytes) /\ Len(v) = 8 /\ body = v
    \/ kind = 2 /\ v \in Seq(Bytes) /\ body = Varint(Len(v)) \o v

\* The bytes of an entry, and how many there are, are of a message.
Fits(kind, v) == kind = 2 => Len(v) \in Int64

LEMMA BodyTyped ==
    ASSUME NEW kind, NEW v, NEW body, HasBody(kind, v, body)
    PROVE  body \in Seq(Bytes) /\ kind \in 0..2
<1>1. CASE kind = 0 /\ \E x \in Wide : v = Signed(0, x) /\ body = Varint(x)
  <2>1. PICK x \in Wide : body = Varint(x)
    BY <1>1
  <2>2. x \in Int
    BY DEF Wide
  <2>. QED
    BY <1>1, <2>1, <2>2, VarintSized
<1>2. CASE kind = 1 /\ v \in Seq(Bytes) /\ Len(v) = 8 /\ body = v
  BY <1>2
<1>3. CASE kind = 2 /\ v \in Seq(Bytes) /\ body = Varint(Len(v)) \o v
  <2>1. Len(v) \in Int
    BY <1>3
  <2>2. Varint(Len(v)) \in Seq(Bytes)
    BY <2>1, VarintSized
  <2>. QED
    BY <1>3, <2>2
<1>. QED
  BY <1>1, <1>2, <1>3 DEF HasBody

LEMMA BodyRead ==
    ASSUME NEW kind, NEW v, NEW body, HasBody(kind, v, body),
           NEW b \in Seq(Bytes), NEW i \in Nat \ {0}, Len(b) \in Int64, Stands(body, b, i)
    PROVE  /\ AfterBody(b, i, kind, 0) = i + Len(body)
           /\ Body(b, i, kind, i + Len(body)) = v
           /\ Fits(kind, v)
<1>0. body \in Seq(Bytes) /\ Len(body) \in Nat /\ Len(b) \in Nat /\ i + Len(body) - 1 <= Len(b)
  BY BodyTyped DEF Stands
<1>1. CASE kind = 0 /\ \E x \in Wide : v = Signed(0, x) /\ body = Varint(x)
  <2>0. PICK x \in Wide : v = Signed(0, x) /\ body = Varint(x)
    BY <1>1
  <2>2. x \in Int /\ x >= -Limit(0) /\ x < 2 * Limit(0)
    BY DEF Wide
  <2>1. ReadVarint(b, i) = [val |-> v, next |-> i + Len(body)]
    BY <2>0, <2>2, VarintReadBack
  <2>. QED
    BY <1>1, <2>1 DEF AfterBody, Body, Fits
<1>2. CASE kind = 1 /\ v \in Seq(Bytes) /\ Len(v) = 8 /\ body = v
  <2>1. SubSeq(b, i, i + Len(body) - 1) = v
    BY <1>2, StandsPart
  <2>2. i + Len(body) = i + 8
    BY <1>2
  <2>3. AfterBody(b, i, 1, 0) = i + 8
    BY DEF AfterBody
  <2>4. Body(b, i, 1, i + Len(body)) = SubSeq(b, i, i + Len(body) - 1)
    BY DEF Body
  <2>5. kind = 1 /\ Fits(kind, v)
    BY <1>2 DEF Fits
  <2>6. AfterBody(b, i, 1, 0) = i + Len(body) /\ Body(b, i, 1, i + Len(body)) = v
    BY <2>1, <2>2, <2>3, <2>4
  <2>. QED
    BY <2>5, <2>6
<1>3. CASE kind = 2 /\ v \in Seq(Bytes) /\ body = Varint(Len(v)) \o v
  <2>. DEFINE l == Varint(Len(v))
              j == i + Len(l)
  <2>1. Len(v) \in Nat
    BY <1>3
  <2>2. l \in Seq(Bytes) /\ Len(l) \in Nat
    BY <2>1, VarintSized
  <2>3. Len(body) = Len(l) + Len(v)
    BY <1>3, <2>2
  <2>4. Stands(l, b, i) /\ Stands(v, b, j)
    BY <1>3, <2>2, StandsTwo
  <2>. HIDE DEF l
  <2>5. j \in Nat \ {0} /\ j + Len(v) = i + Len(body) /\ Len(v) <= Len(b)
    BY <1>0, <2>1, <2>2, <2>3
  <2>6. Len(v) \in Int64
    BY <2>1, <2>5, LengthInt64
  <2>7. ReadVarint(b, i) = [val |-> Len(v), next |-> j]
    BY <2>4, <2>6, VarintRead DEF l
  <2>8. SubSeq(b, j, j + Len(v) - 1) = v
    BY <1>3, <2>4, <2>5, StandsPart
  <2>. HIDE DEF j
  <2>9. AfterBytes(ReadVarint(b, i)) = j + Len(v)
    BY <2>1, <2>5, <2>7 DEF AfterBytes
  <2>. QED
    BY <1>3, <2>5, <2>6, <2>7, <2>8, <2>9 DEF AfterBody, Body, Fits
<1>. QED
  BY <1>1, <1>2, <1>3 DEF HasBody

LEMMA TagRead ==
    ASSUME NEW num \in 1..16, NEW kind \in 0..2, NEW t, t = 8 * num + kind
    PROVE  t \in Int64 /\ t \in Int /\ t \div 8 = num /\ t % 8 = kind /\ num > 0
<1>1. t \in Int /\ t >= 0 /\ t <= 130
  OBVIOUS
<1>2. t \div 8 = num /\ t % 8 = kind
  <2>1. \A n \in Int : \A k \in 0..2 : (8 * n + k) \div 8 = n /\ (8 * n + k) % 8 = k
    OBVIOUS
  <2>. QED
    BY <2>1
<1>3. t \in Int64
  <2>. DEFINE l == Limit(0)
              m == Limit(1)
              n == Limit(2)
  <2>1. l \in Nat /\ m \in Nat /\ n \in Nat \ {0} /\ l = 128 * m /\ m = 128 * n
    BY LimitsAre
  <2>. HIDE DEF l, m, n
  <2>2. t >= -l /\ t < l
    BY <1>1, <2>1
  <2>. QED
    BY <1>1, <2>2, Int64Is DEF l
<1>. QED
  BY <1>1, <1>2, <1>3

\* The case of an entry with the value v makes the message m into n.
Makes(fields, num, kind, v, m, n) ==
    \A e : e.num = num /\ e.wire = kind /\ e.val = v /\ Fits(kind, v)
              => Place(m, e, fields[num]) = n

\* An entry of a field there is: what its case makes of it.
LEMMA EntryTaken ==
    ASSUME NEW fields, NEW num \in 1..16, num \in DOMAIN fields,
           NEW kind, NEW v, NEW body, HasBody(kind, v, body),
           NEW m, m # Error, NEW n, Makes(fields, num, kind, v, m, n)
    PROVE  Takes(fields, Tag(num, kind) \o body, m, n)
<1>. DEFINE t == 8 * num + kind
            tag == Varint(t)
<1>1. body \in Seq(Bytes) /\ kind \in 0..2
  BY BodyTyped
<1>2. t \in Int64 /\ t \in Int /\ t \div 8 = num /\ t % 8 = kind /\ num > 0
  BY <1>1, TagRead
<1>3. Tag(num, kind) = tag
  BY DEF Tag
<1>. HIDE DEF t
<1>4. tag \in Seq(Bytes) /\ Len(tag) \in Nat /\ Len(tag) > 0
  <2>1. tag \in Seq(Bytes) /\ Len(tag) = sovTypes(t) /\ sovTypes(t) \in 1..10
    BY <1>2, VarintSized
  <2>. QED
    BY <2>1
<1>5. tag \o body \in Seq(Bytes) /\ Len(tag \o body) = Len(tag) + Len(body) /\ Len(body) \in Nat
  BY <1>1, <1>4
<1>6. ASSUME NEW b \in Seq(Bytes), NEW i \in Nat \ {0}, Len(b) \in Int64,
             Stands(tag \o body, b, i)
      PROVE  Rest(b, i, m, fields) = Rest(b, i + Len(tag \o body), n, fields)
  <2>. DEFINE j == i + Len(tag)
              k == i + Len(tag \o body)
              e == Entry(b, i, ReadVarint(b, i), skipTypes(b, i))
              es == EntriesFrom(b)
  <2>1. Stands(tag, b, i) /\ Stands(body, b, j)
    BY <1>1, <1>4, <1>6, StandsTwo
  <2>2. ReadVarint(b, i) = [val |-> t, next |-> j]
    BY <1>2, <2>1, VarintRead
  <2>3. j \in Nat \ {0} /\ k = j + Len(body) /\ k \in (i + 1)..(Len(b) + 1) /\ i \in 1..Len(b)
        /\ i \in 1..(Len(b) + 1) /\ k \in 1..(Len(b) + 1)
    <3>1. i + Len(tag \o body) - 1 <= Len(b) /\ Len(b) \in Nat
      BY <1>6 DEF Stands
    <3>. QED
      BY <1>4, <1>5, <3>1
  <2>. HIDE DEF j, k
  <2>4. /\ AfterBody(b, j, kind, 0) = k
        /\ Body(b, j, kind, k) = v
        /\ Fits(kind, v)
    BY <1>6, <2>1, <2>3, BodyRead
  <2>5. skipTypes(b, i) = k
    <3>1. ReadVarint(b, i).val % 8 \in {0, 1, 2, 5}
      BY <1>1, <1>2, <2>2
    <3>2. skipTypes(b, i) = AfterEntry(b, ReadVarint(b, i), 0)
      BY <2>3, <3>1, SkipOne
    <3>. QED
      BY <1>2, <2>2, <2>3, <2>4, <3>2 DEF AfterEntry
  <2>6. e.num = num /\ e.wire = kind /\ e.val = v /\ e \in EntrySet(b) /\ e # Error
    <3>1. e.num = num /\ e.wire = kind /\ e.val = v
      BY <1>2, <2>2, <2>4, <2>5 DEF Entry
    <3>2. e \in EntrySet(b)
      BY <2>3 DEF EntrySet, EntryAtIndex
    <3>3. "num" \in DOMAIN e /\ "num" \notin DOMAIN Error
      BY DEF Entry, Error
    <3>. QED
      BY <3>1, <3>2, <3>3
  <2>7. es[i] = <<e>> \o es[k] /\ es[k] \in Seq(EntrySet(b))
    <3>1. es \in [1..(Len(b) + 1) -> Seq(EntrySet(b))] /\ IsEntries(es, b)
      BY EntriesDefined
    <3>2. es[k] \in Seq(EntrySet(b))
      BY <2>3, <3>1
    <3>3. ~(i > Len(b))
      BY <2>3
    <3>4. es[i] = EntryOn(b, i, ReadVarint(b, i), skipTypes(b, i), es)
      BY <2>3, <3>1, <3>3 DEF IsEntries
    <3>5. ReadVarint(b, i).next # 0 /\ ~(ReadVarint(b, i).val \div 8 <= 0)
          /\ skipTypes(b, i) \in (i + 1)..(Len(b) + 1)
      BY <1>2, <2>2, <2>3, <2>5
    <3>. HIDE DEF es
    <3>6. EntryOn(b, i, ReadVarint(b, i), skipTypes(b, i), es) = <<e>> \o es[skipTypes(b, i)]
      BY <3>5 DEF EntryOn
    <3>. QED
      BY <2>5, <3>2, <3>4, <3>6
  <2>. HIDE DEF e, es
  <2>8. Filled(es[i], m, fields) = Filled(es[k], Turn(m, e, fields), fields)
    BY <2>6, <2>7, FilledNext
  <2>9. Turn(m, e, fields) = n
    BY <2>4, <2>6 DEF Turn, Makes
  <2>. QED
    BY <2>8, <2>9 DEF Rest, es, k
<1>. QED
  BY <1>3, <1>5, <1>6 DEF Takes

-------------------------------------------------------------------------------
(* The fields.  No is the message that the loop begins with, M the one that   *)
(* was written, and S the set of the fields that have been read.              *)

Mix(No, M, S) == [f \in DOMAIN No |-> IF f \in S THEN M[f] ELSE No[f]]

\* The field f is the next to be read, by the case of its number.
Ready(No, S, f, fields, num) ==
    /\ "unrecognized" \in DOMAIN No /\ f \in DOMAIN No /\ f \notin S
    /\ num \in 1..16 /\ num \in DOMAIN fields

Took(fields, c, No, M, S, f) ==
    Takes(fields, c, Mix(No, M, S), Mix(No, M, S \cup {f}))

LEMMA MixNext ==
    ASSUME NEW No, NEW M, NEW S, NEW f \in DOMAIN No, f \notin S, "unrecognized" \in DOMAIN No
    PROVE  /\ Mix(No, M, S)[f] = No[f]
           /\ Mix(No, M, S) # Error
           /\ [Mix(No, M, S) EXCEPT ![f] = M[f]] = Mix(No, M, S \cup {f})
           /\ M[f] = No[f] => Mix(No, M, S) = Mix(No, M, S \cup {f})
<1>1. Mix(No, M, S)[f] = No[f]
  BY DEF Mix
<1>2. Mix(No, M, S) # Error
  <2>1. "unrecognized" \in DOMAIN Mix(No, M, S)
    BY DEF Mix
  <2>2. "unrecognized" \notin DOMAIN Error
    BY DEF Error
  <2>. QED
    BY <2>1, <2>2
<1>3. [Mix(No, M, S) EXCEPT ![f] = M[f]] = Mix(No, M, S \cup {f})
  BY DEF Mix
<1>4. M[f] = No[f] => Mix(No, M, S) = Mix(No, M, S \cup {f})
  BY DEF Mix
<1>. QED
  BY <1>1, <1>2, <1>3, <1>4

LEMMA LeftOut ==
    ASSUME NEW No, NEW M, NEW S, NEW f, NEW fields, NEW num, Ready(No, S, f, fields, num),
           M[f] = No[f]
    PROVE  Took(fields, <<>>, No, M, S, f)
<1>1. f \in DOMAIN No /\ f \notin S /\ "unrecognized" \in DOMAIN No
  BY DEF Ready
<1>2. Mix(No, M, S) = Mix(No, M, S \cup {f})
  BY <1>1 DEF Mix
<1>. QED
  BY <1>2, TakesNothing DEF Took

LEMMA SingleTaken ==
    ASSUME NEW No, NEW M, NEW S, NEW f, NEW fields, NEW num, Ready(No, S, f, fields, num),
           NEW kind, NEW of, fields[num] = Single(f, kind, of),
           NEW v, NEW body, HasBody(kind, v, body), Fits(kind, v) => of[v] = M[f]
    PROVE  Took(fields, Tag(num, kind) \o body, No, M, S, f)
<1>. DEFINE m == Mix(No, M, S)
            n == Mix(No, M, S \cup {f})
<1>1. m # Error /\ [m EXCEPT ![f] = M[f]] = n
  BY MixNext DEF Ready
<1>. HIDE DEF m, n
<1>2. ASSUME NEW e, e.num = num /\ e.wire = kind /\ e.val = v /\ Fits(kind, v)
      PROVE  Place(m, e, fields[num]) = n
  <2>1. Place(m, e, fields[num]) = [m EXCEPT ![f] = of[v]]
    BY <1>2 DEF Place, Single
  <2>. QED
    BY <1>1, <1>2, <2>1
<1>3. Takes(fields, Tag(num, kind) \o body, m, n)
  <2>2. Makes(fields, num, kind, v, m, n)
    BY <1>2 DEF Makes
  <2>1. num \in 1..16 /\ num \in DOMAIN fields
    BY DEF Ready
  <2>. QED
    BY <1>1, <2>1, <2>2, EntryTaken
<1>. QED
  BY <1>3 DEF Took, m, n

LEMMA WideInt64 == \A x \in Int64 : x \in Wide /\ Signed(0, x) = x
<1>. SUFFICES ASSUME NEW x \in Int64 PROVE x \in Wide /\ Signed(0, x) = x
  OBVIOUS
<1>. DEFINE l == Limit(0)
<1>1. x \in Int /\ x >= -l /\ x < l /\ l \in Nat
  BY Int64Is, Int64Int, LimitsAre
<1>. HIDE DEF l
<1>2. x >= -l /\ x < 2 * l
  BY <1>1
<1>. QED
  BY <1>1, <1>2 DEF Wide, Signed, l

LEMMA VarintTaken ==
    ASSUME NEW No, NEW M, NEW S, NEW f, NEW fields, NEW num, Ready(No, S, f, fields, num),
           NEW of, fields[num] = Single(f, 0, of),
           NEW x \in Wide, x = 0 => M[f] = No[f], x # 0 => of[Signed(0, x)] = M[f]
    PROVE  Took(fields, VarintField(num, x), No, M, S, f)
<1>1. CASE x = 0
  <2>1. VarintField(num, x) = <<>>
    BY <1>1 DEF VarintField
  <2>. QED
    BY <1>1, <2>1, LeftOut
<1>2. CASE x # 0
  <2>1. VarintField(num, x) = Tag(num, 0) \o Varint(x)
    BY <1>2 DEF VarintField
  <2>2. HasBody(0, Signed(0, x), Varint(x))
    BY DEF HasBody
  <2>. QED
    BY <1>2, <2>1, <2>2, SingleTaken
<1>. QED
  BY <1>1, <1>2

\* A number as it is, and in zigzag.
LEMMA NumberTaken ==
    ASSUME NEW No, NEW M, NEW S, NEW f, NEW fields, NEW num, Ready(No, S, f, fields, num),
           fields[num] = Single(f, 0, Same), No[f] = 0, M[f] \in Int64
    PROVE  Took(fields, VarintField(num, M[f]), No, M, S, f)
<1>1. M[f] \in Wide /\ Signed(0, M[f]) = M[f] /\ M[f] \in Int
  BY WideInt64, Int64Int
<1>2. Same[M[f]] = M[f]
  BY <1>1 DEF Same
<1>. QED
  BY <1>1, <1>2, VarintTaken

LEMMA ZigzagIs ==
    ASSUME NEW x \in Int64
    PROVE  /\ Zigzag(x) \in Wide /\ Unzigzagged[Signed(0, Zigzag(x))] = x
           /\ Zigzag(x) = 0 => x = 0
<1>1. /\ Zigzag(x) \in Int /\ Zigzag(x) >= -Limit(0) /\ Zigzag(x) < 2 * Limit(0)
      /\ Signed(0, Zigzag(x)) \in Int
      /\ Unzigzag(Signed(0, Zigzag(x))) = x
  BY ZigzagBack
<1>2. Zigzag(x) = 0 => x = 0
  BY Int64Int DEF Zigzag
<1>. QED
  BY <1>1, <1>2 DEF Wide, Unzigzagged

LEMMA ZigzagTaken ==
    ASSUME NEW No, NEW M, NEW S, NEW f, NEW fields, NEW num, Ready(No, S, f, fields, num),
           fields[num] = Single(f, 0, Unzigzagged), No[f] = 0, M[f] \in Int64
    PROVE  Took(fields, VarintField(num, Zigzag(M[f])), No, M, S, f)
BY ZigzagIs, VarintTaken

\* A float.
LEMMA FloatBack ==
    ASSUME NEW v \in Floats
    PROVE  /\ Fixed64(v) \in Seq(Bytes) /\ Len(Fixed64(v)) = 8
           /\ Decoded[Fixed64(v)] = v /\ Float(Fixed64(v)) = v
<1>1. Written(Fixed64(v), 8)
  BY Fixed64Written
<1>2. v \in Nat
  BY DEF Floats
<1>3. (v % 256) + 256 * (v \div 256) = v
  BY <1>2
<1>4. Fixed64(v)[1] = v % 256 /\ Fixed64(v)[2] = v \div 256
  BY DEF Fixed64
<1>5. Float(Fixed64(v)) = v
  BY <1>3, <1>4 DEF Float
<1>. QED
  BY <1>1, <1>5 DEF Written, Decoded

LEMMA FloatTaken ==
    ASSUME NEW No, NEW M, NEW S, NEW f, NEW fields, NEW num, Ready(No, S, f, fields, num),
           fields[num] = Single(f, 1, Decoded), No[f] = 0, M[f] \in Floats
    PROVE  Took(fields, FloatField(num, M[f]), No, M, S, f)
<1>1. CASE M[f] = 0
  <2>1. FloatField(num, M[f]) = <<>>
    BY <1>1 DEF FloatField
  <2>. QED
    BY <1>1, <2>1, LeftOut
<1>2. CASE M[f] # 0
  <2>1. FloatField(num, M[f]) = Tag(num, 1) \o Fixed64(M[f])
    BY <1>2 DEF FloatField
  <2>2. HasBody(1, Fixed64(M[f]), Fixed64(M[f])) /\ Decoded[Fixed64(M[f])] = M[f]
    BY FloatBack DEF HasBody
  <2>. QED
    BY <2>1, <2>2, SingleTaken
<1>. QED
  BY <1>1, <1>2

\* Bytes with their length.
LEMMA DelimitedIs ==
    ASSUME NEW num \in 1..16, NEW b \in Seq(Bytes)
    PROVE  /\ Delimited(num, b) = Tag(num, 2) \o (Varint(Len(b)) \o b)
           /\ HasBody(2, b, Varint(Len(b)) \o b)
<1>1. Tag(num, 2) \in Seq(Bytes)
  <2>1. Written(Tag(num, 2), 1 + Extra(num))
    BY TagWritten
  <2>. QED
    BY <2>1 DEF Written
<1>2. Varint(Len(b)) \in Seq(Bytes)
  <2>1. Len(b) \in Int
    OBVIOUS
  <2>. QED
    BY <2>1, VarintSized
<1>3. (Tag(num, 2) \o Varint(Len(b))) \o b = Tag(num, 2) \o (Varint(Len(b)) \o b)
  <2>. DEFINE t == Tag(num, 2)
              v == Varint(Len(b))
  <2>1. t \in Seq(Bytes) /\ v \in Seq(Bytes)
    BY <1>1, <1>2
  <2>. HIDE DEF t, v
  <2>2. (t \o v) \o b = t \o (v \o b)
    BY <2>1, ConcatAssociative
  <2>. QED
    BY <2>2 DEF t, v
<1>. QED
  BY <1>3 DEF Delimited, HasBody

LEMMA DelimitedTaken ==
    ASSUME NEW fields, NEW num \in 1..16, num \in DOMAIN fields, NEW v \in Seq(Bytes),
           NEW m, m # Error, NEW n, Makes(fields, num, 2, v, m, n)
    PROVE  Takes(fields, Delimited(num, v), m, n)
<1>. DEFINE kind == 2
            body == Varint(Len(v)) \o v
<1>1. Delimited(num, v) = Tag(num, kind) \o body /\ HasBody(kind, v, body)
  BY DelimitedIs
<1>2. Makes(fields, num, kind, v, m, n)
  OBVIOUS
<1>. HIDE DEF kind, body
<1>. QED
  BY <1>1, <1>2, EntryTaken

LEMMA BytesTaken ==
    ASSUME NEW No, NEW M, NEW S, NEW f, NEW fields, NEW num, Ready(No, S, f, fields, num),
           fields[num] = Single(f, 2, Contents), No[f] = <<>>, M[f] \in Seq(Bytes)
    PROVE  Took(fields, BytesField(num, M[f]), No, M, S, f)
<1>1. CASE M[f] = <<>>
  <2>1. BytesField(num, M[f]) = <<>>
    BY <1>1 DEF BytesField
  <2>. QED
    BY <1>1, <2>1, LeftOut
<1>2. CASE M[f] # <<>>
  <2>1. BytesField(num, M[f]) = Delimited(num, M[f])
    BY <1>2 DEF BytesField
  <2>2. num \in 1..16
    BY DEF Ready
  <2>3. Contents[M[f]] = M[f]
    BY DEF Contents
  <2>. DEFINE body == Varint(Len(M[f])) \o M[f]
  <2>4. BytesField(num, M[f]) = Tag(num, 2) \o body /\ HasBody(2, M[f], body)
    BY <2>1, <2>2, DelimitedIs
  <2>. HIDE DEF body
  <2>5. Took(fields, Tag(num, 2) \o body, No, M, S, f)
    BY <2>3, <2>4, SingleTaken
  <2>. QED
    BY <2>4, <2>5
<1>. QED
  BY <1>1, <1>2

\* A oneof.
LEMMA CountTaken ==
    ASSUME NEW No, NEW M, NEW S, NEW f, NEW fields, NEW num, Ready(No, S, f, fields, num),
           NEW other, Ready(No, S, f, fields, other),
           fields[num] = Single(f, 0, IntOf), fields[other] = Single(f, 1, FloatOf),
           No[f] = Nil, M[f] \in Counts
    PROVE  Took(fields, CountMarshal(M[f], num, other), No, M, S, f)
<1>. DEFINE c == M[f]
<1>1. CASE c \in [is : {"nil"}, v : {0}]
  <2>1. c = Nil
    BY <1>1 DEF Nil
  <2>2. CountMarshal(c, num, other) = <<>>
    BY <1>1 DEF CountMarshal
  <2>. QED
    BY <2>1, <2>2, LeftOut
<1>2. CASE c \in [is : {"int"}, v : Int64]
  <2>1. c.is = "int" /\ c.v \in Int64 /\ c = IntCount(c.v)
    BY <1>2 DEF IntCount
  <2>2. CountMarshal(c, num, other) = Tag(num, 0) \o Varint(c.v)
    BY <2>1 DEF CountMarshal
  <2>3. c.v \in Wide /\ Signed(0, c.v) = c.v /\ c.v \in Int
    BY <2>1, WideInt64, Int64Int
  <2>4. HasBody(0, c.v, Varint(c.v))
    BY <2>3 DEF HasBody
  <2>5. IntOf[c.v] = c
    BY <2>1, <2>3 DEF IntOf
  <2>. QED
    BY <2>2, <2>4, <2>5, SingleTaken
<1>3. CASE c \in [is : {"float"}, v : Floats]
  <2>1. c.is = "float" /\ c.v \in Floats /\ c = FloatCount(c.v)
    BY <1>3 DEF FloatCount
  <2>2. CountMarshal(c, num, other) = Tag(other, 1) \o Fixed64(c.v)
    BY <2>1 DEF CountMarshal
  <2>3. HasBody(1, Fixed64(c.v), Fixed64(c.v))
    BY <2>1, FloatBack DEF HasBody
  <2>4. FloatOf[Fixed64(c.v)] = c
    BY <2>1, FloatBack DEF FloatOf
  <2>. QED
    BY <2>2, <2>3, <2>4, SingleTaken
<1>. QED
  BY <1>1, <1>2, <1>3 DEF Counts

-------------------------------------------------------------------------------
(* Fields of several values. *)

LEMMA PartsTaken ==
    ASSUME NEW fields, NEW ss, Parts(ss, Bytes), NEW g,
           \A n \in 1..Len(ss) : Takes(fields, ss[n], g[n - 1], g[n])
    PROVE  Takes(fields, FlattenSeq(ss), g[0], g[Len(ss)])
<1>. DEFINE l == Len(ss)
<1>1. PICK h \in [Nat -> Seq(Bytes)] :
        /\ h[0] = <<>>
        /\ \A n \in 1..l : h[n] = h[n - 1] \o ss[n]
        /\ FlattenSeq(ss) = h[l]
  BY PartsOf
<1>2. l \in Nat
  BY PartsOf
<1>. HIDE DEF l
<1>. DEFINE T == {n \in 0..l : ~Takes(fields, h[n], g[0], g[n])}
<1>3. SUFFICES ASSUME T # {} PROVE FALSE
  <2>1. l \in 0..l
    BY <1>2
  <2>2. Takes(fields, h[l], g[0], g[l])
    BY <1>3, <2>1
  <2>. QED
    BY <1>1, <2>2 DEF l
<1>4. PICK n \in T : \A k \in T : n <= k
  <2>1. T \in SUBSET Nat
    OBVIOUS
  <2>. HIDE DEF T
  <2>. QED
    BY <1>3, <2>1, NatMin
<1>5. n \in 0..l /\ ~Takes(fields, h[n], g[0], g[n])
  OBVIOUS
<1>6. n # 0
  BY <1>1, <1>5, TakesNothing
<1>7. n \in 1..l /\ n - 1 \in 0..l /\ ~(n <= n - 1)
  BY <1>2, <1>5, <1>6
<1>8. n - 1 \notin T
  <2>. HIDE DEF T
  <2>. QED
    BY <1>4, <1>7
<1>9. Takes(fields, h[n - 1], g[0], g[n - 1])
  BY <1>7, <1>8
<1>. HIDE DEF T
<1>10. Takes(fields, ss[n], g[n - 1], g[n])
  BY <1>7 DEF l
<1>11. Takes(fields, h[n - 1] \o ss[n], g[0], g[n])
  BY <1>9, <1>10, TakesBoth
<1>. QED
  BY <1>1, <1>5, <1>7, <1>11

\* Where the parts of what b holds are.
LEMMA FlattenPlaces ==
    ASSUME NEW ss, Parts(ss, Bytes), NEW b \in Seq(Bytes), NEW i \in Nat \ {0},
           Stands(FlattenSeq(ss), b, i)
    PROVE  \E p \in [0..Len(ss) -> Nat \ {0}] :
              /\ p[0] = i /\ p[Len(ss)] = i + Len(FlattenSeq(ss))
              /\ \A n \in 1..Len(ss) : p[n] = p[n - 1] + Len(ss[n]) /\ Stands(ss[n], b, p[n - 1])
<1>. DEFINE l == Len(ss)
<1>1. PICK h \in [Nat -> Seq(Bytes)] :
        /\ h[0] = <<>>
        /\ \A n \in 1..l : h[n] = h[n - 1] \o ss[n]
        /\ FlattenSeq(ss) = h[l]
  BY PartsOf
<1>2. l \in Nat /\ \A n \in 1..l : ss[n] \in Seq(Bytes) /\ Len(ss[n]) \in Nat
  BY PartsOf
<1>. HIDE DEF l
<1>3. ASSUME NEW n \in 1..l
      PROVE  /\ h[n - 1] \in Seq(Bytes) /\ Len(h[n - 1]) \in Nat
             /\ Len(h[n]) = Len(h[n - 1]) + Len(ss[n])
             /\ Stands(h[n], b, i) => Stands(h[n - 1], b, i) /\ Stands(ss[n], b, i + Len(h[n - 1]))
  <2>1. n - 1 \in Nat
    BY <1>2
  <2>2. h[n - 1] \in Seq(Bytes) /\ ss[n] \in Seq(Bytes)
    BY <1>2, <2>1
  <2>3. h[n] = h[n - 1] \o ss[n]
    BY <1>1
  <2>4. Len(h[n - 1]) \in Nat /\ Len(h[n - 1] \o ss[n]) = Len(h[n - 1]) + Len(ss[n])
    BY <2>2
  <2>5. Stands(h[n - 1] \o ss[n], b, i) => Stands(h[n - 1], b, i) /\ Stands(ss[n], b, i + Len(h[n - 1]))
    BY <2>2, StandsTwo
  <2>. QED
    BY <2>2, <2>3, <2>4, <2>5
<1>. DEFINE T == {k \in 0..l : ~Stands(h[l - k], b, i)}
<1>4. T = {}
  <2>1. SUFFICES ASSUME T # {} PROVE FALSE
    OBVIOUS
  <2>2. PICK k \in T : \A j \in T : k <= j
    <3>1. T \in SUBSET Nat
      OBVIOUS
    <3>. HIDE DEF T
    <3>. QED
      BY <2>1, <3>1, NatMin
  <2>3. k \in 0..l /\ ~Stands(h[l - k], b, i)
    OBVIOUS
  <2>4. k # 0
    <3>1. l - 0 = l
      BY <1>2
    <3>. QED
      BY <1>1, <2>3, <3>1
  <2>5. k - 1 \in 0..l /\ ~(k <= k - 1) /\ l - (k - 1) \in 1..l /\ (l - (k - 1)) - 1 = l - k
    BY <1>2, <2>3, <2>4
  <2>6. k - 1 \notin T
    <3>. HIDE DEF T
    <3>. QED
      BY <2>2, <2>5
  <2>7. Stands(h[l - (k - 1)], b, i)
    BY <2>5, <2>6
  <2>. HIDE DEF T
  <2>8. Stands(h[(l - (k - 1)) - 1], b, i)
    BY <1>3, <2>5, <2>7
  <2>. QED
    BY <2>3, <2>5, <2>8
<1>5. \A n \in 0..l : Stands(h[n], b, i)
  <2>. SUFFICES ASSUME NEW n \in 0..l PROVE Stands(h[n], b, i)
    OBVIOUS
  <2>1. l - n \in 0..l /\ l - (l - n) = n
    BY <1>2
  <2>2. Stands(h[l - (l - n)], b, i)
    BY <1>4, <2>1
  <2>. QED
    BY <2>1, <2>2
<1>. HIDE DEF T
<1>. DEFINE p == [n \in 0..l |-> i + Len(h[n])]
<1>6. p \in [0..l -> Nat \ {0}]
  <2>1. \A n \in 0..l : h[n] \in Seq(Bytes) /\ Len(h[n]) \in Nat
    <3>1. \A n \in 0..l : n \in Nat
      OBVIOUS
    <3>2. \A n \in 0..l : h[n] \in Seq(Bytes)
      BY <3>1
    <3>. QED
      BY <3>2
  <2>2. \A n \in 0..l : i + Len(h[n]) \in Nat \ {0}
    <3>. SUFFICES ASSUME NEW n \in 0..l PROVE i + Len(h[n]) \in Nat \ {0}
      OBVIOUS
    <3>. DEFINE k == Len(h[n])
    <3>1. k \in Nat
      BY <2>1
    <3>. HIDE DEF k
    <3>2. i + k \in Nat \ {0}
      BY <3>1
    <3>. QED
      BY <3>2 DEF k
  <2>. QED
    BY <2>2
<1>7. p[0] = i /\ p[l] = i + Len(FlattenSeq(ss))
  <2>1. 0 \in 0..l /\ l \in 0..l /\ Len(<<>>) = 0 /\ i + 0 = i
    BY <1>2
  <2>2. p[0] = i + Len(h[0]) /\ p[l] = i + Len(h[l])
    BY <2>1
  <2>. QED
    BY <1>1, <2>1, <2>2
<1>8. ASSUME NEW n \in 1..l
      PROVE  p[n] = p[n - 1] + Len(ss[n]) /\ Stands(ss[n], b, p[n - 1])
  <2>1. n \in 0..l /\ n - 1 \in 0..l
    BY <1>2
  <2>2. p[n] = i + Len(h[n]) /\ p[n - 1] = i + Len(h[n - 1])
    BY <2>1
  <2>. HIDE DEF p
  <2>3. Len(h[n]) = Len(h[n - 1]) + Len(ss[n]) /\ Len(h[n - 1]) \in Nat /\ Len(ss[n]) \in Nat
    BY <1>2, <1>3
  <2>4. Stands(h[n], b, i)
    BY <1>5, <2>1
  <2>5. Stands(ss[n], b, i + Len(h[n - 1]))
    BY <1>3, <2>4
  <2>6. i + (Len(h[n - 1]) + Len(ss[n])) = (i + Len(h[n - 1])) + Len(ss[n])
    <3>. DEFINE j == Len(h[n - 1])
                k == Len(ss[n])
    <3>1. j \in Nat /\ k \in Nat
      BY <2>3
    <3>. HIDE DEF j, k
    <3>2. i + (j + k) = (i + j) + k
      BY <3>1
    <3>. QED
      BY <3>2 DEF j, k
  <2>. QED
    BY <2>2, <2>3, <2>5, <2>6
<1>. QED
  <2>. HIDE DEF p
  <2>. QED
    BY <1>6, <1>7, <1>8 DEF l

-------------------------------------------------------------------------------

\* A field that is a sequence over X, and adds to what there is.
Sequel(No, M, S, f, X) ==
    /\ f \in DOMAIN No /\ f \notin S /\ "unrecognized" \in DOMAIN No
    /\ M[f] \in Seq(X) /\ No[f] = <<>>

\* n is m with one value more in the field f.
OneMore(m, f, x, n) == m # Error /\ [m EXCEPT ![f] = Append(@, x)] = n

\* The message after the first k values.
FirstOf(No, M, S, f, k) == [Mix(No, M, S) EXCEPT ![f] = SubSeq(M[f], 1, k)]

LEMMA FirstNext ==
    ASSUME NEW X, NEW s \in Seq(X), NEW k \in 1..Len(s)
    PROVE  Append(SubSeq(s, 1, k - 1), s[k]) = SubSeq(s, 1, k)
<1>. DEFINE l == Len(s)
            a == SubSeq(s, 1, k - 1)
            c == SubSeq(s, 1, k)
<1>1. l \in Nat /\ k \in 1..l /\ k - 1 \in Int
  OBVIOUS
<1>2. a = [j \in 1..(k - 1) |-> s[j]]
  <2>1. a = [j \in 1..((k - 1) - 1 + 1) |-> s[j + 1 - 1]]
    BY SMT
  <2>2. (k - 1) - 1 + 1 = k - 1 /\ \A j \in 1..(k - 1) : j + 1 - 1 = j
    BY <1>1
  <2>. QED
    BY <2>1, <2>2
<1>3. c = [j \in 1..k |-> s[j]]
  <2>1. c = [j \in 1..(k - 1 + 1) |-> s[j + 1 - 1]]
    BY SMT
  <2>2. k - 1 + 1 = k /\ \A j \in 1..k : j + 1 - 1 = j
    BY <1>1
  <2>. QED
    BY <2>1, <2>2
<1>4. a \in Seq(X) /\ Len(a) = k - 1
  <2>1. \A j \in 1..(k - 1) : s[j] \in X
    BY <1>1
  <2>2. k - 1 \in Nat
    BY <1>1
  <2>. HIDE DEF a
  <2>. QED
    BY <1>2, <2>1, <2>2
<1>5. Append(a, s[k]) = [j \in 1..((k - 1) + 1) |-> IF j = (k - 1) + 1 THEN s[k] ELSE a[j]]
  <2>. HIDE DEF a
  <2>. QED
    BY <1>4
<1>. HIDE DEF a, c
<1>6. \A j \in 1..k : j # k => a[j] = s[j]
  BY <1>1, <1>2
<1>7. (k - 1) + 1 = k
  BY <1>1
<1>8. Append(a, s[k]) = [j \in 1..k |-> s[j]]
  BY <1>5, <1>6, <1>7
<1>. QED
  BY <1>3, <1>8 DEF a, c

FirstEnds(No, M, S, f) ==
    /\ FirstOf(No, M, S, f, 0) = Mix(No, M, S)
    /\ FirstOf(No, M, S, f, Len(M[f])) = Mix(No, M, S \cup {f})

LEMMA FirstOfEnds ==
    ASSUME NEW No, NEW M, NEW S, NEW f, NEW X, Sequel(No, M, S, f, X)
    PROVE  FirstEnds(No, M, S, f)
<1>. DEFINE m == Mix(No, M, S)
<1>1. m[f] = <<>> /\ m = [g \in DOMAIN m |-> m[g]]
  BY DEF Mix, Sequel
<1>2. [m EXCEPT ![f] = M[f]] = Mix(No, M, S \cup {f})
  BY DEF Mix, Sequel
<1>3. SubSeq(M[f], 1, 0) = <<>> /\ SubSeq(M[f], 1, Len(M[f])) = M[f]
  <2>. DEFINE s == M[f]
  <2>1. s \in Seq(X)
    BY DEF Sequel
  <2>. HIDE DEF s
  <2>2. SubSeq(s, 1, 0) = <<>> /\ SubSeq(s, 1, Len(s)) = s
    BY <2>1
  <2>. QED
    BY <2>2 DEF s
<1>. HIDE DEF m
<1>4. [m EXCEPT ![f] = <<>>] = m
  BY <1>1
<1>5. FirstOf(No, M, S, f, 0) = [m EXCEPT ![f] = SubSeq(M[f], 1, 0)]
      /\ FirstOf(No, M, S, f, Len(M[f])) = [m EXCEPT ![f] = SubSeq(M[f], 1, Len(M[f]))]
  BY DEF FirstOf, m
<1>. QED
  BY <1>2, <1>3, <1>4, <1>5 DEF m, FirstEnds

LEMMA FirstOfNext ==
    ASSUME NEW No, NEW M, NEW S, NEW f, NEW X, Sequel(No, M, S, f, X), NEW k \in 1..Len(M[f])
    PROVE  OneMore(FirstOf(No, M, S, f, k - 1), f, M[f][k], FirstOf(No, M, S, f, k))
<1>. DEFINE m == Mix(No, M, S)
            s == M[f]
            a == SubSeq(s, 1, k - 1)
            c == SubSeq(s, 1, k)
<1>1. f \in DOMAIN m /\ "unrecognized" \in DOMAIN m
  BY DEF Mix, Sequel
<1>2. Append(a, s[k]) = c
  <2>1. s \in Seq(X)
    BY DEF Sequel
  <2>. QED
    BY <2>1, FirstNext
<1>3. FirstOf(No, M, S, f, k - 1) = [m EXCEPT ![f] = a]
      /\ FirstOf(No, M, S, f, k) = [m EXCEPT ![f] = c]
  BY DEF FirstOf
<1>. HIDE DEF a, c, m
<1>4. [m EXCEPT ![f] = a][f] = a
  BY <1>1
<1>5. [[m EXCEPT ![f] = a] EXCEPT ![f] = c] = [m EXCEPT ![f] = c]
  BY <1>1
<1>6. [m EXCEPT ![f] = a] # Error
  <2>1. "unrecognized" \in DOMAIN [m EXCEPT ![f] = a]
    BY <1>1
  <2>2. "unrecognized" \notin DOMAIN Error
    BY DEF Error
  <2>. QED
    BY <2>1, <2>2
<1>. QED
  BY <1>2, <1>3, <1>4, <1>5, <1>6 DEF OneMore

\* What is made of a message in a repeated field is one more value.
Adds(c, f, b, x) ==
    \A e, m : e.wire = 2 /\ e.val = b /\ Fits(2, b)
                => Place(m, e, c) = [m EXCEPT ![f] = Append(@, x)]

LEMMA RepeatedTaken ==
    ASSUME NEW No, NEW M, NEW S, NEW f, NEW fields, NEW num, Ready(No, S, f, fields, num),
           NEW X, M[f] \in Seq(X), No[f] = <<>>,
           NEW ms \in Seq(Seq(Bytes)), Len(ms) = Len(M[f]),
           \A k \in 1..Len(ms) : Adds(fields[num], f, ms[k], M[f][k])
    PROVE  Took(fields, RepeatedField(num, ms), No, M, S, f)
<1>. DEFINE ss == [k \in DOMAIN ms |-> Delimited(num, ms[k])]
            l == Len(ms)
            g == [k \in 0..l |-> FirstOf(No, M, S, f, k)]
<1>1. /\ "unrecognized" \in DOMAIN No /\ f \in DOMAIN No /\ f \notin S
      /\ num \in 1..16 /\ num \in DOMAIN fields
  BY DEF Ready
<1>2. l \in Nat /\ DOMAIN ms = 1..l /\ \A k \in 1..l : ms[k] \in Seq(Bytes)
  BY SeqTyped
<1>4. \A k \in 1..l : Delimited(num, ms[k]) \in Seq(Bytes)
  <2>. SUFFICES ASSUME NEW k \in 1..l PROVE Delimited(num, ms[k]) \in Seq(Bytes)
    OBVIOUS
  <2>1. Written(ms[k], Len(ms[k]))
    BY <1>2 DEF Written
  <2>. QED
    BY <1>1, <2>1, DelimitedWritten DEF Written
<1>5. RepeatedField(num, ms) = FlattenSeq(ss)
  BY DEF RepeatedField, Each
<1>6. Len(ss) = l /\ Parts(ss, Bytes) /\ \A k \in 1..l : ss[k] = Delimited(num, ms[k])
  <2>1. ss = [k \in 1..l |-> Delimited(num, ms[k])]
    BY <1>2
  <2>2. ss \in Seq(Seq(Bytes)) /\ Len(ss) = l
    <3>. HIDE DEF ss, l
    <3>. QED
      BY <1>2, <1>4, <2>1
  <2>. QED
    BY <2>1, <2>2 DEF Parts
<1>. HIDE DEF ss
<1>12. Sequel(No, M, S, f, X)
  BY <1>1 DEF Sequel
<1>7. FirstEnds(No, M, S, f)
  BY <1>12, FirstOfEnds
<1>8. Len(M[f]) = l
  OBVIOUS
<1>. HIDE DEF l
<1>9. ASSUME NEW k \in 1..l
      PROVE  Takes(fields, ss[k], g[k - 1], g[k])
  <2>1. k \in 0..l /\ k - 1 \in 0..l
    BY <1>2
  <2>2. g[k] = FirstOf(No, M, S, f, k) /\ g[k - 1] = FirstOf(No, M, S, f, k - 1)
    BY <2>1
  <2>. HIDE DEF g
  <2>. DEFINE m == FirstOf(No, M, S, f, k - 1)
              n == FirstOf(No, M, S, f, k)
  <2>3. OneMore(m, f, M[f][k], n)
    BY <1>8, <1>12, FirstOfNext
  <2>4. Adds(fields[num], f, ms[k], M[f][k])
    BY DEF l
  <2>. HIDE DEF m, n
  <2>5. Makes(fields, num, 2, ms[k], m, n)
    BY <2>3, <2>4 DEF Adds, OneMore, Makes
  <2>6. m # Error
    BY <2>3 DEF OneMore
  <2>7. ms[k] \in Seq(Bytes)
    BY <1>2
  <2>8. Takes(fields, Delimited(num, ms[k]), m, n)
    BY <1>1, <2>5, <2>6, <2>7, DelimitedTaken
  <2>. QED
    BY <1>6, <2>2, <2>8 DEF m, n
<1>10. Takes(fields, FlattenSeq(ss), g[0], g[l])
  <2>. HIDE DEF g
  <2>. QED
    BY <1>6, <1>9, PartsTaken
<1>11. g[0] = FirstOf(No, M, S, f, 0) /\ g[l] = FirstOf(No, M, S, f, l)
  BY <1>2
<1>. QED
  BY <1>5, <1>7, <1>8, <1>10, <1>11 DEF Took, FirstEnds

-------------------------------------------------------------------------------
(* Packed fields. *)

\* The varints of b from each index on.
IsVarints(f, b) ==
    f = [i \in 1..(Len(b) + 1) |-> IF i > Len(b) THEN <<>> ELSE NumbersOn(ReadVarint(b, i), f)]
VarintsFrom(b) == CHOOSE f : IsVarints(f, b)

\* The varints there may be.
ReadSet(b) == {ReadVarint(b, i) : i \in 1..Len(b)}

LEMMA VarintLater ==
    ASSUME NEW b \in Seq(Bytes), NEW i \in 1..Len(b),
           NEW f \in [1..(Len(b) + 1) -> Seq(ReadSet(b))]
    PROVE  /\ NumbersOn(ReadVarint(b, i), f) \in Seq(ReadSet(b))
           /\ \A g : (\A k \in (i + 1)..(Len(b) + 1) : f[k] = g[k])
                => NumbersOn(ReadVarint(b, i), f) = NumbersOn(ReadVarint(b, i), g)
<1>. DEFINE v == ReadVarint(b, i)
            l == Len(b)
            W == ReadSet(b)
<1>1. \A g : NumbersOn(v, g) = IF v.next = 0 THEN <<v>> ELSE <<v>> \o g[v.next]
  BY DEF NumbersOn
<1>2. v \in W
  BY DEF ReadSet
<1>3. l \in Nat /\ i \in 1..l /\ i \in Nat \ {0}
  OBVIOUS
<1>4. f \in [1..(l + 1) -> Seq(W)]
  OBVIOUS
<1>5. v.next # 0 => v.next > i /\ v.next <= l + 1 /\ v.next \in Nat
  BY <1>3, ReadTyped
<1>. HIDE DEF v, l, W
<1>6. <<v>> \in Seq(W)
  BY <1>2
<1>7. CASE v.next = 0
  BY <1>1, <1>6, <1>7 DEF v, l, W
<1>8. CASE v.next # 0
  <2>1. v.next \in (i + 1)..(l + 1) /\ v.next \in 1..(l + 1)
    BY <1>3, <1>5, <1>8
  <2>2. f[v.next] \in Seq(W)
    BY <1>4, <2>1
  <2>3. <<v>> \o f[v.next] \in Seq(W)
    BY <1>6, <2>2
  <2>4. ASSUME NEW g, \A k \in (i + 1)..(l + 1) : f[k] = g[k]
        PROVE  NumbersOn(v, f) = NumbersOn(v, g)
    <3>1. f[v.next] = g[v.next]
      BY <2>1, <2>4
    <3>. QED
      BY <1>1, <3>1
  <2>5. NumbersOn(v, f) \in Seq(W)
    BY <1>1, <1>8, <2>3
  <2>. QED
    BY <2>4, <2>5 DEF v, l, W
<1>. QED
  BY <1>7, <1>8

LEMMA VarintsDefined ==
    ASSUME NEW b \in Seq(Bytes)
    PROVE  /\ IsVarints(VarintsFrom(b), b)
           /\ Varints(b) = VarintsFrom(b)[1]
<1>. DEFINE l == Len(b) + 1
            V == Seq(ReadSet(b))
            At(i, f) == IF i > Len(b) THEN <<>> ELSE NumbersOn(ReadVarint(b, i), f)
            F == [i \in 1..l |-> [f \in [1..l -> V] |-> At(i, f)]]
<1>1. Len(b) \in Nat /\ l \in Nat /\ l = Len(b) + 1
  OBVIOUS
<1>2. <<>> \in V
  OBVIOUS
<1>3. \A i \in 1..l : \A f \in [1..l -> V] : At(i, f) \in V
  <2>. SUFFICES ASSUME NEW i \in 1..l, NEW f \in [1..l -> V] PROVE At(i, f) \in V
    OBVIOUS
  <2>1. CASE i > Len(b)
    BY <2>1
  <2>2. CASE ~(i > Len(b))
    <3>1. i \in 1..Len(b)
      BY <1>1, <2>2
    <3>2. NumbersOn(ReadVarint(b, i), f) \in V
      BY <3>1, VarintLater
    <3>. QED
      BY <2>2, <3>2
  <2>. QED
    BY <2>1, <2>2
<1>4. ASSUME NEW i \in 1..l, NEW f \in [1..l -> V], NEW g \in [1..l -> V],
             \A k \in (i + 1)..l : f[k] = g[k]
      PROVE  At(i, f) = At(i, g)
  <2>1. CASE i > Len(b)
    BY <2>1
  <2>2. CASE ~(i > Len(b))
    <3>1. i \in 1..Len(b)
      BY <1>1, <2>2
    <3>2. NumbersOn(ReadVarint(b, i), f) = NumbersOn(ReadVarint(b, i), g)
      BY <1>4, <3>1, VarintLater
    <3>. QED
      BY <2>2, <3>2
  <2>. QED
    BY <2>1, <2>2
<1>5. \A i \in 1..l : \A f \in [1..l -> V] : F[i][f] = At(i, f)
  OBVIOUS
<1>6. \A f : IsVarints(f, b) <=> f = [i \in 1..l |-> At(i, f)]
  BY DEF IsVarints
<1>. HIDE DEF At
<1>7. F \in [1..l -> [[1..l -> V] -> V]]
  BY <1>3
<1>. HIDE DEF F, V, l
<1>8. Later(F, 1, l, V)
  <2>1. ASSUME NEW i \in 1..l, NEW f \in [1..l -> V], NEW g \in [1..l -> V],
               \A k \in (i + 1)..l : f[k] = g[k]
        PROVE  F[i][f] = F[i][g]
    <3>1. At(i, f) = At(i, g)
      BY <1>4, <2>1
    <3>. QED
      BY <1>5, <3>1
  <2>. QED
    BY <1>7, <2>1 DEF Later
<1>9. PICK f \in [1..l -> V] : \A i \in 1..l : f[i] = F[i][f]
  <2>1. 1 \in Int /\ l \in Int
    BY <1>1
  <2>. QED
    BY <1>2, <1>8, <2>1, Backwards
<1>10. IsVarints(f, b)
  <2>1. f = [i \in 1..l |-> At(i, f)]
    BY <1>5, <1>9
  <2>. QED
    BY <1>6, <2>1
<1>11. IsVarints(VarintsFrom(b), b)
  BY <1>10 DEF VarintsFrom
<1>12. Varints(b) = VarintsFrom(b)[1]
  BY DEF Varints, VarintsFrom, IsVarints
<1>. QED
  BY <1>11, <1>12

\* A sequence from its end.
LEMMA SuffixNext ==
    ASSUME NEW X, NEW s \in Seq(X)
    PROVE  /\ SubSeq(s, Len(s) + 1, Len(s)) = <<>>
           /\ SubSeq(s, 1, Len(s)) = s
           /\ \A n \in 1..Len(s) : <<s[n]>> \o SubSeq(s, n + 1, Len(s)) = SubSeq(s, n, Len(s))
<1>. DEFINE l == Len(s)
<1>1. l \in Nat
  OBVIOUS
<1>2. ASSUME NEW n \in 1..l
      PROVE  <<s[n]>> \o SubSeq(s, n + 1, l) = SubSeq(s, n, l)
  <2>. DEFINE a == SubSeq(s, n + 1, l)
              c == SubSeq(s, n, l)
              j == l - n
  <2>1. j \in Nat /\ n \in Nat /\ n + 1 \in Nat /\ l - (n + 1) + 1 = j /\ l - n + 1 = j + 1
    BY <1>1
  <2>2. a = [k \in 1..(l - (n + 1) + 1) |-> s[k + (n + 1) - 1]]
    BY SMT
  <2>3. c = [k \in 1..(l - n + 1) |-> s[k + n - 1]]
    BY SMT
  <2>4. Len(a) = j /\ a \in Seq(X)
    <3>1. \A k \in 1..j : s[k + (n + 1) - 1] \in X
      BY <1>1, <2>1
    <3>2. a = [k \in 1..j |-> s[k + (n + 1) - 1]]
      BY <2>1, <2>2
    <3>. HIDE DEF a, j
    <3>. QED
      BY <2>1, <3>1, <3>2
  <2>5. s[n] \in X
    OBVIOUS
  <2>6. \A k \in 1..j : a[k] = s[k + n]
    <3>. HIDE DEF a
    <3>. QED
      BY <2>1, <2>2
  <2>7. Len(c) = j + 1 /\ c \in Seq(X) /\ c[1] = s[n] /\ \A k \in 1..j : c[k + 1] = s[k + n]
    <3>1. \A k \in 1..(j + 1) : s[k + n - 1] \in X
      BY <1>1, <2>1
    <3>2. c = [k \in 1..(j + 1) |-> s[k + n - 1]]
      BY <2>1, <2>3
    <3>3. 1 + n - 1 = n /\ \A k \in 1..j : k + 1 + n - 1 = k + n /\ k + 1 \in 1..(j + 1)
      BY <2>1
    <3>. HIDE DEF c, j
    <3>. QED
      BY <2>1, <3>1, <3>2, <3>3
  <2>. HIDE DEF a, c, j
  <2>8. <<s[n]>> \o a \in Seq(X) /\ Len(<<s[n]>> \o a) = j + 1
        /\ (<<s[n]>> \o a)[1] = s[n] /\ \A k \in 1..j : (<<s[n]>> \o a)[k + 1] = a[k]
    <3>. DEFINE e == <<s[n]>>
    <3>1. e \in Seq(X) /\ Len(e) = 1 /\ e[1] = s[n]
      BY <2>5
    <3>. HIDE DEF e
    <3>2. /\ e \o a \in Seq(X) /\ Len(e \o a) = 1 + j
          /\ \A k \in 1..(1 + j) : (e \o a)[k] = IF k <= 1 THEN e[k] ELSE a[k - 1]
      <4>1. /\ e \o a \in Seq(X) /\ Len(e \o a) = Len(e) + Len(a)
            /\ \A k \in 1..(Len(e) + Len(a)) :
                   (e \o a)[k] = IF k <= Len(e) THEN e[k] ELSE a[k - Len(e)]
        BY <2>4, <3>1, ConcatProperties, ZenonT(30)
      <4>2. Len(e) = 1 /\ Len(a) = j
        BY <2>4, <3>1
      <4>. QED
        BY <4>1, <4>2, ZenonT(30)
    <3>3. (e \o a)[1] = s[n] /\ 1 + j = j + 1
      BY <2>1, <3>1, <3>2
    <3>4. ASSUME NEW k \in 1..j PROVE (e \o a)[k + 1] = a[k]
      <4>1. k + 1 \in 1..(1 + j) /\ ~(k + 1 <= 1) /\ (k + 1) - 1 = k
        BY <2>1
      <4>. QED
        BY <3>2, <4>1
    <3>. QED
      BY <3>2, <3>3, <3>4 DEF e
  <2>9. \A k \in 1..(j + 1) : (<<s[n]>> \o a)[k] = c[k]
    <3>. SUFFICES ASSUME NEW k \in 1..(j + 1) PROVE (<<s[n]>> \o a)[k] = c[k]
      OBVIOUS
    <3>1. CASE k = 1
      BY <2>7, <2>8, <3>1
    <3>2. CASE k # 1
      <4>. DEFINE i == k - 1
      <4>1. i \in 1..j /\ k = i + 1
        BY <2>1, <3>2
      <4>. HIDE DEF i
      <4>. QED
        BY <2>6, <2>7, <2>8, <4>1
    <3>. QED
      BY <3>1, <3>2
  <2>10. <<s[n]>> \o a = c
    <3>. DEFINE u == <<s[n]>> \o a
    <3>1. u \in Seq(X) /\ Len(u) = j + 1 /\ \A k \in 1..(j + 1) : u[k] = c[k]
      BY <2>8, <2>9
    <3>. HIDE DEF u
    <3>2. u = c
      BY <2>7, <3>1
    <3>. QED
      BY <3>2 DEF u
  <2>. QED
    BY <2>10 DEF a, c
<1>3. SubSeq(s, l + 1, l) = <<>>
  <2>1. l < l + 1
    BY <1>1
  <2>. QED
    BY <1>1, <2>1
<1>4. SubSeq(s, 1, l) = s
  OBVIOUS
<1>. QED
  BY <1>2, <1>3, <1>4

\* vs are the varints of ws.
AreVarints(vs, ws) ==
    /\ ws \in Seq(Wide) /\ Len(vs) = Len(ws) /\ Parts(vs, Bytes)
    /\ \A n \in 1..Len(ws) : vs[n] = Varint(ws[n])

\* They are read one after the other.
LEMMA VarintsRead ==
    ASSUME NEW vs, NEW ws, AreVarints(vs, ws)
    PROVE  /\ Varints(FlattenSeq(vs)) \in Seq([val : Int, next : Nat \ {0}])
           /\ Len(Varints(FlattenSeq(vs))) = Len(ws)
           /\ \A n \in 1..Len(ws) : Varints(FlattenSeq(vs))[n].val = Signed(0, ws[n])
<1>. DEFINE b == FlattenSeq(vs)
            l == Len(ws)
            from == VarintsFrom(b)
<1>1. /\ l \in Nat /\ Len(vs) = l /\ Parts(vs, Bytes)
      /\ \A n \in 1..l : ws[n] \in Wide /\ vs[n] = Varint(ws[n])
  BY DEF AreVarints
<1>2. b \in Seq(Bytes)
  BY <1>1, FlattenTyped
<1>3. Len(b) \in Nat /\ Stands(b, b, 1)
  BY <1>2, StandsWhole
<1>. HIDE DEF b
<1>4. PICK p \in [0..l -> Nat \ {0}] :
        /\ p[0] = 1 /\ p[l] = 1 + Len(b)
        /\ \A n \in 1..l : p[n] = p[n - 1] + Len(vs[n]) /\ Stands(vs[n], b, p[n - 1])
  BY <1>1, <1>2, <1>3, FlattenPlaces DEF b
<1>5. \A n \in 1..l : Signed(0, ws[n]) \in Int
  <2>1. Limit(0) \in Nat
    BY LimitsAre
  <2>2. \A n \in 1..l : ws[n] \in Int
    BY <1>1 DEF Wide
  <2>. QED
    BY <2>1, <2>2 DEF Signed
<1>. DEFINE R == [n \in 1..l |-> [val |-> Signed(0, ws[n]), next |-> p[n]]]
            X == [val : Int, next : Nat \ {0}]
<1>6. R \in Seq(X) /\ Len(R) = l
  <2>1. \A n \in 1..l : n \in 0..l
    BY <1>1
  <2>2. \A n \in 1..l : R[n] \in X
    BY <1>4, <1>5, <2>1
  <2>. HIDE DEF X, l
  <2>3. R = [n \in 1..l |-> R[n]]
    OBVIOUS
  <2>. HIDE DEF R
  <2>. QED
    BY <1>1, <2>2, <2>3
<1>7. \A n \in 1..l : R[n] = [val |-> Signed(0, ws[n]), next |-> p[n]]
  OBVIOUS
<1>8. IsVarints(from, b) /\ Varints(b) = from[1]
  BY <1>2, VarintsDefined
<1>. HIDE DEF R, X, l, from
<1>9. ASSUME NEW n \in 1..l, from[p[n]] = SubSeq(R, n + 1, l)
      PROVE  from[p[n - 1]] = SubSeq(R, n, l)
  <2>. DEFINE i == p[n - 1]
              w == Varint(ws[n])
              k == Len(w)
  <2>1. n - 1 \in 0..l /\ n \in 0..l
    BY <1>1
  <2>2. i \in Nat \ {0} /\ p[n] \in Nat \ {0}
    BY <1>4, <2>1
  <2>3. Stands(w, b, i) /\ p[n] = i + k
    BY <1>1, <1>4
  <2>4. ws[n] \in Int /\ ws[n] >= -Limit(0) /\ ws[n] < 2 * Limit(0)
    BY <1>1 DEF Wide
  <2>5. w \in Seq(Bytes) /\ k \in 1..10
    BY <2>4, VarintSized
  <2>6. ReadVarint(b, i) = [val |-> Signed(0, ws[n]), next |-> i + k]
    BY <1>2, <2>3, <2>4, VarintReadBack
  <2>. HIDE DEF i, w, k
  <2>7. i + k - 1 <= Len(b)
    BY <2>3 DEF Stands, k
  <2>8. i \in 1..(Len(b) + 1) /\ ~(i > Len(b))
    BY <1>3, <2>2, <2>5, <2>7
  <2>9. from[i] = NumbersOn(ReadVarint(b, i), from)
    <3>1. from = [j \in 1..(Len(b) + 1) |->
                    IF j > Len(b) THEN <<>> ELSE NumbersOn(ReadVarint(b, j), from)]
      BY <1>8 DEF IsVarints
    <3>. QED
      BY <2>8, <3>1
  <2>10. ReadVarint(b, i) = R[n] /\ R[n].next = p[n]
    BY <1>7, <2>3, <2>6
  <2>11. NumbersOn(R[n], from) = <<R[n]>> \o from[p[n]]
    BY <2>2, <2>10 DEF NumbersOn
  <2>12. <<R[n]>> \o SubSeq(R, n + 1, l) = SubSeq(R, n, l)
    BY <1>6, SuffixNext
  <2>. QED
    BY <1>9, <2>9, <2>10, <2>11, <2>12 DEF i
<1>10. from[p[l]] = SubSeq(R, l + 1, l)
  <2>1. SubSeq(R, l + 1, l) = <<>>
    BY <1>6, SuffixNext
  <2>2. from = [j \in 1..(Len(b) + 1) |->
                    IF j > Len(b) THEN <<>> ELSE NumbersOn(ReadVarint(b, j), from)]
    BY <1>8 DEF IsVarints
  <2>3. p[l] = Len(b) + 1 /\ p[l] \in 1..(Len(b) + 1) /\ p[l] > Len(b)
    BY <1>3, <1>4
  <2>. QED
    BY <2>1, <2>2, <2>3
<1>. DEFINE T == {k \in 0..l : from[p[l - k]] # SubSeq(R, l - k + 1, l)}
<1>11. T = {}
  <2>1. SUFFICES ASSUME T # {} PROVE FALSE
    OBVIOUS
  <2>2. PICK k \in T : \A j \in T : k <= j
    <3>1. T \in SUBSET Nat
      OBVIOUS
    <3>. HIDE DEF T
    <3>. QED
      BY <2>1, <3>1, NatMin
  <2>3. k \in 0..l /\ from[p[l - k]] # SubSeq(R, l - k + 1, l)
    OBVIOUS
  <2>4. k # 0
    <3>1. l - 0 = l
      BY <1>1
    <3>. QED
      BY <1>10, <2>3, <3>1
  <2>5. k - 1 \in 0..l /\ ~(k <= k - 1) /\ l - (k - 1) \in 1..l /\ (l - (k - 1)) - 1 = l - k
        /\ l - k + 1 = l - (k - 1)
    BY <1>1, <2>3, <2>4
  <2>6. k - 1 \notin T
    <3>. HIDE DEF T
    <3>. QED
      BY <2>2, <2>5
  <2>7. from[p[l - (k - 1)]] = SubSeq(R, l - (k - 1) + 1, l)
    BY <2>5, <2>6
  <2>. HIDE DEF T
  <2>8. from[p[(l - (k - 1)) - 1]] = SubSeq(R, l - (k - 1), l)
    BY <1>9, <2>5, <2>7
  <2>. QED
    BY <2>3, <2>5, <2>8
<1>12. from[1] = R
  <2>1. l \in 0..l /\ l - l = 0 /\ l - l + 1 = 1
    BY <1>1
  <2>2. from[p[l - l]] = SubSeq(R, l - l + 1, l)
    BY <1>11, <2>1
  <2>3. SubSeq(R, 1, l) = R
    BY <1>6, SuffixNext
  <2>. QED
    BY <1>4, <2>1, <2>2, <2>3
<1>13. Varints(b) = R
  BY <1>8, <1>12
<1>14. /\ Varints(b) \in Seq(X) /\ Len(Varints(b)) = l
       /\ \A n \in 1..l : Varints(b)[n].val = Signed(0, ws[n])
  BY <1>6, <1>7, <1>13
<1>. QED
  BY <1>14 DEF b, l, X

\* A message is not an error.
LEMMA MixWhole ==
    ASSUME NEW No, NEW M, NEW S, "unrecognized" \in DOMAIN No
    PROVE  Mix(No, M, S) # Error
<1>1. "unrecognized" \in DOMAIN Mix(No, M, S)
  BY DEF Mix
<1>2. "unrecognized" \notin DOMAIN Error
  BY DEF Error
<1>. QED
  BY <1>1, <1>2

\* A packed field of numbers, which of makes of what is read.
LEMMA NumbersTaken ==
    ASSUME NEW No, NEW M, NEW S, NEW f, NEW fields, NEW num, Ready(No, S, f, fields, num),
           NEW of, fields[num] = Numbers(f, of), No[f] = <<>>,
           NEW vs, NEW ws, AreVarints(vs, ws),
           M[f] \in Seq(Int), Len(M[f]) = Len(ws),
           \A n \in 1..Len(ws) : of[Signed(0, ws[n])] = M[f][n]
    PROVE  Took(fields, PackedField(num, vs), No, M, S, f)
<1>. DEFINE c == FlattenSeq(vs)
            l == Len(ws)
            m == Mix(No, M, S)
<1>1. /\ "unrecognized" \in DOMAIN No /\ f \in DOMAIN No /\ f \notin S
      /\ num \in 1..16 /\ num \in DOMAIN fields
  BY DEF Ready
<1>2. /\ l \in Nat /\ Len(vs) = l /\ Parts(vs, Bytes)
      /\ \A n \in 1..l : ws[n] \in Wide /\ vs[n] = Varint(ws[n])
  BY DEF AreVarints
<1>3. c \in Seq(Bytes)
  BY <1>2, FlattenTyped
<1>4. PackedField(num, vs) = IF c = <<>> THEN <<>> ELSE Delimited(num, c)
  BY DEF PackedField, BytesField
<1>5. CASE c = <<>>
  <2>1. l = 0
    <3>1. SUFFICES ASSUME l # 0 PROVE FALSE
      OBVIOUS
    <3>2. 1 \in 1..l
      BY <1>2, <3>1
    <3>3. Len(vs[1]) \in 1..10
      <4>1. ws[1] \in Int
        BY <1>2, <3>2 DEF Wide
      <4>. QED
        BY <1>2, <3>2, <4>1, VarintSized
    <3>4. 1 \in 1..Len(vs[1])
      BY <3>3
    <3>5. \E j \in 1..Len(c) : c[j] = vs[1][1]
      BY <1>2, <3>2, <3>4, FlattenHolds
    <3>6. Len(c) = 0
      BY <1>5
    <3>. HIDE DEF c
    <3>. QED
      BY <3>5, <3>6
  <2>2. M[f] = <<>>
    BY <2>1
  <2>3. Took(fields, <<>>, No, M, S, f)
    BY <2>2, LeftOut
  <2>. QED
    BY <1>4, <1>5, <2>3
<1>6. CASE c # <<>>
  <2>. DEFINE v == Varints(c)
  <2>1. /\ v \in Seq([val : Int, next : Nat \ {0}]) /\ Len(v) = l
        /\ \A n \in 1..l : v[n].val = Signed(0, ws[n])
    BY VarintsRead
  <2>. HIDE DEF c, v
  <2>2. DOMAIN v = 1..l /\ \A n \in 1..l : v[n].next # 0
    <3>. DEFINE X == [val : Int, next : Nat \ {0}]
    <3>1. v \in Seq(X)
      BY <2>1
    <3>2. \A x \in X : x.next # 0
      OBVIOUS
    <3>. HIDE DEF X, l
    <3>3. DOMAIN v = 1..Len(v) /\ \A n \in 1..Len(v) : v[n] \in X
      BY <3>1, SeqTyped
    <3>. QED
      BY <2>1, <3>2, <3>3
  <2>3. [n \in DOMAIN v |-> of[v[n].val]] = M[f]
    <3>. DEFINE s == M[f]
    <3>1. \A n \in 1..l : of[v[n].val] = s[n]
      BY <2>1
    <3>2. s \in Seq(Int) /\ Len(s) = l
      OBVIOUS
    <3>. HIDE DEF s, l
    <3>3. s = [n \in 1..l |-> s[n]]
      BY <3>2
    <3>4. [n \in DOMAIN v |-> of[v[n].val]] = s
      BY <2>2, <3>1, <3>3
    <3>. QED
      BY <3>4 DEF s
  <2>4. m[f] = <<>> /\ m # Error /\ [m EXCEPT ![f] = M[f]] = Mix(No, M, S \cup {f})
    <3>1. m[f] = <<>> /\ [m EXCEPT ![f] = M[f]] = Mix(No, M, S \cup {f})
      BY <1>1 DEF Mix
    <3>2. m # Error
      BY <1>1, MixWhole
    <3>. QED
      BY <3>1, <3>2
  <2>5. f \in DOMAIN m
    BY <1>1 DEF Mix
  <2>. HIDE DEF m
  <2>6. AddAll(m, f, v, of) = [m EXCEPT ![f] = M[f]]
    <3>1. <<>> \o M[f] = M[f]
      OBVIOUS
    <3>2. AddAll(m, f, v, of) = [m EXCEPT ![f] = m[f] \o [n \in DOMAIN v |-> of[v[n].val]]]
      BY <2>2, <2>5 DEF AddAll
    <3>. QED
      BY <2>3, <2>4, <3>1, <3>2
  <2>7. Makes(fields, num, 2, c, m, Mix(No, M, S \cup {f}))
    <3>. SUFFICES ASSUME NEW e, e.num = num, e.wire = 2, e.val = c
                  PROVE  Place(m, e, fields[num]) = Mix(No, M, S \cup {f})
      BY DEF Makes
    <3>1. Place(m, e, fields[num]) = AddNumbers(m, e, f, of)
      BY DEF Place, Numbers
    <3>2. AddNumbers(m, e, f, of) = AddAll(m, f, v, of)
      BY DEF AddNumbers, v
    <3>. QED
      BY <2>4, <2>6, <3>1, <3>2
  <2>8. Takes(fields, Delimited(num, c), m, Mix(No, M, S \cup {f}))
    BY <1>1, <1>3, <2>4, <2>7, DelimitedTaken
  <2>. QED
    BY <1>4, <1>6, <2>8 DEF Took, m
<1>. QED
  BY <1>5, <1>6

\* As they are, and in zigzag.
LEMMA PlainTaken ==
    ASSUME NEW No, NEW M, NEW S, NEW f, NEW fields, NEW num, Ready(No, S, f, fields, num),
           fields[num] = Numbers(f, Same), No[f] = <<>>, M[f] \in Seq(Int64)
    PROVE  Took(fields, PackedField(num, Each(M[f], Varint)), No, M, S, f)
<1>. DEFINE s == M[f]
            vs == Each(s, Varint)
<1>1. Len(s) \in Nat /\ DOMAIN s = 1..Len(s) /\ \A n \in 1..Len(s) : s[n] \in Int64
  BY SeqTyped
<1>2. s \in Seq(Wide) /\ s \in Seq(Int)
  <2>1. \A n \in 1..Len(s) : s[n] \in Wide
    BY <1>1, WideInt64
  <2>2. s = [n \in 1..Len(s) |-> s[n]]
    BY <1>1
  <2>3. Wide \subseteq Int
    BY DEF Wide
  <2>4. \A n \in 1..Len(s) : s[n] \in Int
    BY <2>1, <2>3
  <2>. HIDE DEF s
  <2>. QED
    BY <1>1, <2>1, <2>2, <2>4
<1>3. \A n \in 1..Len(s) : Same[Signed(0, s[n])] = s[n]
  BY <1>1, WideInt64, Int64Int DEF Same
<1>. HIDE DEF s
<1>4. AreVarints(vs, s)
  <2>1. vs = [n \in 1..Len(s) |-> Varint(s[n])]
    BY <1>1 DEF Each
  <2>2. \A n \in 1..Len(s) : Varint(s[n]) \in Seq(Bytes)
    BY <1>1, Int64Int, VarintSized
  <2>. HIDE DEF vs
  <2>3. vs \in Seq(Seq(Bytes)) /\ Len(vs) = Len(s)
    BY <1>1, <2>1, <2>2
  <2>. QED
    BY <1>2, <2>1, <2>3 DEF AreVarints, Parts
<1>. QED
  BY <1>2, <1>3, <1>4, NumbersTaken DEF s

LEMMA ZigzagsTaken ==
    ASSUME NEW No, NEW M, NEW S, NEW f, NEW fields, NEW num, Ready(No, S, f, fields, num),
           fields[num] = Numbers(f, Unzigzagged), No[f] = <<>>, M[f] \in Seq(Int64)
    PROVE  Took(fields, PackedField(num, Each(M[f], ZigzagVarint)), No, M, S, f)
<1>. DEFINE s == M[f]
            ws == [n \in 1..Len(s) |-> Zigzag(s[n])]
            vs == Each(s, ZigzagVarint)
<1>1. Len(s) \in Nat /\ DOMAIN s = 1..Len(s) /\ \A n \in 1..Len(s) : s[n] \in Int64
  BY SeqTyped
<1>2. \A n \in 1..Len(s) : Zigzag(s[n]) \in Wide /\ Unzigzagged[Signed(0, Zigzag(s[n]))] = s[n]
  BY <1>1, ZigzagIs
<1>. HIDE DEF s
<1>3. ws \in Seq(Wide) /\ Len(ws) = Len(s) /\ \A n \in 1..Len(s) : ws[n] = Zigzag(s[n])
  BY <1>1, <1>2
<1>4. s \in Seq(Int)
  BY Int64Int DEF s
<1>. HIDE DEF ws
<1>5. AreVarints(vs, ws)
  <2>1. vs = [n \in 1..Len(s) |-> Varint(ws[n])]
    BY <1>1, <1>3 DEF Each, ZigzagVarint
  <2>2. \A n \in 1..Len(s) : Varint(ws[n]) \in Seq(Bytes)
    <3>1. \A n \in 1..Len(s) : ws[n] \in Int
      BY <1>2, <1>3 DEF Wide
    <3>. QED
      BY <3>1, VarintSized
  <2>. HIDE DEF vs
  <2>3. vs \in Seq(Seq(Bytes)) /\ Len(vs) = Len(s)
    BY <1>1, <2>1, <2>2
  <2>. QED
    BY <1>3, <2>1, <2>3 DEF AreVarints, Parts
<1>6. \A n \in 1..Len(ws) : Unzigzagged[Signed(0, ws[n])] = s[n]
  BY <1>2, <1>3
<1>7. M[f] \in Seq(Int) /\ Len(M[f]) = Len(ws)
      /\ \A n \in 1..Len(ws) : Unzigzagged[Signed(0, ws[n])] = M[f][n]
  BY <1>3, <1>4, <1>6 DEF s
<1>. HIDE DEF vs
<1>8. Took(fields, PackedField(num, vs), No, M, S, f)
  BY <1>5, <1>7, NumbersTaken
<1>. QED
  BY <1>8 DEF s, vs

\* A packed field of floats, of eight bytes each.
LEMMA FloatsPlaced ==
    ASSUME NEW s \in Seq(Floats), NEW c, c = FlattenSeq(Each(s, Fixed64))
    PROVE  /\ c \in Seq(Bytes) /\ Len(c) = 8 * Len(s)
           /\ \A n \in 1..Len(s) : Float(SubSeq(c, 8 * n - 7, 8 * n)) = s[n]
<1>. DEFINE l == Len(s)
            vs == Each(s, Fixed64)
<1>1. l \in Nat /\ DOMAIN s = 1..l /\ \A n \in 1..l : s[n] \in Floats
  BY SeqTyped
<1>2. \A n \in 1..l : Fixed64(s[n]) \in Seq(Bytes) /\ Len(Fixed64(s[n])) = 8 /\ Float(Fixed64(s[n])) = s[n]
  BY <1>1, FloatBack
<1>. HIDE DEF l
<1>3. Parts(vs, Bytes) /\ Len(vs) = l /\ \A n \in 1..l : vs[n] = Fixed64(s[n])
  <2>1. vs = [n \in 1..l |-> Fixed64(s[n])]
    BY <1>1 DEF Each
  <2>. HIDE DEF vs
  <2>. QED
    BY <1>1, <1>2, <2>1 DEF Parts
<1>. HIDE DEF vs
<1>4. c \in Seq(Bytes) /\ c = FlattenSeq(vs)
  BY <1>3, FlattenTyped DEF vs
<1>5. Len(c) \in Nat /\ Stands(c, c, 1)
  BY <1>4, StandsWhole
<1>6. PICK p \in [0..l -> Nat \ {0}] :
        /\ p[0] = 1 /\ p[l] = 1 + Len(c)
        /\ \A n \in 1..l : p[n] = p[n - 1] + Len(vs[n]) /\ Stands(vs[n], c, p[n - 1])
  <2>1. Parts(vs, Bytes) /\ Stands(FlattenSeq(vs), c, 1) /\ 1 \in Nat \ {0}
    BY <1>3, <1>4, <1>5
  <2>2. \E p \in [0..Len(vs) -> Nat \ {0}] :
              /\ p[0] = 1 /\ p[Len(vs)] = 1 + Len(FlattenSeq(vs))
              /\ \A n \in 1..Len(vs) : p[n] = p[n - 1] + Len(vs[n]) /\ Stands(vs[n], c, p[n - 1])
    BY <1>4, <2>1, FlattenPlaces
  <2>. QED
    BY <1>3, <1>4, <2>2
<1>. DEFINE T == {n \in 0..l : p[n] # 8 * n + 1}
<1>7. T = {}
  <2>1. SUFFICES ASSUME T # {} PROVE FALSE
    OBVIOUS
  <2>2. PICK n \in T : \A j \in T : n <= j
    <3>1. T \in SUBSET Nat
      OBVIOUS
    <3>. HIDE DEF T
    <3>. QED
      BY <2>1, <3>1, NatMin
  <2>3. n \in 0..l /\ p[n] # 8 * n + 1
    OBVIOUS
  <2>4. n # 0
    BY <1>6, <2>3
  <2>5. n \in 1..l /\ n - 1 \in 0..l /\ ~(n <= n - 1)
    BY <1>1, <2>3, <2>4
  <2>6. n - 1 \notin T
    <3>. HIDE DEF T
    <3>. QED
      BY <2>2, <2>5
  <2>7. p[n - 1] = 8 * (n - 1) + 1
    BY <2>5, <2>6
  <2>8. p[n] = p[n - 1] + 8
    BY <1>2, <1>3, <1>6, <2>5
  <2>. HIDE DEF T
  <2>9. 8 * (n - 1) + 1 + 8 = 8 * n + 1
    BY <2>5
  <2>. QED
    BY <2>3, <2>7, <2>8, <2>9
<1>8. \A n \in 0..l : p[n] = 8 * n + 1
  BY <1>7
<1>. HIDE DEF T
<1>9. Len(c) = 8 * l
  <2>1. p[l] = 8 * l + 1
    BY <1>1, <1>8
  <2>. DEFINE k == Len(c)
  <2>2. k \in Nat /\ p[l] = 1 + k
    BY <1>5, <1>6
  <2>. HIDE DEF k
  <2>3. k = 8 * l
    BY <1>1, <2>1, <2>2
  <2>. QED
    BY <2>3 DEF k
<1>10. ASSUME NEW n \in 1..l
       PROVE  Float(SubSeq(c, 8 * n - 7, 8 * n)) = s[n]
  <2>1. n - 1 \in 0..l /\ 8 * (n - 1) + 1 = 8 * n - 7 /\ 8 * n - 7 + 8 - 1 = 8 * n /\ 8 * n - 7 \in Nat \ {0}
    BY <1>1
  <2>2. p[n - 1] = 8 * n - 7
    BY <1>8, <2>1
  <2>3. Stands(Fixed64(s[n]), c, 8 * n - 7)
    BY <1>3, <1>6, <2>2
  <2>4. SubSeq(c, 8 * n - 7, 8 * n - 7 + Len(Fixed64(s[n])) - 1) = Fixed64(s[n])
    BY <1>2, <1>4, <2>1, <2>3, StandsPart
  <2>5. SubSeq(c, 8 * n - 7, 8 * n) = Fixed64(s[n])
    BY <1>2, <2>1, <2>4
  <2>. QED
    BY <1>2, <2>5
<1>. QED
  BY <1>4, <1>9, <1>10 DEF l

LEMMA FloatsTaken ==
    ASSUME NEW No, NEW M, NEW S, NEW f, NEW fields, NEW num, Ready(No, S, f, fields, num),
           fields[num] = FloatsInto(f), No[f] = <<>>, M[f] \in Seq(Floats)
    PROVE  Took(fields, PackedField(num, Each(M[f], Fixed64)), No, M, S, f)
<1>. DEFINE s == M[f]
            c == FlattenSeq(Each(s, Fixed64))
            l == Len(s)
            m == Mix(No, M, S)
<1>1. /\ "unrecognized" \in DOMAIN No /\ f \in DOMAIN No /\ f \notin S
      /\ num \in 1..16 /\ num \in DOMAIN fields
  BY DEF Ready
<1>2. s \in Seq(Floats) /\ l \in Nat
  BY SeqTyped
<1>. HIDE DEF s
<1>3. c \in Seq(Bytes) /\ Len(c) = 8 * l /\ \A n \in 1..l : Float(SubSeq(c, 8 * n - 7, 8 * n)) = s[n]
  BY <1>2, FloatsPlaced
<1>4. PackedField(num, Each(M[f], Fixed64)) = IF c = <<>> THEN <<>> ELSE Delimited(num, c)
  BY DEF PackedField, BytesField, s
<1>5. CASE c = <<>>
  <2>1. Len(c) = 0
    BY <1>5
  <2>. HIDE DEF l, c
  <2>2. l = 0
    BY <1>2, <1>3, <2>1
  <2>3. s = <<>>
    BY <1>2, <2>2 DEF l
  <2>4. Took(fields, <<>>, No, M, S, f)
    BY <2>3, LeftOut DEF s
  <2>. QED
    BY <1>4, <1>5, <2>4
<1>6. CASE c # <<>>
  <2>. HIDE DEF l, c
  <2>1. Len(c) % 8 = 0 /\ Len(c) \div 8 = l
    BY <1>2, <1>3
  <2>2. [n \in 1..l |-> Float(SubSeq(c, 8 * n - 7, 8 * n))] = s
    <3>1. s = [n \in 1..l |-> s[n]]
      BY <1>2 DEF l
    <3>. QED
      BY <1>3, <3>1
  <2>3. m[f] = <<>> /\ [m EXCEPT ![f] = M[f]] = Mix(No, M, S \cup {f}) /\ f \in DOMAIN m
    BY <1>1 DEF Mix
  <2>4. m # Error
    BY <1>1, MixWhole
  <2>. HIDE DEF m
  <2>5. Makes(fields, num, 2, c, m, Mix(No, M, S \cup {f}))
    <3>. SUFFICES ASSUME NEW e, e.num = num, e.wire = 2, e.val = c
                  PROVE  Place(m, e, fields[num]) = Mix(No, M, S \cup {f})
      BY DEF Makes
    <3>1. Place(m, e, fields[num]) = AddFloats(m, e, f)
      BY DEF Place, FloatsInto
    <3>2. AddFloats(m, e, f) =
            [m EXCEPT ![f] = @ \o [n \in 1..(Len(c) \div 8) |-> Float(SubSeq(c, 8 * n - 7, 8 * n))]]
      BY <2>1 DEF AddFloats
    <3>3. AddFloats(m, e, f) = [m EXCEPT ![f] = @ \o s]
      BY <2>1, <2>2, <3>2
    <3>4. <<>> \o s = s
      BY <1>2
    <3>5. AddFloats(m, e, f) = [m EXCEPT ![f] = s]
      BY <2>3, <3>3, <3>4
    <3>. QED
      BY <2>3, <3>1, <3>5 DEF s
  <2>6. Takes(fields, Delimited(num, c), m, Mix(No, M, S \cup {f}))
    BY <1>1, <1>3, <2>4, <2>5, DelimitedTaken
  <2>. QED
    BY <1>4, <1>6, <2>6 DEF Took, m
<1>. QED
  BY <1>5, <1>6

-------------------------------------------------------------------------------
(* Messages in messages. *)

\* of makes x of the bytes b, as far as they can be read.
Back(of, b, x) == x # Error /\ (Len(b) \in Int64 => of[b] = x)

LEMMA MergedTaken ==
    ASSUME NEW No, NEW M, NEW S, NEW f, NEW fields, NEW num, Ready(No, S, f, fields, num),
           NEW of, fields[num] = Merged(f, of), NEW b \in Seq(Bytes),
           M[f] # Error, Len(b) \in Int64 => of[No[f]][b] = M[f]
    PROVE  Took(fields, Delimited(num, b), No, M, S, f)
<1>. DEFINE m == Mix(No, M, S)
<1>1. /\ "unrecognized" \in DOMAIN No /\ f \in DOMAIN No /\ f \notin S
      /\ num \in 1..16 /\ num \in DOMAIN fields
  BY DEF Ready
<1>2. m[f] = No[f] /\ [m EXCEPT ![f] = M[f]] = Mix(No, M, S \cup {f})
  BY <1>1 DEF Mix
<1>3. m # Error
  BY <1>1, MixWhole
<1>. HIDE DEF m
<1>4. Makes(fields, num, 2, b, m, Mix(No, M, S \cup {f}))
  <2>. SUFFICES ASSUME NEW e, e.num = num, e.wire = 2, e.val = b, Fits(2, b)
                PROVE  Place(m, e, fields[num]) = Mix(No, M, S \cup {f})
    BY DEF Makes
  <2>1. Place(m, e, fields[num]) = Put(m, f, of[m[f]][b])
    BY DEF Place, Merged
  <2>2. of[m[f]][b] = M[f]
    BY <1>2 DEF Fits
  <2>. QED
    BY <1>2, <2>1, <2>2 DEF Put
<1>. QED
  BY <1>1, <1>3, <1>4, DelimitedTaken DEF Took, m

LEMMA StringAdds ==
    ASSUME NEW f, NEW b
    PROVE  Adds(ManyStrings(f), f, b, b)
BY DEF Adds, Place, ManyStrings

LEMMA MessageAdds ==
    ASSUME NEW f, NEW of, NEW b, NEW x, Back(of, b, x)
    PROVE  Adds(Many(f, of), f, b, x)
BY DEF Adds, Place, Many, Add, Back, Fits

\* Repeated messages.
LEMMA ManyTaken ==
    ASSUME NEW No, NEW M, NEW S, NEW f, NEW fields, NEW num, Ready(No, S, f, fields, num),
           NEW of, fields[num] = Many(f, of), NEW X, M[f] \in Seq(X), No[f] = <<>>,
           NEW ms \in Seq(Seq(Bytes)), Len(ms) = Len(M[f]),
           \A k \in 1..Len(ms) : Back(of, ms[k], M[f][k])
    PROVE  Took(fields, RepeatedField(num, ms), No, M, S, f)
<1>1. \A k \in 1..Len(ms) : Adds(fields[num], f, ms[k], M[f][k])
  BY MessageAdds
<1>. QED
  BY <1>1, RepeatedTaken

\* Repeated strings.
LEMMA ManyStringsTaken ==
    ASSUME NEW No, NEW M, NEW S, NEW f, NEW fields, NEW num, Ready(No, S, f, fields, num),
           fields[num] = ManyStrings(f), M[f] \in Seq(Seq(Bytes)), No[f] = <<>>
    PROVE  Took(fields, RepeatedField(num, M[f]), No, M, S, f)
<1>1. \A k \in 1..Len(M[f]) : Adds(fields[num], f, M[f][k], M[f][k])
  BY StringAdds
<1>. QED
  BY <1>1, RepeatedTaken

-------------------------------------------------------------------------------
(* Whole messages. *)

\* c has what the loop needs to fill in the fields of S.
Done(fields, c, No, M, S) == Takes(fields, c, No, Mix(No, M, S))

\* No has the fields of a message, and M those and nothing unknown.
Messages(No, M) ==
    /\ "unrecognized" \in DOMAIN No /\ No = [f \in DOMAIN No |-> No[f]]
    /\ M = [f \in DOMAIN No |-> M[f]] /\ M["unrecognized"] = No["unrecognized"]

LEMMA DoneNext ==
    ASSUME NEW fields, NEW c, NEW No, NEW M, NEW S, Done(fields, c, No, M, S),
           NEW d, NEW f, Took(fields, d, No, M, S, f)
    PROVE  Done(fields, c \o d, No, M, S \cup {f})
BY TakesBoth DEF Done, Took

\* c is read as M, and that is all of it.
Whole(fields, c, No, M) ==
    /\ c \in Seq(Bytes) /\ c \o <<>> = c
    /\ M # Error
    /\ Len(c) \in Int64 => Decode(c, No, fields) = M

\* And nothing after it, when the message has nothing unknown.
LEMMA DoneAll ==
    ASSUME NEW fields, NEW c, NEW No, NEW M, NEW S, Done(fields, c, No, M, S),
           Messages(No, M), DOMAIN No = S \cup {"unrecognized"}
    PROVE  Whole(fields, c, No, M)
<1>1. Mix(No, M, S) = M
  BY DEF Mix, Messages
<1>2. Takes(fields, c, No, M)
  BY <1>1 DEF Done
<1>3. c \in Seq(Bytes)
  BY <1>2 DEF Takes
<1>4. Len(c) \in Int64 => Decode(c, No, fields) = M
  BY <1>2, DecodeTaken
<1>5. M # Error
  <2>1. Mix(No, M, S) # Error
    BY MixWhole DEF Messages
  <2>. QED
    BY <1>1, <2>1
<1>. QED
  BY <1>3, <1>4, <1>5 DEF Whole

-------------------------------------------------------------------------------
(* The messages that hold nothing unknown, and what Unmarshal makes of what    *)
(* Marshal writes of them.                                                     *)

PlainLabels == {m \in LabelMessages : m.unrecognized = <<>>}
PlainSamples == {m \in SampleMessages : m.unrecognized = <<>>}
PlainSpans == {m \in SpanMessages : m.unrecognized = <<>>}
PlainExemplars == {m \in ExemplarMessages(Int64) : m.unrecognized = <<>>}
PlainMetadata == {m \in MetadataMessages(Int64) : m.unrecognized = <<>>}

LEMMA DoneFirst ==
    ASSUME NEW fields, NEW d, NEW No, NEW M, NEW f, Messages(No, M),
           Took(fields, d, No, M, {}, f)
    PROVE  Done(fields, d, No, M, {f})
<1>1. Mix(No, M, {}) = No /\ {} \cup {f} = {f}
  BY DEF Mix, Messages
<1>. QED
  BY <1>1 DEF Done, Took

\* A label.
LEMMA LabelBack ==
    ASSUME NEW m \in PlainLabels
    PROVE  /\ LabelMarshal(m) \in Seq(Bytes) /\ m # Error
           /\ Len(LabelMarshal(m)) \in Int64 => LabelUnmarshal(LabelMarshal(m)) = m
<1>1. m \in LabelMessages /\ m.unrecognized = <<>>
  BY DEF PlainLabels
<1>2. Messages(NoLabel, m)
  BY <1>1 DEF Messages, NoLabel, LabelMessages, Payload
<1>3. Took(LabelFields, BytesField(1, m.Name), NoLabel, m, {}, "Name")
  <2>1. Ready(NoLabel, {}, "Name", LabelFields, 1) /\ LabelFields[1] = Single("Name", 2, Contents)
    BY DEF Ready, NoLabel, LabelFields
  <2>2. NoLabel["Name"] = <<>> /\ m["Name"] \in Seq(Bytes)
    BY <1>1 DEF NoLabel, LabelMessages, Payload
  <2>. QED
    BY <2>1, <2>2, BytesTaken
<1>4. Done(LabelFields, BytesField(1, m.Name), NoLabel, m, {"Name"})
  BY <1>2, <1>3, DoneFirst
<1>5. Took(LabelFields, BytesField(2, m.Value), NoLabel, m, {"Name"}, "Value")
  <2>1. Ready(NoLabel, {"Name"}, "Value", LabelFields, 2) /\ LabelFields[2] = Single("Value", 2, Contents)
    BY DEF Ready, NoLabel, LabelFields
  <2>2. NoLabel["Value"] = <<>> /\ m["Value"] \in Seq(Bytes)
    BY <1>1 DEF NoLabel, LabelMessages, Payload
  <2>. QED
    BY <2>1, <2>2, BytesTaken
<1>6. Done(LabelFields, BytesField(1, m.Name) \o BytesField(2, m.Value), NoLabel, m,
            {"Name"} \cup {"Value"})
  BY <1>4, <1>5, DoneNext
<1>. DEFINE c == BytesField(1, m.Name) \o BytesField(2, m.Value)
            r == {"Name"} \cup {"Value"}
<1>7. DOMAIN NoLabel = r \cup {"unrecognized"}
  BY DEF NoLabel
<1>8. Done(LabelFields, c, NoLabel, m, r)
  BY <1>6
<1>. HIDE DEF c, r
<1>9. Whole(LabelFields, c, NoLabel, m)
  BY <1>2, <1>7, <1>8, DoneAll
<1>10. LabelMarshal(m) = c
  BY <1>1, <1>9 DEF LabelMarshal, c, Whole
<1>. QED
  BY <1>9, <1>10 DEF LabelUnmarshal, Whole

\* A sample.
LEMMA SampleBack ==
    ASSUME NEW m \in PlainSamples
    PROVE  /\ SampleMarshal(m) \in Seq(Bytes) /\ m # Error
           /\ Len(SampleMarshal(m)) \in Int64 => SampleUnmarshal(SampleMarshal(m)) = m
<1>1. m \in SampleMessages /\ m.unrecognized = <<>>
  BY DEF PlainSamples
<1>2. Messages(NoSample, m)
  BY <1>1 DEF Messages, NoSample, SampleMessages
<1>3. Took(SampleFields, FloatField(1, m.Value), NoSample, m, {}, "Value")
  <2>1. Ready(NoSample, {}, "Value", SampleFields, 1) /\ SampleFields[1] = Single("Value", 1, Decoded)
    BY DEF Ready, NoSample, SampleFields
  <2>2. NoSample["Value"] = 0 /\ m["Value"] \in Floats
    BY <1>1 DEF NoSample, SampleMessages
  <2>. QED
    BY <2>1, <2>2, FloatTaken
<1>4. Done(SampleFields, FloatField(1, m.Value), NoSample, m, {"Value"})
  BY <1>2, <1>3, DoneFirst
<1>5. Took(SampleFields, VarintField(2, m.Timestamp), NoSample, m, {"Value"}, "Timestamp")
  <2>1. Ready(NoSample, {"Value"}, "Timestamp", SampleFields, 2) /\ SampleFields[2] = Single("Timestamp", 0, Same)
    BY DEF Ready, NoSample, SampleFields
  <2>2. NoSample["Timestamp"] = 0 /\ m["Timestamp"] \in Int64
    BY <1>1 DEF NoSample, SampleMessages
  <2>. QED
    BY <2>1, <2>2, NumberTaken
<1>6. Done(SampleFields, FloatField(1, m.Value) \o VarintField(2, m.Timestamp), NoSample, m,
            {"Value"} \cup {"Timestamp"})
  BY <1>4, <1>5, DoneNext
<1>. DEFINE c == FloatField(1, m.Value) \o VarintField(2, m.Timestamp)
            r == {"Value"} \cup {"Timestamp"}
<1>7. DOMAIN NoSample = r \cup {"unrecognized"}
  BY DEF NoSample
<1>8. Done(SampleFields, c, NoSample, m, r)
  BY <1>6
<1>. HIDE DEF c, r
<1>9. Whole(SampleFields, c, NoSample, m)
  BY <1>2, <1>7, <1>8, DoneAll
<1>10. SampleMarshal(m) = c
  BY <1>1, <1>9 DEF SampleMarshal, c, Whole
<1>. QED
  BY <1>9, <1>10 DEF SampleUnmarshal, Whole

\* A span.
LEMMA SpanBack ==
    ASSUME NEW m \in PlainSpans
    PROVE  /\ SpanMarshal(m) \in Seq(Bytes) /\ m # Error
           /\ Len(SpanMarshal(m)) \in Int64 => SpanUnmarshal(SpanMarshal(m)) = m
<1>1. m \in SpanMessages /\ m.unrecognized = <<>>
  BY DEF PlainSpans
<1>2. Messages(NoSpan, m)
  BY <1>1 DEF Messages, NoSpan, SpanMessages
<1>3. Took(SpanFields, VarintField(1, Zigzag(m.Offset)), NoSpan, m, {}, "Offset")
  <2>1. Ready(NoSpan, {}, "Offset", SpanFields, 1) /\ SpanFields[1] = Single("Offset", 0, Unzigzagged)
    BY DEF Ready, NoSpan, SpanFields
  <2>2. NoSpan["Offset"] = 0 /\ m["Offset"] \in Int64
    BY <1>1 DEF NoSpan, SpanMessages
  <2>. QED
    BY <2>1, <2>2, ZigzagTaken
<1>4. Done(SpanFields, VarintField(1, Zigzag(m.Offset)), NoSpan, m, {"Offset"})
  BY <1>2, <1>3, DoneFirst
<1>5. Took(SpanFields, VarintField(2, m.Length), NoSpan, m, {"Offset"}, "Length")
  <2>1. Ready(NoSpan, {"Offset"}, "Length", SpanFields, 2) /\ SpanFields[2] = Single("Length", 0, Same)
    BY DEF Ready, NoSpan, SpanFields
  <2>2. NoSpan["Length"] = 0 /\ m["Length"] \in Int64
    BY <1>1 DEF NoSpan, SpanMessages
  <2>. QED
    BY <2>1, <2>2, NumberTaken
<1>6. Done(SpanFields, VarintField(1, Zigzag(m.Offset)) \o VarintField(2, m.Length), NoSpan, m,
            {"Offset"} \cup {"Length"})
  BY <1>4, <1>5, DoneNext
<1>. DEFINE c == VarintField(1, Zigzag(m.Offset)) \o VarintField(2, m.Length)
            r == {"Offset"} \cup {"Length"}
<1>7. DOMAIN NoSpan = r \cup {"unrecognized"}
  BY DEF NoSpan
<1>8. Done(SpanFields, c, NoSpan, m, r)
  BY <1>6
<1>. HIDE DEF c, r
<1>9. Whole(SpanFields, c, NoSpan, m)
  BY <1>2, <1>7, <1>8, DoneAll
<1>10. SpanMarshal(m) = c
  BY <1>1, <1>9 DEF SpanMarshal, c, Whole
<1>. QED
  BY <1>9, <1>10 DEF SpanUnmarshal, Whole

\* An exemplar.
LEMMA ExemplarBack ==
    ASSUME NEW m \in PlainExemplars
    PROVE  /\ ExemplarMarshal(m) \in Seq(Bytes) /\ m # Error
           /\ Len(ExemplarMarshal(m)) \in Int64 => ExemplarUnmarshal(ExemplarMarshal(m)) = m
<1>1. m \in ExemplarMessages(Int64) /\ m.unrecognized = <<>>
  BY DEF PlainExemplars
<1>2. Messages(NoExemplar, m)
  BY <1>1 DEF Messages, NoExemplar, ExemplarMessages
<1>3. Took(ExemplarFields, PackedField(1, Each(m.LabelsRefs, Varint)), NoExemplar, m, {}, "LabelsRefs")
  <2>1. Ready(NoExemplar, {}, "LabelsRefs", ExemplarFields, 1) /\ ExemplarFields[1] = Numbers("LabelsRefs", Same)
    BY DEF Ready, NoExemplar, ExemplarFields
  <2>2. NoExemplar["LabelsRefs"] = <<>> /\ m["LabelsRefs"] \in Seq(Int64)
    BY <1>1 DEF NoExemplar, ExemplarMessages
  <2>. QED
    BY <2>1, <2>2, PlainTaken
<1>4. Done(ExemplarFields, PackedField(1, Each(m.LabelsRefs, Varint)), NoExemplar, m, {"LabelsRefs"})
  BY <1>2, <1>3, DoneFirst
<1>5. Took(ExemplarFields, FloatField(2, m.Value), NoExemplar, m, {"LabelsRefs"}, "Value")
  <2>1. Ready(NoExemplar, {"LabelsRefs"}, "Value", ExemplarFields, 2) /\ ExemplarFields[2] = Single("Value", 1, Decoded)
    BY DEF Ready, NoExemplar, ExemplarFields
  <2>2. NoExemplar["Value"] = 0 /\ m["Value"] \in Floats
    BY <1>1 DEF NoExemplar, ExemplarMessages
  <2>. QED
    BY <2>1, <2>2, FloatTaken
<1>6. Done(ExemplarFields, PackedField(1, Each(m.LabelsRefs, Varint)) \o FloatField(2, m.Value), NoExemplar, m,
            {"LabelsRefs"} \cup {"Value"})
  BY <1>4, <1>5, DoneNext
<1>7. Took(ExemplarFields, VarintField(3, m.Timestamp), NoExemplar, m, {"LabelsRefs"} \cup {"Value"}, "Timestamp")
  <2>1. Ready(NoExemplar, {"LabelsRefs"} \cup {"Value"}, "Timestamp", ExemplarFields, 3) /\ ExemplarFields[3] = Single("Timestamp", 0, Same)
    BY DEF Ready, NoExemplar, ExemplarFields
  <2>2. NoExemplar["Timestamp"] = 0 /\ m["Timestamp"] \in Int64
    BY <1>1 DEF NoExemplar, ExemplarMessages
  <2>. QED
    BY <2>1, <2>2, NumberTaken
<1>8. Done(ExemplarFields, PackedField(1, Each(m.LabelsRefs, Varint)) \o FloatField(2, m.Value) \o VarintField(3, m.Timestamp), NoExemplar, m,
            {"LabelsRefs"} \cup {"Value"} \cup {"Timestamp"})
  BY <1>6, <1>7, DoneNext
<1>. DEFINE c == PackedField(1, Each(m.LabelsRefs, Varint)) \o FloatField(2, m.Value) \o VarintField(3, m.Timestamp)
            r == {"LabelsRefs"} \cup {"Value"} \cup {"Timestamp"}
<1>9. DOMAIN NoExemplar = r \cup {"unrecognized"}
  BY DEF NoExemplar
<1>10. Done(ExemplarFields, c, NoExemplar, m, r)
  BY <1>8
<1>. HIDE DEF c, r
<1>11. Whole(ExemplarFields, c, NoExemplar, m)
  BY <1>2, <1>9, <1>10, DoneAll
<1>12. ExemplarMarshal(m) = c
  BY <1>1, <1>11 DEF ExemplarMarshal, c, Whole
<1>. QED
  BY <1>11, <1>12 DEF ExemplarUnmarshal, Whole

\* The metadata.
LEMMA MetadataBack ==
    ASSUME NEW m \in PlainMetadata
    PROVE  /\ MetadataMarshal(m) \in Seq(Bytes) /\ m # Error
           /\ Len(MetadataMarshal(m)) \in Int64 => MetadataUnmarshal(MetadataMarshal(m), NoMetadata) = m
<1>1. m \in MetadataMessages(Int64) /\ m.unrecognized = <<>>
  BY DEF PlainMetadata
<1>2. Messages(NoMetadata, m)
  BY <1>1 DEF Messages, NoMetadata, MetadataMessages
<1>3. Took(MetadataFields, VarintField(1, m.Type), NoMetadata, m, {}, "Type")
  <2>1. Ready(NoMetadata, {}, "Type", MetadataFields, 1) /\ MetadataFields[1] = Single("Type", 0, Same)
    BY DEF Ready, NoMetadata, MetadataFields
  <2>2. NoMetadata["Type"] = 0 /\ m["Type"] \in Int64
    BY <1>1 DEF NoMetadata, MetadataMessages
  <2>. QED
    BY <2>1, <2>2, NumberTaken
<1>4. Done(MetadataFields, VarintField(1, m.Type), NoMetadata, m, {"Type"})
  BY <1>2, <1>3, DoneFirst
<1>5. Took(MetadataFields, VarintField(3, m.HelpRef), NoMetadata, m, {"Type"}, "HelpRef")
  <2>1. Ready(NoMetadata, {"Type"}, "HelpRef", MetadataFields, 3) /\ MetadataFields[3] = Single("HelpRef", 0, Same)
    BY DEF Ready, NoMetadata, MetadataFields
  <2>2. NoMetadata["HelpRef"] = 0 /\ m["HelpRef"] \in Int64
    BY <1>1 DEF NoMetadata, MetadataMessages
  <2>. QED
    BY <2>1, <2>2, NumberTaken
<1>6. Done(MetadataFields, VarintField(1, m.Type) \o VarintField(3, m.HelpRef), NoMetadata, m,
            {"Type"} \cup {"HelpRef"})
  BY <1>4, <1>5, DoneNext
<1>7. Took(MetadataFields, VarintField(4, m.UnitRef), NoMetadata, m, {"Type"} \cup {"HelpRef"}, "UnitRef")
  <2>1. Ready(NoMetadata, {"Type"} \cup {"HelpRef"}, "UnitRef", MetadataFields, 4) /\ MetadataFields[4] = Single("UnitRef", 0, Same)
    BY DEF Ready, NoMetadata, MetadataFields
  <2>2. NoMetadata["UnitRef"] = 0 /\ m["UnitRef"] \in Int64
    BY <1>1 DEF NoMetadata, MetadataMessages
  <2>. QED
    BY <2>1, <2>2, NumberTaken
<1>8. Done(MetadataFields, VarintField(1, m.Type) \o VarintField(3, m.HelpRef) \o VarintField(4, m.UnitRef), NoMetadata, m,
            {"Type"} \cup {"HelpRef"} \cup {"UnitRef"})
  BY <1>6, <1>7, DoneNext
<1>. DEFINE c == VarintField(1, m.Type) \o VarintField(3, m.HelpRef) \o VarintField(4, m.UnitRef)
            r == {"Type"} \cup {"HelpRef"} \cup {"UnitRef"}
<1>9. DOMAIN NoMetadata = r \cup {"unrecognized"}
  BY DEF NoMetadata
<1>10. Done(MetadataFields, c, NoMetadata, m, r)
  BY <1>8
<1>. HIDE DEF c, r
<1>11. Whole(MetadataFields, c, NoMetadata, m)
  BY <1>2, <1>9, <1>10, DoneAll
<1>12. MetadataMarshal(m) = c
  BY <1>1, <1>11 DEF MetadataMarshal, c, Whole
<1>. QED
  BY <1>11, <1>12 DEF MetadataUnmarshal, Whole

PlainHistograms ==
    {m \in HistogramMessages :
        /\ m.NegativeSpans \in Seq(PlainSpans) /\ m.PositiveSpans \in Seq(PlainSpans)
        /\ m.unrecognized = <<>>}

\* b is bytes of which x is made.
Answers(of, b, x) == b \in Seq(Bytes) /\ Back(of, b, x)

\* A field of several messages, each of which can be read.
LEMMA EachTaken ==
    ASSUME NEW No, NEW M, NEW S, NEW f, NEW fields, NEW num, Ready(No, S, f, fields, num),
           NEW of, fields[num] = Many(f, of), NEW X, M[f] \in Seq(X), No[f] = <<>>,
           NEW ms, ms = [k \in 1..Len(M[f]) |-> ms[k]],
           \A k \in 1..Len(M[f]) : Answers(of, ms[k], M[f][k])
    PROVE  Took(fields, RepeatedField(num, ms), No, M, S, f)
<1>. DEFINE l == Len(M[f])
<1>1. l \in Nat
  OBVIOUS
<1>2. \A k \in 1..l : ms[k] \in Seq(Bytes) /\ Back(of, ms[k], M[f][k])
  BY DEF Answers
<1>. HIDE DEF l
<1>3. ms \in Seq(Seq(Bytes)) /\ Len(ms) = l
  BY <1>1, <1>2 DEF l
<1>. QED
  BY <1>2, <1>3, ManyTaken DEF l

LEMMA SpanAnswers ==
    ASSUME NEW m \in PlainSpans PROVE Answers(SpanOf, SpanMarshal(m), m)
<1>1. /\ SpanMarshal(m) \in Seq(Bytes) /\ m # Error
      /\ Len(SpanMarshal(m)) \in Int64 => SpanUnmarshal(SpanMarshal(m)) = m
  BY SpanBack
<1>. QED
  BY <1>1 DEF Answers, Back, SpanOf

\* The spans of a histogram.
LEMMA SpansTaken ==
    ASSUME NEW No, NEW M, NEW S, NEW f, NEW fields, NEW num, Ready(No, S, f, fields, num),
           fields[num] = Many(f, SpanOf), M[f] \in Seq(PlainSpans), No[f] = <<>>
    PROVE  Took(fields, RepeatedField(num, Each(M[f], SpanMarshal)), No, M, S, f)
<1>. DEFINE s == M[f]
            ms == Each(s, SpanMarshal)
<1>1. DOMAIN s = 1..Len(s) /\ \A k \in 1..Len(s) : s[k] \in PlainSpans
  BY SeqTyped
<1>2. ms = [k \in 1..Len(s) |-> ms[k]] /\ \A k \in 1..Len(s) : ms[k] = SpanMarshal(s[k])
  BY <1>1 DEF Each
<1>. HIDE DEF ms, s
<1>3. \A k \in 1..Len(s) : Answers(SpanOf, ms[k], s[k])
  BY <1>1, <1>2, SpanAnswers
<1>. QED
  BY <1>2, <1>3, EachTaken DEF ms, s

\* A histogram.
LEMMA HistogramBack ==
    ASSUME NEW m \in PlainHistograms
    PROVE  /\ HistogramMarshal(m) \in Seq(Bytes) /\ m # Error
           /\ Len(HistogramMarshal(m)) \in Int64 => HistogramUnmarshal(HistogramMarshal(m)) = m
<1>1. m \in HistogramMessages /\ m.unrecognized = <<>>
      /\ m.NegativeSpans \in Seq(PlainSpans) /\ m.PositiveSpans \in Seq(PlainSpans)
  BY DEF PlainHistograms
<1>2. Messages(NoHistogram, m)
  BY <1>1 DEF Messages, NoHistogram, HistogramMessages
<1>3. Took(HistogramFields, CountMarshal(m.Count, 1, 2), NoHistogram, m, {}, "Count")
  <2>1. Ready(NoHistogram, {}, "Count", HistogramFields, 1) /\ HistogramFields[1] = Single("Count", 0, IntOf)
    BY DEF Ready, NoHistogram, HistogramFields
  <2>3. Ready(NoHistogram, {}, "Count", HistogramFields, 2) /\ HistogramFields[2] = Single("Count", 1, FloatOf)
    BY DEF Ready, NoHistogram, HistogramFields
  <2>2. NoHistogram["Count"] = Nil /\ m["Count"] \in Counts
    BY <1>1 DEF NoHistogram, HistogramMessages
  <2>. QED
    BY <2>1, <2>2, <2>3, CountTaken
<1>4. Done(HistogramFields, CountMarshal(m.Count, 1, 2), NoHistogram, m, {"Count"})
  BY <1>2, <1>3, DoneFirst
<1>5. Took(HistogramFields, FloatField(3, m.Sum), NoHistogram, m, {"Count"}, "Sum")
  <2>1. Ready(NoHistogram, {"Count"}, "Sum", HistogramFields, 3) /\ HistogramFields[3] = Single("Sum", 1, Decoded)
    BY DEF Ready, NoHistogram, HistogramFields
  <2>2. NoHistogram["Sum"] = 0 /\ m["Sum"] \in Floats
    BY <1>1 DEF NoHistogram, HistogramMessages
  <2>. QED
    BY <2>1, <2>2, FloatTaken
<1>6. Done(HistogramFields, CountMarshal(m.Count, 1, 2) \o FloatField(3, m.Sum), NoHistogram, m,
            {"Count"} \cup {"Sum"})
  BY <1>4, <1>5, DoneNext
<1>7. Took(HistogramFields, VarintField(4, Zigzag(m.Schema)), NoHistogram, m, {"Count"} \cup {"Sum"}, "Schema")
  <2>1. Ready(NoHistogram, {"Count"} \cup {"Sum"}, "Schema", HistogramFields, 4) /\ HistogramFields[4] = Single("Schema", 0, Unzigzagged)
    BY DEF Ready, NoHistogram, HistogramFields
  <2>2. NoHistogram["Schema"] = 0 /\ m["Schema"] \in Int64
    BY <1>1 DEF NoHistogram, HistogramMessages
  <2>. QED
    BY <2>1, <2>2, ZigzagTaken
<1>8. Done(HistogramFields, CountMarshal(m.Count, 1, 2) \o FloatField(3, m.Sum) \o VarintField(4, Zigzag(m.Schema)), NoHistogram, m,
            {"Count"} \cup {"Sum"} \cup {"Schema"})
  BY <1>6, <1>7, DoneNext
<1>9. Took(HistogramFields, FloatField(5, m.ZeroThreshold), NoHistogram, m, {"Count"} \cup {"Sum"} \cup {"Schema"}, "ZeroThreshold")
  <2>1. Ready(NoHistogram, {"Count"} \cup {"Sum"} \cup {"Schema"}, "ZeroThreshold", HistogramFields, 5) /\ HistogramFields[5] = Single("ZeroThreshold", 1, Decoded)
    BY DEF Ready, NoHistogram, HistogramFields
  <2>2. NoHistogram["ZeroThreshold"] = 0 /\ m["ZeroThreshold"] \in Floats
    BY <1>1 DEF NoHistogram, HistogramMessages
  <2>. QED
    BY <2>1, <2>2, FloatTaken
<1>10. Done(HistogramFields, CountMarshal(m.Count, 1, 2) \o FloatField(3, m.Sum) \o VarintField(4, Zigzag(m.Schema)) \o FloatField(5, m.ZeroThreshold), NoHistogram, m,
            {"Count"} \cup {"Sum"} \cup {"Schema"} \cup {"ZeroThreshold"})
  BY <1>8, <1>9, DoneNext
<1>11. Took(HistogramFields, CountMarshal(m.ZeroCount, 6, 7), NoHistogram, m, {"Count"} \cup {"Sum"} \cup {"Schema"} \cup {"ZeroThreshold"}, "ZeroCount")
  <2>1. Ready(NoHistogram, {"Count"} \cup {"Sum"} \cup {"Schema"} \cup {"ZeroThreshold"}, "ZeroCount", HistogramFields, 6) /\ HistogramFields[6] = Single("ZeroCount", 0, IntOf)
    BY DEF Ready, NoHistogram, HistogramFields
  <2>3. Ready(NoHistogram, {"Count"} \cup {"Sum"} \cup {"Schema"} \cup {"ZeroThreshold"}, "ZeroCount", HistogramFields, 7) /\ HistogramFields[7] = Single("ZeroCount", 1, FloatOf)
    BY DEF Ready, NoHistogram, HistogramFields
  <2>2. NoHistogram["ZeroCount"] = Nil /\ m["ZeroCount"] \in Counts
    BY <1>1 DEF NoHistogram, HistogramMessages
  <2>. QED
    BY <2>1, <2>2, <2>3, CountTaken
<1>12. Done(HistogramFields, CountMarshal(m.Count, 1, 2) \o FloatField(3, m.Sum) \o VarintField(4, Zigzag(m.Schema)) \o FloatField(5, m.ZeroThreshold) \o CountMarshal(m.ZeroCount, 6, 7), NoHistogram, m,
            {"Count"} \cup {"Sum"} \cup {"Schema"} \cup {"ZeroThreshold"} \cup {"ZeroCount"})
  BY <1>10, <1>11, DoneNext
<1>13. Took(HistogramFields, RepeatedField(8, Each(m.NegativeSpans, SpanMarshal)), NoHistogram, m, {"Count"} \cup {"Sum"} \cup {"Schema"} \cup {"ZeroThreshold"} \cup {"ZeroCount"}, "NegativeSpans")
  <2>1. Ready(NoHistogram, {"Count"} \cup {"Sum"} \cup {"Schema"} \cup {"ZeroThreshold"} \cup {"ZeroCount"}, "NegativeSpans", HistogramFields, 8) /\ HistogramFields[8] = Many("NegativeSpans", SpanOf)
    BY DEF Ready, NoHistogram, HistogramFields
  <2>2. NoHistogram["NegativeSpans"] = <<>> /\ m["NegativeSpans"] \in Seq(PlainSpans)
    BY <1>1 DEF NoHistogram, HistogramMessages
  <2>. QED
    BY <2>1, <2>2, SpansTaken
<1>14. Done(HistogramFields, CountMarshal(m.Count, 1, 2) \o FloatField(3, m.Sum) \o VarintField(4, Zigzag(m.Schema)) \o FloatField(5, m.ZeroThreshold) \o CountMarshal(m.ZeroCount, 6, 7) \o RepeatedField(8, Each(m.NegativeSpans, SpanMarshal)), NoHistogram, m,
            {"Count"} \cup {"Sum"} \cup {"Schema"} \cup {"ZeroThreshold"} \cup {"ZeroCount"} \cup {"NegativeSpans"})
  BY <1>12, <1>13, DoneNext
<1>15. Took(HistogramFields, PackedField(9, Each(m.NegativeDeltas, ZigzagVarint)), NoHistogram, m, {"Count"} \cup {"Sum"} \cup {"Schema"} \cup {"ZeroThreshold"} \cup {"ZeroCount"} \cup {"NegativeSpans"}, "NegativeDeltas")
  <2>1. Ready(NoHistogram, {"Count"} \cup {"Sum"} \cup {"Schema"} \cup {"ZeroThreshold"} \cup {"ZeroCount"} \cup {"NegativeSpans"}, "NegativeDeltas", HistogramFields, 9) /\ HistogramFields[9] = Numbers("NegativeDeltas", Unzigzagged)
    BY DEF Ready, NoHistogram, HistogramFields
  <2>2. NoHistogram["NegativeDeltas"] = <<>> /\ m["NegativeDeltas"] \in Seq(Int64)
    BY <1>1 DEF NoHistogram, HistogramMessages
  <2>. QED
    BY <2>1, <2>2, ZigzagsTaken
<1>16. Done(HistogramFields, CountMarshal(m.Count, 1, 2) \o FloatField(3, m.Sum) \o VarintField(4, Zigzag(m.Schema)) \o FloatField(5, m.ZeroThreshold) \o CountMarshal(m.ZeroCount, 6, 7) \o RepeatedField(8, Each(m.NegativeSpans, SpanMarshal)) \o PackedField(9, Each(m.NegativeDeltas, ZigzagVarint)), NoHistogram, m,
            {"Count"} \cup {"Sum"} \cup {"Schema"} \cup {"ZeroThreshold"} \cup {"ZeroCount"} \cup {"NegativeSpans"} \cup {"NegativeDeltas"})
  BY <1>14, <1>15, DoneNext
<1>17. Took(HistogramFields, PackedField(10, Each(m.NegativeCounts, Fixed64)), NoHistogram, m, {"Count"} \cup {"Sum"} \cup {"Schema"} \cup {"ZeroThreshold"} \cup {"ZeroCount"} \cup {"NegativeSpans"} \cup {"NegativeDeltas"}, "NegativeCounts")
  <2>1. Ready(NoHistogram, {"Count"} \cup {"Sum"} \cup {"Schema"} \cup {"ZeroThreshold"} \cup {"ZeroCount"} \cup {"NegativeSpans"} \cup {"NegativeDeltas"}, "NegativeCounts", HistogramFields, 10) /\ HistogramFields[10] = FloatsInto("NegativeCounts")
    BY DEF Ready, NoHistogram, HistogramFields
  <2>2. NoHistogram["NegativeCounts"] = <<>> /\ m["NegativeCounts"] \in Seq(Floats)
    BY <1>1 DEF NoHistogram, HistogramMessages
  <2>. QED
    BY <2>1, <2>2, FloatsTaken
<1>18. Done(HistogramFields, CountMarshal(m.Count, 1, 2) \o FloatField(3, m.Sum) \o VarintField(4, Zigzag(m.Schema)) \o FloatField(5, m.ZeroThreshold) \o CountMarshal(m.ZeroCount, 6, 7) \o RepeatedField(8, Each(m.NegativeSpans, SpanMarshal)) \o PackedField(9, Each(m.NegativeDeltas, ZigzagVarint)) \o PackedField(10, Each(m.NegativeCounts, Fixed64)), NoHistogram, m,
            {"Count"} \cup {"Sum"} \cup {"Schema"} \cup {"ZeroThreshold"} \cup {"ZeroCount"} \cup {"NegativeSpans"} \cup {"NegativeDeltas"} \cup {"NegativeCounts"})
  BY <1>16, <1>17, DoneNext
<1>19. Took(HistogramFields, RepeatedField(11, Each(m.PositiveSpans, SpanMarshal)), NoHistogram, m, {"Count"} \cup {"Sum"} \cup {"Schema"} \cup {"ZeroThreshold"} \cup {"ZeroCount"} \cup {"NegativeSpans"} \cup {"NegativeDeltas"} \cup {"NegativeCounts"}, "PositiveSpans")
  <2>1. Ready(NoHistogram, {"Count"} \cup {"Sum"} \cup {"Schema"} \cup {"ZeroThreshold"} \cup {"ZeroCount"} \cup {"NegativeSpans"} \cup {"NegativeDeltas"} \cup {"NegativeCounts"}, "PositiveSpans", HistogramFields, 11) /\ HistogramFields[11] = Many("PositiveSpans", SpanOf)
    BY DEF Ready, NoHistogram, HistogramFields
  <2>2. NoHistogram["PositiveSpans"] = <<>> /\ m["PositiveSpans"] \in Seq(PlainSpans)
    BY <1>1 DEF NoHistogram, HistogramMessages
  <2>. QED
    BY <2>1, <2>2, SpansTaken
<1>20. Done(HistogramFields, CountMarshal(m.Count, 1, 2) \o FloatField(3, m.Sum) \o VarintField(4, Zigzag(m.Schema)) \o FloatField(5, m.ZeroThreshold) \o CountMarshal(m.ZeroCount, 6, 7) \o RepeatedField(8, Each(m.NegativeSpans, SpanMarshal)) \o PackedField(9, Each(m.NegativeDeltas, ZigzagVarint)) \o PackedField(10, Each(m.NegativeCounts, Fixed64)) \o RepeatedField(11, Each(m.PositiveSpans, SpanMarshal)), NoHistogram, m,
            {"Count"} \cup {"Sum"} \cup {"Schema"} \cup {"ZeroThreshold"} \cup {"ZeroCount"} \cup {"NegativeSpans"} \cup {"NegativeDeltas"} \cup {"NegativeCounts"} \cup {"PositiveSpans"})
  BY <1>18, <1>19, DoneNext
<1>21. Took(HistogramFields, PackedField(12, Each(m.PositiveDeltas, ZigzagVarint)), NoHistogram, m, {"Count"} \cup {"Sum"} \cup {"Schema"} \cup {"ZeroThreshold"} \cup {"ZeroCount"} \cup {"NegativeSpans"} \cup {"NegativeDeltas"} \cup {"NegativeCounts"} \cup {"PositiveSpans"}, "PositiveDeltas")
  <2>1. Ready(NoHistogram, {"Count"} \cup {"Sum"} \cup {"Schema"} \cup {"ZeroThreshold"} \cup {"ZeroCount"} \cup {"NegativeSpans"} \cup {"NegativeDeltas"} \cup {"NegativeCounts"} \cup {"PositiveSpans"}, "PositiveDeltas", HistogramFields, 12) /\ HistogramFields[12] = Numbers("PositiveDeltas", Unzigzagged)
    BY DEF Ready, NoHistogram, HistogramFields
  <2>2. NoHistogram["PositiveDeltas"] = <<>> /\ m["PositiveDeltas"] \in Seq(Int64)
    BY <1>1 DEF NoHistogram, HistogramMessages
  <2>. QED
    BY <2>1, <2>2, ZigzagsTaken
<1>22. Done(HistogramFields, CountMarshal(m.Count, 1, 2) \o FloatField(3, m.Sum) \o VarintField(4, Zigzag(m.Schema)) \o FloatField(5, m.ZeroThreshold) \o CountMarshal(m.ZeroCount, 6, 7) \o RepeatedField(8, Each(m.NegativeSpans, SpanMarshal)) \o PackedField(9, Each(m.NegativeDeltas, ZigzagVarint)) \o PackedField(10, Each(m.NegativeCounts, Fixed64)) \o RepeatedField(11, Each(m.PositiveSpans, SpanMarshal)) \o PackedField(12, Each(m.PositiveDeltas, ZigzagVarint)), NoHistogram, m,
            {"Count"} \cup {"Sum"} \cup {"Schema"} \cup {"ZeroThreshold"} \cup {"ZeroCount"} \cup {"NegativeSpans"} \cup {"NegativeDeltas"} \cup {"NegativeCounts"} \cup {"PositiveSpans"} \cup {"PositiveDeltas"})
  BY <1>20, <1>21, DoneNext
<1>23. Took(HistogramFields, PackedField(13, Each(m.PositiveCounts, Fixed64)), NoHistogram, m, {"Count"} \cup {"Sum"} \cup {"Schema"} \cup {"ZeroThreshold"} \cup {"ZeroCount"} \cup {"NegativeSpans"} \cup {"NegativeDeltas"} \cup {"NegativeCounts"} \cup {"PositiveSpans"} \cup {"PositiveDeltas"}, "PositiveCounts")
  <2>1. Ready(NoHistogram, {"Count"} \cup {"Sum"} \cup {"Schema"} \cup {"ZeroThreshold"} \cup {"ZeroCount"} \cup {"NegativeSpans"} \cup {"NegativeDeltas"} \cup {"NegativeCounts"} \cup {"PositiveSpans"} \cup {"PositiveDeltas"}, "PositiveCounts", HistogramFields, 13) /\ HistogramFields[13] = FloatsInto("PositiveCounts")
    BY DEF Ready, NoHistogram, HistogramFields
  <2>2. NoHistogram["PositiveCounts"] = <<>> /\ m["PositiveCounts"] \in Seq(Floats)
    BY <1>1 DEF NoHistogram, HistogramMessages
  <2>. QED
    BY <2>1, <2>2, FloatsTaken
<1>24. Done(HistogramFields, CountMarshal(m.Count, 1, 2) \o FloatField(3, m.Sum) \o VarintField(4, Zigzag(m.Schema)) \o FloatField(5, m.ZeroThreshold) \o CountMarshal(m.ZeroCount, 6, 7) \o RepeatedField(8, Each(m.NegativeSpans, SpanMarshal)) \o PackedField(9, Each(m.NegativeDeltas, ZigzagVarint)) \o PackedField(10, Each(m.NegativeCounts, Fixed64)) \o RepeatedField(11, Each(m.PositiveSpans, SpanMarshal)) \o PackedField(12, Each(m.PositiveDeltas, ZigzagVarint)) \o PackedField(13, Each(m.PositiveCounts, Fixed64)), NoHistogram, m,
            {"Count"} \cup {"Sum"} \cup {"Schema"} \cup {"ZeroThreshold"} \cup {"ZeroCount"} \cup {"NegativeSpans"} \cup {"NegativeDeltas"} \cup {"NegativeCounts"} \cup {"PositiveSpans"} \cup {"PositiveDeltas"} \cup {"PositiveCounts"})
  BY <1>22, <1>23, DoneNext
<1>25. Took(HistogramFields, VarintField(14, m.ResetHint), NoHistogram, m, {"Count"} \cup {"Sum"} \cup {"Schema"} \cup {"ZeroThreshold"} \cup {"ZeroCount"} \cup {"NegativeSpans"} \cup {"NegativeDeltas"} \cup {"NegativeCounts"} \cup {"PositiveSpans"} \cup {"PositiveDeltas"} \cup {"PositiveCounts"}, "ResetHint")
  <2>1. Ready(NoHistogram, {"Count"} \cup {"Sum"} \cup {"Schema"} \cup {"ZeroThreshold"} \cup {"ZeroCount"} \cup {"NegativeSpans"} \cup {"NegativeDeltas"} \cup {"NegativeCounts"} \cup {"PositiveSpans"} \cup {"PositiveDeltas"} \cup {"PositiveCounts"}, "ResetHint", HistogramFields, 14) /\ HistogramFields[14] = Single("ResetHint", 0, Same)
    BY DEF Ready, NoHistogram, HistogramFields
  <2>2. NoHistogram["ResetHint"] = 0 /\ m["ResetHint"] \in Int64
    BY <1>1 DEF NoHistogram, HistogramMessages
  <2>. QED
    BY <2>1, <2>2, NumberTaken
<1>26. Done(HistogramFields, CountMarshal(m.Count, 1, 2) \o FloatField(3, m.Sum) \o VarintField(4, Zigzag(m.Schema)) \o FloatField(5, m.ZeroThreshold) \o CountMarshal(m.ZeroCount, 6, 7) \o RepeatedField(8, Each(m.NegativeSpans, SpanMarshal)) \o PackedField(9, Each(m.NegativeDeltas, ZigzagVarint)) \o PackedField(10, Each(m.NegativeCounts, Fixed64)) \o RepeatedField(11, Each(m.PositiveSpans, SpanMarshal)) \o PackedField(12, Each(m.PositiveDeltas, ZigzagVarint)) \o PackedField(13, Each(m.PositiveCounts, Fixed64)) \o VarintField(14, m.ResetHint), NoHistogram, m,
            {"Count"} \cup {"Sum"} \cup {"Schema"} \cup {"ZeroThreshold"} \cup {"ZeroCount"} \cup {"NegativeSpans"} \cup {"NegativeDeltas"} \cup {"NegativeCounts"} \cup {"PositiveSpans"} \cup {"PositiveDeltas"} \cup {"PositiveCounts"} \cup {"ResetHint"})
  BY <1>24, <1>25, DoneNext
<1>27. Took(HistogramFields, VarintField(15, m.Timestamp), NoHistogram, m, {"Count"} \cup {"Sum"} \cup {"Schema"} \cup {"ZeroThreshold"} \cup {"ZeroCount"} \cup {"NegativeSpans"} \cup {"NegativeDeltas"} \cup {"NegativeCounts"} \cup {"PositiveSpans"} \cup {"PositiveDeltas"} \cup {"PositiveCounts"} \cup {"ResetHint"}, "Timestamp")
  <2>1. Ready(NoHistogram, {"Count"} \cup {"Sum"} \cup {"Schema"} \cup {"ZeroThreshold"} \cup {"ZeroCount"} \cup {"NegativeSpans"} \cup {"NegativeDeltas"} \cup {"NegativeCounts"} \cup {"PositiveSpans"} \cup {"PositiveDeltas"} \cup {"PositiveCounts"} \cup {"ResetHint"}, "Timestamp", HistogramFields, 15) /\ HistogramFields[15] = Single("Timestamp", 0, Same)
    BY DEF Ready, NoHistogram, HistogramFields
  <2>2. NoHistogram["Timestamp"] = 0 /\ m["Timestamp"] \in Int64
    BY <1>1 DEF NoHistogram, HistogramMessages
  <2>. QED
    BY <2>1, <2>2, NumberTaken
<1>28. Done(HistogramFields, CountMarshal(m.Count, 1, 2) \o FloatField(3, m.Sum) \o VarintField(4, Zigzag(m.Schema)) \o FloatField(5, m.ZeroThreshold) \o CountMarshal(m.ZeroCount, 6, 7) \o RepeatedField(8, Each(m.NegativeSpans, SpanMarshal)) \o PackedField(9, Each(m.NegativeDeltas, ZigzagVarint)) \o PackedField(10, Each(m.NegativeCounts, Fixed64)) \o RepeatedField(11, Each(m.PositiveSpans, SpanMarshal)) \o PackedField(12, Each(m.PositiveDeltas, ZigzagVarint)) \o PackedField(13, Each(m.PositiveCounts, Fixed64)) \o VarintField(14, m.ResetHint) \o VarintField(15, m.Timestamp), NoHistogram, m,
            {"Count"} \cup {"Sum"} \cup {"Schema"} \cup {"ZeroThreshold"} \cup {"ZeroCount"} \cup {"NegativeSpans"} \cup {"NegativeDeltas"} \cup {"NegativeCounts"} \cup {"PositiveSpans"} \cup {"PositiveDeltas"} \cup {"PositiveCounts"} \cup {"ResetHint"} \cup {"Timestamp"})
  BY <1>26, <1>27, DoneNext
<1>29. Took(HistogramFields, PackedField(16, Each(m.CustomValues, Fixed64)), NoHistogram, m, {"Count"} \cup {"Sum"} \cup {"Schema"} \cup {"ZeroThreshold"} \cup {"ZeroCount"} \cup {"NegativeSpans"} \cup {"NegativeDeltas"} \cup {"NegativeCounts"} \cup {"PositiveSpans"} \cup {"PositiveDeltas"} \cup {"PositiveCounts"} \cup {"ResetHint"} \cup {"Timestamp"}, "CustomValues")
  <2>1. Ready(NoHistogram, {"Count"} \cup {"Sum"} \cup {"Schema"} \cup {"ZeroThreshold"} \cup {"ZeroCount"} \cup {"NegativeSpans"} \cup {"NegativeDeltas"} \cup {"NegativeCounts"} \cup {"PositiveSpans"} \cup {"PositiveDeltas"} \cup {"PositiveCounts"} \cup {"ResetHint"} \cup {"Timestamp"}, "CustomValues", HistogramFields, 16) /\ HistogramFields[16] = FloatsInto("CustomValues")
    BY DEF Ready, NoHistogram, HistogramFields
  <2>2. NoHistogram["CustomValues"] = <<>> /\ m["CustomValues"] \in Seq(Floats)
    BY <1>1 DEF NoHistogram, HistogramMessages
  <2>. QED
    BY <2>1, <2>2, FloatsTaken
<1>30. Done(HistogramFields, CountMarshal(m.Count, 1, 2) \o FloatField(3, m.Sum) \o VarintField(4, Zigzag(m.Schema)) \o FloatField(5, m.ZeroThreshold) \o CountMarshal(m.ZeroCount, 6, 7) \o RepeatedField(8, Each(m.NegativeSpans, SpanMarshal)) \o PackedField(9, Each(m.NegativeDeltas, ZigzagVarint)) \o PackedField(10, Each(m.NegativeCounts, Fixed64)) \o RepeatedField(11, Each(m.PositiveSpans, SpanMarshal)) \o PackedField(12, Each(m.PositiveDeltas, ZigzagVarint)) \o PackedField(13, Each(m.PositiveCounts, Fixed64)) \o VarintField(14, m.ResetHint) \o VarintField(15, m.Timestamp) \o PackedField(16, Each(m.CustomValues, Fixed64)), NoHistogram, m,
            {"Count"} \cup {"Sum"} \cup {"Schema"} \cup {"ZeroThreshold"} \cup {"ZeroCount"} \cup {"NegativeSpans"} \cup {"NegativeDeltas"} \cup {"NegativeCounts"} \cup {"PositiveSpans"} \cup {"PositiveDeltas"} \cup {"PositiveCounts"} \cup {"ResetHint"} \cup {"Timestamp"} \cup {"CustomValues"})
  BY <1>28, <1>29, DoneNext
<1>. DEFINE c == CountMarshal(m.Count, 1, 2) \o FloatField(3, m.Sum) \o VarintField(4, Zigzag(m.Schema)) \o FloatField(5, m.ZeroThreshold) \o CountMarshal(m.ZeroCount, 6, 7) \o RepeatedField(8, Each(m.NegativeSpans, SpanMarshal)) \o PackedField(9, Each(m.NegativeDeltas, ZigzagVarint)) \o PackedField(10, Each(m.NegativeCounts, Fixed64)) \o RepeatedField(11, Each(m.PositiveSpans, SpanMarshal)) \o PackedField(12, Each(m.PositiveDeltas, ZigzagVarint)) \o PackedField(13, Each(m.PositiveCounts, Fixed64)) \o VarintField(14, m.ResetHint) \o VarintField(15, m.Timestamp) \o PackedField(16, Each(m.CustomValues, Fixed64))
            r == {"Count"} \cup {"Sum"} \cup {"Schema"} \cup {"ZeroThreshold"} \cup {"ZeroCount"} \cup {"NegativeSpans"} \cup {"NegativeDeltas"} \cup {"NegativeCounts"} \cup {"PositiveSpans"} \cup {"PositiveDeltas"} \cup {"PositiveCounts"} \cup {"ResetHint"} \cup {"Timestamp"} \cup {"CustomValues"}
<1>31. DOMAIN NoHistogram = r \cup {"unrecognized"}
  BY DEF NoHistogram
<1>32. Done(HistogramFields, c, NoHistogram, m, r)
  BY <1>30
<1>. HIDE DEF c, r
<1>33. Whole(HistogramFields, c, NoHistogram, m)
  BY <1>2, <1>31, <1>32, DoneAll
<1>34. HistogramMarshal(m) = c
  BY <1>1, <1>33 DEF HistogramMarshal, c, Whole
<1>. QED
  BY <1>33, <1>34 DEF HistogramUnmarshal, Whole

\* A series and a request of messages that hold nothing unknown.
PlainSeries ==
    {m \in SeriesMessages(Int64) :
        /\ m.Samples \in Seq(PlainSamples) /\ m.Histograms \in Seq(PlainHistograms)
        /\ m.Exemplars \in Seq(PlainExemplars) /\ m.Metadata \in PlainMetadata
        /\ m.Labels \in Seq(PlainLabels) /\ m.unrecognized = <<>>}

PlainRequests ==
    {m \in RequestMessages(Int64) :
        m.Timeseries \in Seq(PlainSeries) /\ m.unrecognized = <<>>}

\* What the cases of a series make of its messages.
SampleOf == [b \in Seq(Bytes) |-> SampleUnmarshal(b)]
HistogramOf == [b \in Seq(Bytes) |-> HistogramUnmarshal(b)]
ExemplarOf == [b \in Seq(Bytes) |-> ExemplarUnmarshal(b)]
LabelOf == [b \in Seq(Bytes) |-> LabelUnmarshal(b)]
MetadataInto == [into \in Metadatas |-> [b \in Seq(Bytes) |-> MetadataUnmarshal(b, into)]]

LEMMA SamplesTaken ==
    ASSUME NEW No, NEW M, NEW S, NEW f, NEW fields, NEW num, Ready(No, S, f, fields, num),
           fields[num] = Many(f, SampleOf), M[f] \in Seq(PlainSamples), No[f] = <<>>
    PROVE  Took(fields, RepeatedField(num, Each(M[f], SampleMarshal)), No, M, S, f)
<1>. DEFINE s == M[f]
            ms == Each(s, SampleMarshal)
<1>1. DOMAIN s = 1..Len(s) /\ \A k \in 1..Len(s) : s[k] \in PlainSamples
  BY SeqTyped
<1>2. ms = [k \in 1..Len(s) |-> ms[k]] /\ \A k \in 1..Len(s) : ms[k] = SampleMarshal(s[k])
  BY <1>1 DEF Each
<1>. HIDE DEF ms, s
<1>3. \A k \in 1..Len(s) : Answers(SampleOf, ms[k], s[k])
  <2>. SUFFICES ASSUME NEW m \in PlainSamples PROVE Answers(SampleOf, SampleMarshal(m), m)
    BY <1>1, <1>2
  <2>1. /\ SampleMarshal(m) \in Seq(Bytes) /\ m # Error
        /\ Len(SampleMarshal(m)) \in Int64 => SampleUnmarshal(SampleMarshal(m)) = m
    BY SampleBack
  <2>. QED
    BY <2>1 DEF Answers, Back, SampleOf
<1>. QED
  BY <1>2, <1>3, EachTaken DEF ms, s

LEMMA HistogramsTaken ==
    ASSUME NEW No, NEW M, NEW S, NEW f, NEW fields, NEW num, Ready(No, S, f, fields, num),
           fields[num] = Many(f, HistogramOf), M[f] \in Seq(PlainHistograms), No[f] = <<>>
    PROVE  Took(fields, RepeatedField(num, Each(M[f], HistogramMarshal)), No, M, S, f)
<1>. DEFINE s == M[f]
            ms == Each(s, HistogramMarshal)
<1>1. DOMAIN s = 1..Len(s) /\ \A k \in 1..Len(s) : s[k] \in PlainHistograms
  BY SeqTyped
<1>2. ms = [k \in 1..Len(s) |-> ms[k]] /\ \A k \in 1..Len(s) : ms[k] = HistogramMarshal(s[k])
  BY <1>1 DEF Each
<1>. HIDE DEF ms, s
<1>3. \A k \in 1..Len(s) : Answers(HistogramOf, ms[k], s[k])
  <2>. SUFFICES ASSUME NEW m \in PlainHistograms PROVE Answers(HistogramOf, HistogramMarshal(m), m)
    BY <1>1, <1>2
  <2>1. /\ HistogramMarshal(m) \in Seq(Bytes) /\ m # Error
        /\ Len(HistogramMarshal(m)) \in Int64 => HistogramUnmarshal(HistogramMarshal(m)) = m
    BY HistogramBack
  <2>. QED
    BY <2>1 DEF Answers, Back, HistogramOf
<1>. QED
  BY <1>2, <1>3, EachTaken DEF ms, s

LEMMA ExemplarsTaken ==
    ASSUME NEW No, NEW M, NEW S, NEW f, NEW fields, NEW num, Ready(No, S, f, fields, num),
           fields[num] = Many(f, ExemplarOf), M[f] \in Seq(PlainExemplars), No[f] = <<>>
    PROVE  Took(fields, RepeatedField(num, Each(M[f], ExemplarMarshal)), No, M, S, f)
<1>. DEFINE s == M[f]
            ms == Each(s, ExemplarMarshal)
<1>1. DOMAIN s = 1..Len(s) /\ \A k \in 1..Len(s) : s[k] \in PlainExemplars
  BY SeqTyped
<1>2. ms = [k \in 1..Len(s) |-> ms[k]] /\ \A k \in 1..Len(s) : ms[k] = ExemplarMarshal(s[k])
  BY <1>1 DEF Each
<1>. HIDE DEF ms, s
<1>3. \A k \in 1..Len(s) : Answers(ExemplarOf, ms[k], s[k])
  <2>. SUFFICES ASSUME NEW m \in PlainExemplars PROVE Answers(ExemplarOf, ExemplarMarshal(m), m)
    BY <1>1, <1>2
  <2>1. /\ ExemplarMarshal(m) \in Seq(Bytes) /\ m # Error
        /\ Len(ExemplarMarshal(m)) \in Int64 => ExemplarUnmarshal(ExemplarMarshal(m)) = m
    BY ExemplarBack
  <2>. QED
    BY <2>1 DEF Answers, Back, ExemplarOf
<1>. QED
  BY <1>2, <1>3, EachTaken DEF ms, s

LEMMA LabelsTaken ==
    ASSUME NEW No, NEW M, NEW S, NEW f, NEW fields, NEW num, Ready(No, S, f, fields, num),
           fields[num] = Many(f, LabelOf), M[f] \in Seq(PlainLabels), No[f] = <<>>
    PROVE  Took(fields, RepeatedField(num, Each(M[f], LabelMarshal)), No, M, S, f)
<1>. DEFINE s == M[f]
            ms == Each(s, LabelMarshal)
<1>1. DOMAIN s = 1..Len(s) /\ \A k \in 1..Len(s) : s[k] \in PlainLabels
  BY SeqTyped
<1>2. ms = [k \in 1..Len(s) |-> ms[k]] /\ \A k \in 1..Len(s) : ms[k] = LabelMarshal(s[k])
  BY <1>1 DEF Each
<1>. HIDE DEF ms, s
<1>3. \A k \in 1..Len(s) : Answers(LabelOf, ms[k], s[k])
  <2>. SUFFICES ASSUME NEW m \in PlainLabels PROVE Answers(LabelOf, LabelMarshal(m), m)
    BY <1>1, <1>2
  <2>1. /\ LabelMarshal(m) \in Seq(Bytes) /\ m # Error
        /\ Len(LabelMarshal(m)) \in Int64 => LabelUnmarshal(LabelMarshal(m)) = m
    BY LabelBack
  <2>. QED
    BY <2>1 DEF Answers, Back, LabelOf
<1>. QED
  BY <1>2, <1>3, EachTaken DEF ms, s

LEMMA MetadataTaken ==
    ASSUME NEW No, NEW M, NEW S, NEW f, NEW fields, NEW num, Ready(No, S, f, fields, num),
           fields[num] = Merged(f, MetadataInto), M[f] \in PlainMetadata, No[f] = NoMetadata
    PROVE  Took(fields, Delimited(num, MetadataMarshal(M[f])), No, M, S, f)
<1>. DEFINE m == M[f]
            b == MetadataMarshal(m)
<1>1. /\ b \in Seq(Bytes) /\ m # Error
      /\ Len(b) \in Int64 => MetadataUnmarshal(b, NoMetadata) = m
  BY MetadataBack
<1>2. NoMetadata \in Metadatas
  BY DEF NoMetadata, Metadatas
<1>. HIDE DEF b, m
<1>3. Len(b) \in Int64 => MetadataInto[No[f]][b] = m
  BY <1>1, <1>2 DEF MetadataInto
<1>. QED
  BY <1>1, <1>3, MergedTaken DEF b, m

\* What custom.go writes of the references is what types.pb.go does.
LEMMA RefsWhole ==
    ASSUME NEW s \in Seq(Int)
    PROVE  RefsInPlace(s) = PackedField(1, Each(s, Varint))
<1>. DEFINE vs == Each(s, Varint)
            b == FlattenSeq(vs)
<1>1. Len(s) \in Nat /\ DOMAIN s = 1..Len(s) /\ \A k \in 1..Len(s) : s[k] \in Int
  BY SeqTyped
<1>2. Parts(vs, Bytes)
  <2>1. vs = [k \in 1..Len(s) |-> Varint(s[k])]
    BY <1>1 DEF Each
  <2>2. \A k \in 1..Len(s) : Varint(s[k]) \in Seq(Bytes)
    BY <1>1, VarintSized
  <2>. HIDE DEF vs
  <2>. QED
    BY <1>1, <2>1, <2>2 DEF Parts
<1>3. b \in Seq(Bytes)
  BY <1>2, FlattenTyped
<1>. HIDE DEF vs, b
<1>4. Reverse(Reverse(b)) = b
  BY <1>3, ReversedTwice
<1>. QED
  BY <1>4 DEF RefsInPlace, PackedField, vs, b

\* A field that was never written.
LEMMA DoneLeft ==
    ASSUME NEW fields, NEW c, NEW No, NEW M, NEW S, Done(fields, c, No, M, S),
           NEW f \in DOMAIN No, M[f] = No[f]
    PROVE  Done(fields, c, No, M, S \cup {f})
<1>1. Mix(No, M, S) = Mix(No, M, S \cup {f})
  BY DEF Mix
<1>. QED
  BY <1>1 DEF Done

\* A series.
LEMMA TimeSeriesBack ==
    ASSUME NEW m \in PlainSeries
    PROVE  /\ TimeSeriesMarshal(m) \in Seq(Bytes) /\ m # Error
           /\ Len(TimeSeriesMarshal(m)) \in Int64 => TimeSeriesUnmarshal(TimeSeriesMarshal(m)) = m
<1>1. m \in SeriesMessages(Int64) /\ m.unrecognized = <<>>
      /\ m.Samples \in Seq(PlainSamples) /\ m.Histograms \in Seq(PlainHistograms)
      /\ m.Exemplars \in Seq(PlainExemplars) /\ m.Metadata \in PlainMetadata
      /\ m.Labels \in Seq(PlainLabels)
  BY DEF PlainSeries
<1>2. Messages(NoSeries, m)
  BY <1>1 DEF Messages, NoSeries, SeriesMessages
<1>3. Took(TimeSeriesFields, PackedField(1, Each(m.LabelsRefs, Varint)), NoSeries, m, {}, "LabelsRefs")
  <2>1. Ready(NoSeries, {}, "LabelsRefs", TimeSeriesFields, 1) /\ TimeSeriesFields[1] = Numbers("LabelsRefs", Same)
    BY DEF Ready, NoSeries, TimeSeriesFields, SampleOf, HistogramOf,
           ExemplarOf, LabelOf, MetadataInto
  <2>2. NoSeries["LabelsRefs"] = <<>> /\ m["LabelsRefs"] \in Seq(Int64)
    BY <1>1 DEF NoSeries, SeriesMessages
  <2>. QED
    BY <2>1, <2>2, PlainTaken
<1>4. Done(TimeSeriesFields, PackedField(1, Each(m.LabelsRefs, Varint)), NoSeries, m, {"LabelsRefs"})
  BY <1>2, <1>3, DoneFirst
<1>5. Took(TimeSeriesFields, RepeatedField(2, Each(m.Samples, SampleMarshal)), NoSeries, m, {"LabelsRefs"}, "Samples")
  <2>1. Ready(NoSeries, {"LabelsRefs"}, "Samples", TimeSeriesFields, 2) /\ TimeSeriesFields[2] = Many("Samples", SampleOf)
    BY DEF Ready, NoSeries, TimeSeriesFields, SampleOf, HistogramOf,
           ExemplarOf, LabelOf, MetadataInto
  <2>2. NoSeries["Samples"] = <<>> /\ m["Samples"] \in Seq(PlainSamples)
    BY <1>1 DEF NoSeries, SeriesMessages
  <2>. QED
    BY <2>1, <2>2, SamplesTaken
<1>6. Done(TimeSeriesFields, PackedField(1, Each(m.LabelsRefs, Varint)) \o RepeatedField(2, Each(m.Samples, SampleMarshal)), NoSeries, m,
            {"LabelsRefs"} \cup {"Samples"})
  BY <1>4, <1>5, DoneNext
<1>7. Took(TimeSeriesFields, RepeatedField(3, Each(m.Histograms, HistogramMarshal)), NoSeries, m, {"LabelsRefs"} \cup {"Samples"}, "Histograms")
  <2>1. Ready(NoSeries, {"LabelsRefs"} \cup {"Samples"}, "Histograms", TimeSeriesFields, 3) /\ TimeSeriesFields[3] = Many("Histograms", HistogramOf)
    BY DEF Ready, NoSeries, TimeSeriesFields, SampleOf, HistogramOf,
           ExemplarOf, LabelOf, MetadataInto
  <2>2. NoSeries["Histograms"] = <<>> /\ m["Histograms"] \in Seq(PlainHistograms)
    BY <1>1 DEF NoSeries, SeriesMessages
  <2>. QED
    BY <2>1, <2>2, HistogramsTaken
<1>8. Done(TimeSeriesFields, PackedField(1, Each(m.LabelsRefs, Varint)) \o RepeatedField(2, Each(m.Samples, SampleMarshal)) \o RepeatedField(3, Each(m.Histograms, HistogramMarshal)), NoSeries, m,
            {"LabelsRefs"} \cup {"Samples"} \cup {"Histograms"})
  BY <1>6, <1>7, DoneNext
<1>9. Took(TimeSeriesFields, RepeatedField(4, Each(m.Exemplars, ExemplarMarshal)), NoSeries, m, {"LabelsRefs"} \cup {"Samples"} \cup {"Histograms"}, "Exemplars")
  <2>1. Ready(NoSeries, {"LabelsRefs"} \cup {"Samples"} \cup {"Histograms"}, "Exemplars", TimeSeriesFields, 4) /\ TimeSeriesFields[4] = Many("Exemplars", ExemplarOf)
    BY DEF Ready, NoSeries, TimeSeriesFields, SampleOf, HistogramOf,
           ExemplarOf, LabelOf, MetadataInto
  <2>2. NoSeries["Exemplars"] = <<>> /\ m["Exemplars"] \in Seq(PlainExemplars)
    BY <1>1 DEF NoSeries, SeriesMessages
  <2>. QED
    BY <2>1, <2>2, ExemplarsTaken
<1>10. Done(TimeSeriesFields, PackedField(1, Each(m.LabelsRefs, Varint)) \o RepeatedField(2, Each(m.Samples, SampleMarshal)) \o RepeatedField(3, Each(m.Histograms, HistogramMarshal)) \o RepeatedField(4, Each(m.Exemplars, ExemplarMarshal)), NoSeries, m,
            {"LabelsRefs"} \cup {"Samples"} \cup {"Histograms"} \cup {"Exemplars"})
  BY <1>8, <1>9, DoneNext
<1>11. Took(TimeSeriesFields, Delimited(5, MetadataMarshal(m.Metadata)), NoSeries, m, {"LabelsRefs"} \cup {"Samples"} \cup {"Histograms"} \cup {"Exemplars"}, "Metadata")
  <2>1. Ready(NoSeries, {"LabelsRefs"} \cup {"Samples"} \cup {"Histograms"} \cup {"Exemplars"}, "Metadata", TimeSeriesFields, 5) /\ TimeSeriesFields[5] = Merged("Metadata", MetadataInto)
    BY DEF Ready, NoSeries, TimeSeriesFields, SampleOf, HistogramOf,
           ExemplarOf, LabelOf, MetadataInto
  <2>2. NoSeries["Metadata"] = NoMetadata /\ m["Metadata"] \in PlainMetadata
    BY <1>1 DEF NoSeries, SeriesMessages
  <2>. QED
    BY <2>1, <2>2, MetadataTaken
<1>12. Done(TimeSeriesFields, PackedField(1, Each(m.LabelsRefs, Varint)) \o RepeatedField(2, Each(m.Samples, SampleMarshal)) \o RepeatedField(3, Each(m.Histograms, HistogramMarshal)) \o RepeatedField(4, Each(m.Exemplars, ExemplarMarshal)) \o Delimited(5, MetadataMarshal(m.Metadata)), NoSeries, m,
            {"LabelsRefs"} \cup {"Samples"} \cup {"Histograms"} \cup {"Exemplars"} \cup {"Metadata"})
  BY <1>10, <1>11, DoneNext
<1>13. Took(TimeSeriesFields, VarintField(6, m.CreatedTimestamp), NoSeries, m, {"LabelsRefs"} \cup {"Samples"} \cup {"Histograms"} \cup {"Exemplars"} \cup {"Metadata"}, "CreatedTimestamp")
  <2>1. Ready(NoSeries, {"LabelsRefs"} \cup {"Samples"} \cup {"Histograms"} \cup {"Exemplars"} \cup {"Metadata"}, "CreatedTimestamp", TimeSeriesFields, 6) /\ TimeSeriesFields[6] = Single("CreatedTimestamp", 0, Same)
    BY DEF Ready, NoSeries, TimeSeriesFields, SampleOf, HistogramOf,
           ExemplarOf, LabelOf, MetadataInto
  <2>2. NoSeries["CreatedTimestamp"] = 0 /\ m["CreatedTimestamp"] \in Int64
    BY <1>1 DEF NoSeries, SeriesMessages
  <2>. QED
    BY <2>1, <2>2, NumberTaken
<1>14. Done(TimeSeriesFields, PackedField(1, Each(m.LabelsRefs, Varint)) \o RepeatedField(2, Each(m.Samples, SampleMarshal)) \o RepeatedField(3, Each(m.Histograms, HistogramMarshal)) \o RepeatedField(4, Each(m.Exemplars, ExemplarMarshal)) \o Delimited(5, MetadataMarshal(m.Metadata)) \o VarintField(6, m.CreatedTimestamp), NoSeries, m,
            {"LabelsRefs"} \cup {"Samples"} \cup {"Histograms"} \cup {"Exemplars"} \cup {"Metadata"} \cup {"CreatedTimestamp"})
  BY <1>12, <1>13, DoneNext
<1>15. Took(TimeSeriesFields, RepeatedField(7, Each(m.Labels, LabelMarshal)), NoSeries, m, {"LabelsRefs"} \cup {"Samples"} \cup {"Histograms"} \cup {"Exemplars"} \cup {"Metadata"} \cup {"CreatedTimestamp"}, "Labels")
  <2>1. Ready(NoSeries, {"LabelsRefs"} \cup {"Samples"} \cup {"Histograms"} \cup {"Exemplars"} \cup {"Metadata"} \cup {"CreatedTimestamp"}, "Labels", TimeSeriesFields, 7) /\ TimeSeriesFields[7] = Many("Labels", LabelOf)
    BY DEF Ready, NoSeries, TimeSeriesFields, SampleOf, HistogramOf,
           ExemplarOf, LabelOf, MetadataInto
  <2>2. NoSeries["Labels"] = <<>> /\ m["Labels"] \in Seq(PlainLabels)
    BY <1>1 DEF NoSeries, SeriesMessages
  <2>. QED
    BY <2>1, <2>2, LabelsTaken
<1>16. Done(TimeSeriesFields, PackedField(1, Each(m.LabelsRefs, Varint)) \o RepeatedField(2, Each(m.Samples, SampleMarshal)) \o RepeatedField(3, Each(m.Histograms, HistogramMarshal)) \o RepeatedField(4, Each(m.Exemplars, ExemplarMarshal)) \o Delimited(5, MetadataMarshal(m.Metadata)) \o VarintField(6, m.CreatedTimestamp) \o RepeatedField(7, Each(m.Labels, LabelMarshal)), NoSeries, m,
            {"LabelsRefs"} \cup {"Samples"} \cup {"Histograms"} \cup {"Exemplars"} \cup {"Metadata"} \cup {"CreatedTimestamp"} \cup {"Labels"})
  BY <1>14, <1>15, DoneNext
<1>. DEFINE c == PackedField(1, Each(m.LabelsRefs, Varint)) \o RepeatedField(2, Each(m.Samples, SampleMarshal)) \o RepeatedField(3, Each(m.Histograms, HistogramMarshal)) \o RepeatedField(4, Each(m.Exemplars, ExemplarMarshal)) \o Delimited(5, MetadataMarshal(m.Metadata)) \o VarintField(6, m.CreatedTimestamp) \o RepeatedField(7, Each(m.Labels, LabelMarshal))
            r == {"LabelsRefs"} \cup {"Samples"} \cup {"Histograms"} \cup {"Exemplars"} \cup {"Metadata"} \cup {"CreatedTimestamp"} \cup {"Labels"}
<1>17. DOMAIN NoSeries = r \cup {"unrecognized"}
  BY DEF NoSeries
<1>18. Done(TimeSeriesFields, c, NoSeries, m, r)
  BY <1>16
<1>. HIDE DEF c, r
<1>19. Whole(TimeSeriesFields, c, NoSeries, m)
  BY <1>2, <1>17, <1>18, DoneAll
<1>20. TimeSeriesMarshal(m) = c
  BY <1>1, <1>19 DEF TimeSeriesMarshal, c, Whole
<1>. QED
  BY <1>19, <1>20 DEF TimeSeriesUnmarshal, Whole

\* A series that OptimizedMarshal writes, which leaves the field Labels out.
LEMMA OptimizedSeriesBack ==
    ASSUME NEW m \in PlainSeries, m.Labels = <<>>
    PROVE  /\ OptimizedSeriesMarshal(m) \in Seq(Bytes) /\ m # Error
           /\ Len(OptimizedSeriesMarshal(m)) \in Int64 => TimeSeriesUnmarshal(OptimizedSeriesMarshal(m)) = m
<1>1. m \in SeriesMessages(Int64) /\ m.unrecognized = <<>>
      /\ m.Samples \in Seq(PlainSamples) /\ m.Histograms \in Seq(PlainHistograms)
      /\ m.Exemplars \in Seq(PlainExemplars) /\ m.Metadata \in PlainMetadata
      /\ m.Labels \in Seq(PlainLabels)
  BY DEF PlainSeries
<1>2. Messages(NoSeries, m)
  BY <1>1 DEF Messages, NoSeries, SeriesMessages
<1>3. Took(TimeSeriesFields, PackedField(1, Each(m.LabelsRefs, Varint)), NoSeries, m, {}, "LabelsRefs")
  <2>1. Ready(NoSeries, {}, "LabelsRefs", TimeSeriesFields, 1) /\ TimeSeriesFields[1] = Numbers("LabelsRefs", Same)
    BY DEF Ready, NoSeries, TimeSeriesFields, SampleOf, HistogramOf,
           ExemplarOf, LabelOf, MetadataInto
  <2>2. NoSeries["LabelsRefs"] = <<>> /\ m["LabelsRefs"] \in Seq(Int64)
    BY <1>1 DEF NoSeries, SeriesMessages
  <2>. QED
    BY <2>1, <2>2, PlainTaken
<1>4. Done(TimeSeriesFields, PackedField(1, Each(m.LabelsRefs, Varint)), NoSeries, m, {"LabelsRefs"})
  BY <1>2, <1>3, DoneFirst
<1>5. Took(TimeSeriesFields, RepeatedField(2, Each(m.Samples, SampleMarshal)), NoSeries, m, {"LabelsRefs"}, "Samples")
  <2>1. Ready(NoSeries, {"LabelsRefs"}, "Samples", TimeSeriesFields, 2) /\ TimeSeriesFields[2] = Many("Samples", SampleOf)
    BY DEF Ready, NoSeries, TimeSeriesFields, SampleOf, HistogramOf,
           ExemplarOf, LabelOf, MetadataInto
  <2>2. NoSeries["Samples"] = <<>> /\ m["Samples"] \in Seq(PlainSamples)
    BY <1>1 DEF NoSeries, SeriesMessages
  <2>. QED
    BY <2>1, <2>2, SamplesTaken
<1>6. Done(TimeSeriesFields, PackedField(1, Each(m.LabelsRefs, Varint)) \o RepeatedField(2, Each(m.Samples, SampleMarshal)), NoSeries, m,
            {"LabelsRefs"} \cup {"Samples"})
  BY <1>4, <1>5, DoneNext
<1>7. Took(TimeSeriesFields, RepeatedField(4, Each(m.Exemplars, ExemplarMarshal)), NoSeries, m, {"LabelsRefs"} \cup {"Samples"}, "Exemplars")
  <2>1. Ready(NoSeries, {"LabelsRefs"} \cup {"Samples"}, "Exemplars", TimeSeriesFields, 4) /\ TimeSeriesFields[4] = Many("Exemplars", ExemplarOf)
    BY DEF Ready, NoSeries, TimeSeriesFields, SampleOf, HistogramOf,
           ExemplarOf, LabelOf, MetadataInto
  <2>2. NoSeries["Exemplars"] = <<>> /\ m["Exemplars"] \in Seq(PlainExemplars)
    BY <1>1 DEF NoSeries, SeriesMessages
  <2>. QED
    BY <2>1, <2>2, ExemplarsTaken
<1>8. Done(TimeSeriesFields, PackedField(1, Each(m.LabelsRefs, Varint)) \o RepeatedField(2, Each(m.Samples, SampleMarshal)) \o RepeatedField(4, Each(m.Exemplars, ExemplarMarshal)), NoSeries, m,
            {"LabelsRefs"} \cup {"Samples"} \cup {"Exemplars"})
  BY <1>6, <1>7, DoneNext
<1>9. Took(TimeSeriesFields, RepeatedField(3, Each(m.Histograms, HistogramMarshal)), NoSeries, m, {"LabelsRefs"} \cup {"Samples"} \cup {"Exemplars"}, "Histograms")
  <2>1. Ready(NoSeries, {"LabelsRefs"} \cup {"Samples"} \cup {"Exemplars"}, "Histograms", TimeSeriesFields, 3) /\ TimeSeriesFields[3] = Many("Histograms", HistogramOf)
    BY DEF Ready, NoSeries, TimeSeriesFields, SampleOf, HistogramOf,
           ExemplarOf, LabelOf, MetadataInto
  <2>2. NoSeries["Histograms"] = <<>> /\ m["Histograms"] \in Seq(PlainHistograms)
    BY <1>1 DEF NoSeries, SeriesMessages
  <2>. QED
    BY <2>1, <2>2, HistogramsTaken
<1>10. Done(TimeSeriesFields, PackedField(1, Each(m.LabelsRefs, Varint)) \o RepeatedField(2, Each(m.Samples, SampleMarshal)) \o RepeatedField(4, Each(m.Exemplars, ExemplarMarshal)) \o RepeatedField(3, Each(m.Histograms, HistogramMarshal)), NoSeries, m,
            {"LabelsRefs"} \cup {"Samples"} \cup {"Exemplars"} \cup {"Histograms"})
  BY <1>8, <1>9, DoneNext
<1>11. Took(TimeSeriesFields, Delimited(5, MetadataMarshal(m.Metadata)), NoSeries, m, {"LabelsRefs"} \cup {"Samples"} \cup {"Exemplars"} \cup {"Histograms"}, "Metadata")
  <2>1. Ready(NoSeries, {"LabelsRefs"} \cup {"Samples"} \cup {"Exemplars"} \cup {"Histograms"}, "Metadata", TimeSeriesFields, 5) /\ TimeSeriesFields[5] = Merged("Metadata", MetadataInto)
    BY DEF Ready, NoSeries, TimeSeriesFields, SampleOf, HistogramOf,
           ExemplarOf, LabelOf, MetadataInto
  <2>2. NoSeries["Metadata"] = NoMetadata /\ m["Metadata"] \in PlainMetadata
    BY <1>1 DEF NoSeries, SeriesMessages
  <2>. QED
    BY <2>1, <2>2, MetadataTaken
<1>12. Done(TimeSeriesFields, PackedField(1, Each(m.LabelsRefs, Varint)) \o RepeatedField(2, Each(m.Samples, SampleMarshal)) \o RepeatedField(4, Each(m.Exemplars, ExemplarMarshal)) \o RepeatedField(3, Each(m.Histograms, HistogramMarshal)) \o Delimited(5, MetadataMarshal(m.Metadata)), NoSeries, m,
            {"LabelsRefs"} \cup {"Samples"} \cup {"Exemplars"} \cup {"Histograms"} \cup {"Metadata"})
  BY <1>10, <1>11, DoneNext
<1>13. Took(TimeSeriesFields, VarintField(6, m.CreatedTimestamp), NoSeries, m, {"LabelsRefs"} \cup {"Samples"} \cup {"Exemplars"} \cup {"Histograms"} \cup {"Metadata"}, "CreatedTimestamp")
  <2>1. Ready(NoSeries, {"LabelsRefs"} \cup {"Samples"} \cup {"Exemplars"} \cup {"Histograms"} \cup {"Metadata"}, "CreatedTimestamp", TimeSeriesFields, 6) /\ TimeSeriesFields[6] = Single("CreatedTimestamp", 0, Same)
    BY DEF Ready, NoSeries, TimeSeriesFields, SampleOf, HistogramOf,
           ExemplarOf, LabelOf, MetadataInto
  <2>2. NoSeries["CreatedTimestamp"] = 0 /\ m["CreatedTimestamp"] \in Int64
    BY <1>1 DEF NoSeries, SeriesMessages
  <2>. QED
    BY <2>1, <2>2, NumberTaken
<1>14. Done(TimeSeriesFields, PackedField(1, Each(m.LabelsRefs, Varint)) \o RepeatedField(2, Each(m.Samples, SampleMarshal)) \o RepeatedField(4, Each(m.Exemplars, ExemplarMarshal)) \o RepeatedField(3, Each(m.Histograms, HistogramMarshal)) \o Delimited(5, MetadataMarshal(m.Metadata)) \o VarintField(6, m.CreatedTimestamp), NoSeries, m,
            {"LabelsRefs"} \cup {"Samples"} \cup {"Exemplars"} \cup {"Histograms"} \cup {"Metadata"} \cup {"CreatedTimestamp"})
  BY <1>12, <1>13, DoneNext
<1>. DEFINE c == PackedField(1, Each(m.LabelsRefs, Varint)) \o RepeatedField(2, Each(m.Samples, SampleMarshal)) \o RepeatedField(4, Each(m.Exemplars, ExemplarMarshal)) \o RepeatedField(3, Each(m.Histograms, HistogramMarshal)) \o Delimited(5, MetadataMarshal(m.Metadata)) \o VarintField(6, m.CreatedTimestamp)
            r == {"LabelsRefs"} \cup {"Samples"} \cup {"Exemplars"} \cup {"Histograms"} \cup {"Metadata"} \cup {"CreatedTimestamp"}
<1>15. DOMAIN NoSeries = (r \cup {"Labels"}) \cup {"unrecognized"}
  BY DEF NoSeries
<1>16. Done(TimeSeriesFields, c, NoSeries, m, r)
  BY <1>14
<1>. HIDE DEF c, r
<1>17. Whole(TimeSeriesFields, c, NoSeries, m)
  <2>1. "Labels" \in DOMAIN NoSeries /\ m["Labels"] = NoSeries["Labels"]
    BY DEF NoSeries
  <2>2. Done(TimeSeriesFields, c, NoSeries, m, r \cup {"Labels"})
    BY <1>16, <2>1, DoneLeft
  <2>. QED
    BY <1>2, <1>15, <2>2, DoneAll
<1>18. OptimizedSeriesMarshal(m) = c
  <2>1. RefsInPlace(m.LabelsRefs) = PackedField(1, Each(m.LabelsRefs, Varint))
    <3>1. m.LabelsRefs \in Seq(Int)
      BY <1>1, Int64Int DEF SeriesMessages
    <3>. QED
      BY <3>1, RefsWhole
  <2>. QED
    BY <1>1, <1>17, <2>1 DEF OptimizedSeriesMarshal, c, Whole
<1>. QED
  BY <1>17, <1>18 DEF TimeSeriesUnmarshal, Whole

\* What the case of a request makes of a series.
SeriesOf == [b \in Seq(Bytes) |-> TimeSeriesUnmarshal(b)]

LEMMA SeriesTaken ==
    ASSUME NEW No, NEW M, NEW S, NEW f, NEW fields, NEW num, Ready(No, S, f, fields, num),
           fields[num] = Many(f, SeriesOf), M[f] \in Seq(PlainSeries), No[f] = <<>>
    PROVE  Took(fields, RepeatedField(num, Each(M[f], TimeSeriesMarshal)), No, M, S, f)
<1>. DEFINE s == M[f]
            ms == Each(s, TimeSeriesMarshal)
<1>1. DOMAIN s = 1..Len(s) /\ \A k \in 1..Len(s) : s[k] \in PlainSeries
  BY SeqTyped
<1>2. ms = [k \in 1..Len(s) |-> ms[k]] /\ \A k \in 1..Len(s) : ms[k] = TimeSeriesMarshal(s[k])
  BY <1>1 DEF Each
<1>. HIDE DEF ms, s
<1>3. \A k \in 1..Len(s) : Answers(SeriesOf, ms[k], s[k])
  <2>. SUFFICES ASSUME NEW m \in PlainSeries PROVE Answers(SeriesOf, TimeSeriesMarshal(m), m)
    BY <1>1, <1>2
  <2>1. /\ TimeSeriesMarshal(m) \in Seq(Bytes) /\ m # Error
        /\ Len(TimeSeriesMarshal(m)) \in Int64 => TimeSeriesUnmarshal(TimeSeriesMarshal(m)) = m
    BY TimeSeriesBack
  <2>. QED
    BY <2>1 DEF Answers, Back, SeriesOf
<1>. QED
  BY <1>2, <1>3, EachTaken DEF ms, s

LEMMA OptimizedTaken ==
    ASSUME NEW No, NEW M, NEW S, NEW f, NEW fields, NEW num, Ready(No, S, f, fields, num),
           fields[num] = Many(f, SeriesOf), M[f] \in Seq(PlainSeries), No[f] = <<>>,
           \A k \in 1..Len(M[f]) : M[f][k].Labels = <<>>
    PROVE  Took(fields, RepeatedField(num, Each(M[f], OptimizedSeriesMarshal)), No, M, S, f)
<1>. DEFINE s == M[f]
            ms == Each(s, OptimizedSeriesMarshal)
<1>1. DOMAIN s = 1..Len(s) /\ \A k \in 1..Len(s) : s[k] \in PlainSeries /\ s[k].Labels = <<>>
  BY SeqTyped
<1>2. ms = [k \in 1..Len(s) |-> ms[k]] /\ \A k \in 1..Len(s) : ms[k] = OptimizedSeriesMarshal(s[k])
  BY <1>1 DEF Each
<1>. HIDE DEF ms, s
<1>3. \A k \in 1..Len(s) : Answers(SeriesOf, ms[k], s[k])
  <2>. SUFFICES ASSUME NEW m \in PlainSeries, m.Labels = <<>>
                PROVE  Answers(SeriesOf, OptimizedSeriesMarshal(m), m)
    BY <1>1, <1>2
  <2>1. /\ OptimizedSeriesMarshal(m) \in Seq(Bytes) /\ m # Error
        /\ Len(OptimizedSeriesMarshal(m)) \in Int64 => TimeSeriesUnmarshal(OptimizedSeriesMarshal(m)) = m
    BY OptimizedSeriesBack
  <2>. QED
    BY <2>1 DEF Answers, Back, SeriesOf
<1>. QED
  BY <1>2, <1>3, EachTaken DEF ms, s

\* A request: what the receiver unmarshals is what was marshalled (types.pb.go).
THEOREM RequestBack ==
    ASSUME NEW m \in PlainRequests
    PROVE  /\ RequestMarshal(m) \in Seq(Bytes) /\ m # Error
           /\ Len(RequestMarshal(m)) \in Int64 => RequestUnmarshal(RequestMarshal(m)) = m
<1>1. m \in RequestMessages(Int64) /\ m.unrecognized = <<>>
      /\ m.Timeseries \in Seq(PlainSeries)
  BY DEF PlainRequests
<1>2. Messages(NoRequest, m)
  BY <1>1 DEF Messages, NoRequest, RequestMessages, Payload
<1>3. Took(RequestFields, RepeatedField(4, m.Symbols), NoRequest, m, {}, "Symbols")
  <2>1. Ready(NoRequest, {}, "Symbols", RequestFields, 4) /\ RequestFields[4] = ManyStrings("Symbols")
    BY DEF Ready, NoRequest, RequestFields, SeriesOf
  <2>2. NoRequest["Symbols"] = <<>> /\ m["Symbols"] \in Seq(Seq(Bytes))
    BY <1>1 DEF NoRequest, RequestMessages, Payload
  <2>. QED
    BY <2>1, <2>2, ManyStringsTaken
<1>4. Done(RequestFields, RepeatedField(4, m.Symbols), NoRequest, m, {"Symbols"})
  BY <1>2, <1>3, DoneFirst
<1>5. Took(RequestFields, RepeatedField(5, Each(m.Timeseries, TimeSeriesMarshal)), NoRequest, m, {"Symbols"}, "Timeseries")
  <2>1. Ready(NoRequest, {"Symbols"}, "Timeseries", RequestFields, 5) /\ RequestFields[5] = Many("Timeseries", SeriesOf)
    BY DEF Ready, NoRequest, RequestFields, SeriesOf
  <2>2. NoRequest["Timeseries"] = <<>> /\ m["Timeseries"] \in Seq(PlainSeries)
    BY <1>1 DEF NoRequest, RequestMessages, Payload
  <2>. QED
    BY <2>1, <2>2, SeriesTaken
<1>6. Done(RequestFields, RepeatedField(4, m.Symbols) \o RepeatedField(5, Each(m.Timeseries, TimeSeriesMarshal)), NoRequest, m,
            {"Symbols"} \cup {"Timeseries"})
  BY <1>4, <1>5, DoneNext
<1>. DEFINE c == RepeatedField(4, m.Symbols) \o RepeatedField(5, Each(m.Timeseries, TimeSeriesMarshal))
            r == {"Symbols"} \cup {"Timeseries"}
<1>7. DOMAIN NoRequest = r \cup {"unrecognized"}
  BY DEF NoRequest
<1>8. Done(RequestFields, c, NoRequest, m, r)
  BY <1>6
<1>. HIDE DEF c, r
<1>9. Whole(RequestFields, c, NoRequest, m)
  BY <1>2, <1>7, <1>8, DoneAll
<1>10. RequestMarshal(m) = c
  BY <1>1, <1>9 DEF RequestMarshal, c, Whole
<1>. QED
  BY <1>9, <1>10 DEF RequestUnmarshal, Whole

\* The same of what OptimizedMarshal writes of a request without the field
\* Labels (custom.go; custom_test.go:91).
THEOREM OptimizedRequestBack ==
    ASSUME NEW m \in PlainRequests, Unlabelled(m)
    PROVE  /\ OptimizedRequestMarshal(m) \in Seq(Bytes) /\ m # Error
           /\ Len(OptimizedRequestMarshal(m)) \in Int64 => RequestUnmarshal(OptimizedRequestMarshal(m)) = m
<1>1. m \in RequestMessages(Int64) /\ m.unrecognized = <<>>
      /\ m.Timeseries \in Seq(PlainSeries)
  BY DEF PlainRequests
<1>2. Messages(NoRequest, m)
  BY <1>1 DEF Messages, NoRequest, RequestMessages, Payload
<1>3. Took(RequestFields, RepeatedField(4, m.Symbols), NoRequest, m, {}, "Symbols")
  <2>1. Ready(NoRequest, {}, "Symbols", RequestFields, 4) /\ RequestFields[4] = ManyStrings("Symbols")
    BY DEF Ready, NoRequest, RequestFields, SeriesOf
  <2>2. NoRequest["Symbols"] = <<>> /\ m["Symbols"] \in Seq(Seq(Bytes))
    BY <1>1 DEF NoRequest, RequestMessages, Payload
  <2>. QED
    BY <2>1, <2>2, ManyStringsTaken
<1>4. Done(RequestFields, RepeatedField(4, m.Symbols), NoRequest, m, {"Symbols"})
  BY <1>2, <1>3, DoneFirst
<1>5. Took(RequestFields, RepeatedField(5, Each(m.Timeseries, OptimizedSeriesMarshal)), NoRequest, m, {"Symbols"}, "Timeseries")
  <2>1. Ready(NoRequest, {"Symbols"}, "Timeseries", RequestFields, 5) /\ RequestFields[5] = Many("Timeseries", SeriesOf)
    BY DEF Ready, NoRequest, RequestFields, SeriesOf
  <2>2. NoRequest["Timeseries"] = <<>> /\ m["Timeseries"] \in Seq(PlainSeries)
    BY <1>1 DEF NoRequest, RequestMessages, Payload
  <2>. QED
    BY <2>1, <2>2, OptimizedTaken DEF Unlabelled
<1>6. Done(RequestFields, RepeatedField(4, m.Symbols) \o RepeatedField(5, Each(m.Timeseries, OptimizedSeriesMarshal)), NoRequest, m,
            {"Symbols"} \cup {"Timeseries"})
  BY <1>4, <1>5, DoneNext
<1>. DEFINE c == RepeatedField(4, m.Symbols) \o RepeatedField(5, Each(m.Timeseries, OptimizedSeriesMarshal))
            r == {"Symbols"} \cup {"Timeseries"}
<1>7. DOMAIN NoRequest = r \cup {"unrecognized"}
  BY DEF NoRequest
<1>8. Done(RequestFields, c, NoRequest, m, r)
  BY <1>6
<1>. HIDE DEF c, r
<1>9. Whole(RequestFields, c, NoRequest, m)
  BY <1>2, <1>7, <1>8, DoneAll
<1>10. OptimizedRequestMarshal(m) = c
  BY <1>1, <1>9 DEF OptimizedRequestMarshal, c, Whole
<1>. QED
  BY <1>9, <1>10 DEF RequestUnmarshal, Whole
===============================================================================
