------------------------------- MODULE WireFormat -------------------------------
(* internal/v2_hack/types.pb.go and custom.go: how the messages of Remote    *)
(* Write 2.0 are sized, marshalled and unmarshalled.  Bytes are numbers      *)
(* below 256 and messages are records with the fields of the generated       *)
(* structs; XXX_unrecognized is the field unrecognized.  What the code       *)
(* writes from the end of its buffer is given here in the order in which it  *)
(* ends up there.                                                            *)
(*                                                                           *)
(* Integers stand for themselves in 64-bit two's complement as long as TLC   *)
(* can hold them (31 bits and a sign).  A field of 32 bits is read like one  *)
(* of 64: nothing wider is written into it.  A float64 is the natural number *)
(* that codes it, with 0 for 0.0; only equality, and sums of codes, are used. *)
EXTENDS Integers, Sequences, SequencesExt

Bytes == 0..255

\* What 64 and 32 bits hold, as signed numbers and as one without: 2097152 is 2^21.
Int64 == {v \in Int : ((v \div 2097152) \div 2097152) \div 2097152 \in {-1, 0}}
Int32 == {v \in Int : (v \div 2097152) \div 1024 \in {-1, 0}}
Uint32 == {v \in Nat : (v \div 2097152) \div 2048 = 0}

\* An error returned by Unmarshal, or a write out of the buffer's range.
Error == [error |-> TRUE]

-------------------------------------------------------------------------------
(* Varints. *)

\* The varint of x from its k-th group of seven bits on; the tenth holds bit 63.
Groups[k \in 0..9] ==
    [x \in Int |->
        IF k = 9 THEN <<x % 2>>
        ELSE IF x \in 0..127 THEN <<x>>
        ELSE <<(x % 128) + 128>> \o Groups[k + 1][x \div 128]]

\* encodeVarintTypes, and the loops that encode the elements of a packed field.
Varint(x) == Groups[0][x]

\* The number of bits of a natural number, and bits.Len64.
Bits[x \in Nat] == IF x = 0 THEN 0 ELSE 1 + Bits[x \div 2]
Len64(x) == IF x < 0 \/ Bits[x] > 64 THEN 64 ELSE Bits[x]

sovTypes(x) == IF x = 0 THEN 1 ELSE (Len64(x) + 6) \div 7

\* (x << 1) ^ (x >> 63)
Zigzag(x) == IF x >= 0 THEN 2 * x ELSE -2 * x - 1

\* v >> 1 of the unsigned number that the bits of v stand for
Halved(v) ==
    (v \div 2) + (IF v < 0 THEN 2097152 * 2097152 * 2097152 ELSE 0)

\* (v >> 1) ^ ((v & 1) << 63 >> 63)
Unzigzag(v) == IF v % 2 = 0 THEN Halved(v) ELSE -Halved(v) - 1

sozTypes(x) == sovTypes(Zigzag(x))

\* The codes there are of floats.
Floats == {v \in Nat : v < 65536}

\* binary.LittleEndian.PutUint64(math.Float64bits(v)), for the code v of a float
Fixed64(v) == <<v % 256, v \div 256, 0, 0, 0, 0, 0, 0>>

Float(b) == b[1] + 256 * b[2]

-------------------------------------------------------------------------------
(* The fields of a message: what Marshal writes for each kind, and its size. *)

Tag(num, wire) == Varint(8 * num + wire)

\* Proto3 leaves a field with its zero value out.
VarintField(num, v) == IF v = 0 THEN <<>> ELSE Tag(num, 0) \o Varint(v)
VarintSize(v) == IF v = 0 THEN 0 ELSE 1 + sovTypes(v)

FloatField(num, v) == IF v = 0 THEN <<>> ELSE Tag(num, 1) \o Fixed64(v)
FloatSize(v) == IF v = 0 THEN 0 ELSE 9

\* A field with a length: a nested message, a string, a packed sequence.
Delimited(num, b) == Tag(num, 2) \o Varint(Len(b)) \o b
DelimitedSize(l) == 1 + l + sovTypes(l)

BytesField(num, b) == IF b = <<>> THEN <<>> ELSE Delimited(num, b)
BytesSize(b) == IF b = <<>> THEN 0 ELSE DelimitedSize(Len(b))

Sum(s) == SumFunction(s)

Each(s, Op(_)) == [i \in DOMAIN s |-> Op(s[i])]

\* A repeated message field: its messages as bytes, and their sizes.
RepeatedField(num, messages) ==
    FlattenSeq(Each(messages, LAMBDA b : Delimited(num, b)))
RepeatedSize(sizes) == Sum(Each(sizes, DelimitedSize))

\* A packed repeated field: its elements as bytes, and their sizes.
PackedField(num, elements) == BytesField(num, FlattenSeq(elements))
PackedSize(sizes) == IF sizes = <<>> THEN 0 ELSE DelimitedSize(Sum(sizes))

ZigzagVarint(x) == Varint(Zigzag(x))
Eight(x) == 8

-------------------------------------------------------------------------------
(* Reading a message: the entries in it, one for every turn of the loop in   *)
(* an Unmarshal.  raw is the whole entry, what XXX_unrecognized keeps of it. *)

\* The first index from i on of a byte below 0x80, or 0.
VarintEnd(b, i) ==
    LET ends == {j \in i..Len(b) : b[j] < 128 /\ \A k \in i..(j - 1) : b[k] >= 128}
    IN  IF ends = {} THEN 0 ELSE CHOOSE j \in ends : TRUE

\* The bits of the varint in b[i..j], from the highest group down; of a tenth
\* byte, shifted by 63, only the sign is left.
Value(b, i, j) ==
    LET from[k \in i..j] == IF k < j THEN from[k + 1] * 128 + (b[k] % 128)
                            ELSE IF k = i + 9 THEN -(b[k] % 2) ELSE b[k] % 128
    IN  from[i]

\* The varint at i and the index after it, which is 0 when there is none: more
\* than ten bytes are an overflow.
VarintAt(b, i, end) ==
    IF end = 0 \/ end - i > 9 THEN [val |-> 0, next |-> 0]
    ELSE [val |-> Value(b, i, end), next |-> end + 1]

ReadVarint(b, i) == VarintAt(b, i, VarintEnd(b, i))

\* The index after the body of an entry, which starts at i, or 0.
AfterBytes(length) ==
    IF length.next = 0 \/ length.val < 0 THEN 0 ELSE length.next + length.val
AfterBody(b, i, wire, depth) ==
    IF wire = 0 THEN ReadVarint(b, i).next
    ELSE IF wire = 1 THEN i + 8
    ELSE IF wire = 2 THEN AfterBytes(ReadVarint(b, i))
    ELSE IF wire = 3 \/ (wire = 4 /\ depth > 0) THEN i
    ELSE IF wire = 5 THEN i + 4
    ELSE 0

AfterEntry(b, tag, depth) ==
    IF tag.next = 0 THEN 0 ELSE AfterBody(b, tag.next, tag.val % 8, depth)

\* How many groups are open after an entry.
Opened(wire, depth) == depth + (IF wire = 3 THEN 1 ELSE IF wire = 4 THEN -1 ELSE 0)

\* The turn of the loop after one that came to next: skip is the rest of it.
SkipOn(next, open, end, skip) ==
    IF next = 0 \/ open = 0 THEN next ELSE IF next > end THEN 0 ELSE skip[next][open]

\* The index after the entry at i (after the group, when it opens one), or 0.
skipTypes(b, i) ==
    LET skip[j \in 1..Len(b)] ==
          [depth \in Nat |->
             LET tag == ReadVarint(b, j)
             IN  SkipOn(AfterEntry(b, tag, depth), Opened(tag.val % 8, depth), Len(b), skip)]
    IN  skip[i][0]

\* What stands for an entry's body, from i up to next: the number, the bytes
\* after their length, or the eight or four bytes.
Body(b, i, wire, next) ==
    IF wire = 0 THEN ReadVarint(b, i).val
    ELSE SubSeq(b, IF wire = 2 THEN ReadVarint(b, i).next ELSE i, next - 1)

Entry(b, i, tag, next) ==
    [num |-> tag.val \div 8, wire |-> tag.val % 8,
     val |-> Body(b, tag.next, tag.val % 8, next), raw |-> SubSeq(b, i, next - 1)]

\* The entry at i, from its tag up to next, and those after it, which from has.
EntryOn(b, i, tag, next, from) ==
    IF tag.next = 0 \/ tag.val \div 8 <= 0 \/ next \notin (i + 1)..(Len(b) + 1)
    THEN <<Error>>
    ELSE <<Entry(b, i, tag, next)>> \o from[next]

\* The entries of b; the last is Error when the loop returns one.
Entries(b) ==
    LET from[i \in 1..(Len(b) + 1)] ==
          IF i > Len(b) THEN <<>>
          ELSE EntryOn(b, i, ReadVarint(b, i), skipTypes(b, i), from)
    IN  from[1]

-------------------------------------------------------------------------------
(* The switch of an Unmarshal is a function from the numbers of the fields   *)
(* to its cases.  A case says where the entry's value goes and of what: of   *)
(* makes what is stored out of a value that is read, or Error.               *)

\* A field that is set: its wire type is 0 for numbers, 1 for floats, and 2.
Single(field, wire, of) == [as |-> "one", field |-> field, wire |-> wire, of |-> of]

\* A repeated string, and a repeated message.
ManyStrings(field) == [as |-> "strings", field |-> field, wire |-> 2]
Many(field, of) == [as |-> "many", field |-> field, wire |-> 2, of |-> of]

\* A message that is unmarshalled into the one there is.
Merged(field, of) == [as |-> "merged", field |-> field, wire |-> 2, of |-> of]

\* A repeated number, and a repeated float, packed or not.
Numbers(field, of) == [as |-> "numbers", field |-> field, of |-> of]
FloatsInto(field) == [as |-> "floats", field |-> field]

\* What is made of the values.
Same == [v \in Int |-> v]
Unzigzagged == [v \in Int |-> Unzigzag(v)]
Contents == [b \in Seq(Bytes) |-> b]
Decoded == [b \in Seq(Bytes) |-> Float(b)]

\* What a packed field reads from i on at the varint v, and then; the last has
\* next 0 when there is none.
NumbersOn(v, from) == IF v.next = 0 THEN <<v>> ELSE <<v>> \o from[v.next]
Varints(b) ==
    LET from[i \in 1..(Len(b) + 1)] ==
          IF i > Len(b) THEN <<>> ELSE NumbersOn(ReadVarint(b, i), from)
    IN  from[1]

\* The message with what an entry was made into, unless that is an error.
Put(m, field, sub) == IF sub = Error THEN Error ELSE [m EXCEPT ![field] = sub]
Add(m, field, sub) == IF sub = Error THEN Error ELSE [m EXCEPT ![field] = Append(@, sub)]
AddAll(m, field, numbers, of) ==
    IF \E n \in DOMAIN numbers : numbers[n].next = 0 THEN Error
    ELSE [m EXCEPT ![field] = @ \o [n \in DOMAIN numbers |-> of[numbers[n].val]]]

\* A packed field that ends within a varint, which nothing writes, is taken for
\* an error.
AddNumbers(m, e, field, of) ==
    IF e.wire = 0 THEN [m EXCEPT ![field] = Append(@, of[e.val])]
    ELSE IF e.wire = 2 THEN AddAll(m, field, Varints(e.val), of)
    ELSE Error

AddFloats(m, e, field) ==
    IF e.wire \notin {1, 2} \/ Len(e.val) % 8 # 0 THEN Error
    ELSE [m EXCEPT ![field] =
             @ \o [i \in 1..(Len(e.val) \div 8) |->
                     Float(SubSeq(e.val, 8 * i - 7, 8 * i))]]

\* One case for an entry; another wire type is an error.
Place(m, e, c) ==
    IF c.as = "numbers" THEN AddNumbers(m, e, c.field, c.of)
    ELSE IF c.as = "floats" THEN AddFloats(m, e, c.field)
    ELSE IF e.wire # c.wire THEN Error
    ELSE IF c.as = "one" THEN [m EXCEPT ![c.field] = c.of[e.val]]
    ELSE IF c.as = "strings" THEN [m EXCEPT ![c.field] = Append(@, e.val)]
    ELSE IF c.as = "many" THEN Add(m, c.field, c.of[e.val])
    ELSE Put(m, c.field, c.of[m[c.field]][e.val])

\* A turn of the loop: an entry of another number is kept in unrecognized.
Keep(m, e) == [m EXCEPT !.unrecognized = @ \o e.raw]
Turn(m, e, fields) ==
    IF m = Error \/ e = Error THEN Error
    ELSE IF e.num \in DOMAIN fields THEN Place(m, e, fields[e.num])
    ELSE Keep(m, e)

\* The loop over the entries, which fills the message m.
Filled(es, m, fields) ==
    LET filled[n \in 0..Len(es)] ==
          IF n = 0 THEN m ELSE Turn(filled[n - 1], es[n], fields)
    IN  filled[Len(es)]

Decode(b, m, fields) == Filled(Entries(b), m, fields)
===============================================================================
