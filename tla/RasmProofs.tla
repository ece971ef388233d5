------------------------------- MODULE RasmProofs ------------------------------
(***************************************************************************)
(* Proofs about Rasm: a file that is read is what was written, whatever    *)
(* the program, and no part of it that is cut off goes unnoticed.          *)
(*                                                                         *)
(* Reading and writing are recursive functions: that they exist, and what  *)
(* they are for each length, is by induction, from a set of numbers that   *)
(* is not empty having a least one.                                        *)
(***************************************************************************)
EXTENDS Rasm, SequenceTheorems, WellFoundedInduction, TLAPS

\* The values that are written: an index is a byte, the offset of a jump a signed one.
OpCode    == {"mov", "add", "sub", "mul", "div", "mag", "fac", "pow", "inc", "dec", "mas", "das", "pas",
              "clt", "cgt", "ceq", "cne", "jpz", "jmp", "hlt", "jsr", "ret", "put"}
ValueType == {"none", "immediate", "stack", "intermediate", "jump_offset"}

MemoryIndex     == { i \in [type : ValueType, value : Int] :
                       IF i.type = "jump_offset" THEN i.value \in -128 .. 127 ELSE i.value \in 0 .. Byte - 1 }
InstructionType == [op : OpCode, a : MemoryIndex, b : MemoryIndex]
FrameType       == [size : 0 .. Byte - 1, code : Seq(InstructionType)]
DataType(V)     == [inputs : 0 .. Byte - 1, outputs : 0 .. Byte - 1, immediates : Seq(V), frames : Seq(FrameType)]

\* The bytes of a file with doubles in V.
FileByte(V) == (0 .. Byte - 1) \cup (V \X (1 .. 8))

-------------------------------------------------------------------------------
(***************************************************************************)
(* Words.                                                                  *)
(***************************************************************************)
IsWord(w) == w \in Nat /\ w \div Half < Half

LEMMA Sizes == /\ Byte = 256 /\ Twelve = 16 * 256 /\ Half = 256 * 256 /\ Three = 256 * (256 * 256)
               /\ Byte \in Nat /\ Twelve \in Nat /\ Half \in Nat /\ Three \in Nat
BY SMT DEF Byte, Twelve, Half, Three

LEMMA DivideBy256 ==
    ASSUME NEW w \in Nat, NEW q \in Int, NEW r \in Int, q = w \div 256, r = w % 256
    PROVE  w = 256 * q + r /\ r \in 0 .. 255 /\ q \in Nat
BY SMT

LEMMA FourOf ==
    ASSUME NEW B, NEW a \in B, NEW b \in B, NEW c \in B, NEW d \in B
    PROVE  <<a, b, c, d>> \in Seq(B) /\ Len(<<a, b, c, d>>) = 4
OBVIOUS

\* The bytes of a word are bytes, and the word comes of them.
LEMMA WordIs ==
    ASSUME NEW w, IsWord(w)
    PROVE  /\ WordBytes(w) \in Seq(0 .. Byte - 1) /\ Len(WordBytes(w)) = 4
           /\ Three * WordBytes(w)[1] + Half * WordBytes(w)[2] + Byte * WordBytes(w)[3] + WordBytes(w)[4] = w
<1> DEFINE q == w \div 256
           r == q \div 256
           s == r \div 256
<1>1. w \in Nat /\ q \in Nat /\ r \in Nat /\ s \in Nat
  BY SMT DEF IsWord
<1>2. \A x \in Nat : x % 256 \in Int /\ x \div 256 \in Int
  BY SMT
<1>3. \A x \in Nat : x = 256 * (x \div 256) + (x % 256) /\ x % 256 \in 0 .. 255
  BY <1>2, DivideBy256
<1>4. /\ w = 256 * q + (w % 256) /\ w % 256 \in 0 .. 255
      /\ q = 256 * r + (q % 256) /\ q % 256 \in 0 .. 255
      /\ r = 256 * s + (r % 256) /\ r % 256 \in 0 .. 255
  BY <1>1, <1>3
<1>5. w \div (256 * 256) = r
  BY <1>1, SMT
<1>6. w \div (256 * (256 * 256)) = s
  <2>1. \A x \in Nat : x \div (256 * (256 * 256)) = (x \div (256 * 256)) \div 256
    BY SMT
  <2> QED
    BY <1>1, <1>5, <2>1, SMT
<1>7. r < 256 * 256
  BY <1>5, SMT DEF IsWord, Half, Byte
<1>8. s \in 0 .. 255 /\ s % 256 = s
  <2> HIDE DEF q, r
  <2>1. s \in 0 .. 255
    BY <1>1, <1>7, SMT
  <2> QED
    BY <2>1, SMT
<1>9. WordBytes(w) = <<s, r % 256, q % 256, w % 256>>
  BY <1>5, <1>6, <1>8, SMT DEF WordBytes, Three, Half, Byte
<1> HIDE DEF q, r, s
<1>10. 256 * (256 * 256) * s + 256 * 256 * (r % 256) + 256 * (q % 256) + (w % 256) = w
  BY <1>1, <1>4, SMT
<1>11. WordBytes(w) \in Seq(0 .. Byte - 1) /\ Len(WordBytes(w)) = 4
  <2> DEFINE B == 0 .. Byte - 1
             r1 == r % 256
             q1 == q % 256
             w1 == w % 256
  <2>1. s \in B /\ r1 \in B /\ q1 \in B /\ w1 \in B
    BY <1>4, <1>8, SMT DEF Byte
  <2>2. WordBytes(w) = <<s, r1, q1, w1>>
    BY <1>9
  <2> HIDE DEF q, r, s, B, r1, q1, w1
  <2>3. WordBytes(w) \in Seq(B) /\ Len(WordBytes(w)) = 4
    BY <2>1, <2>2, FourOf
  <2> QED
    BY <2>3 DEF B
<1>12. /\ WordBytes(w)[1] = s /\ WordBytes(w)[2] = r % 256 /\ WordBytes(w)[3] = q % 256
       /\ WordBytes(w)[4] = w % 256
  BY <1>9
<1> QED
  BY <1>10, <1>11, <1>12, SMT DEF Three, Half, Byte

\* Small numbers are words.
LEMMA SmallIsWord == ASSUME NEW w \in Nat, w =< 23 * Three PROVE IsWord(w)
<1>1. w < 256 * (256 * (256 * 256))
  BY SMT DEF Three, Half, Byte
<1>2. w \div (256 * 256) < 256 * 256
  BY <1>1, SMT
<1> QED
  BY <1>2, SMT DEF IsWord, Half, Byte

-------------------------------------------------------------------------------
(***************************************************************************)
(* Instruction words.                                                      *)
(***************************************************************************)
LEMMA OpIs ==
    ASSUME NEW o \in OpCode
    PROVE  CodeOf(OpCodes, o) \in 0 .. 22 /\ OpCodes[CodeOf(OpCodes, o) + 1] = o
<1>1. DOMAIN OpCodes = 1 .. 23
  BY DEF OpCodes
<1>2. \E k \in 1 .. 23 : OpCodes[k] = o
  BY DEF OpCodes, OpCode
<1> DEFINE c == CHOOSE k \in DOMAIN OpCodes : OpCodes[k] = o
<1>3. c \in 1 .. 23 /\ OpCodes[c] = o
  BY <1>1, <1>2
<1>4. CodeOf(OpCodes, o) = c - 1
  BY DEF CodeOf
<1> HIDE DEF c
<1> QED
  BY <1>3, <1>4

LEMMA TypeIs ==
    ASSUME NEW t \in ValueType
    PROVE  CodeOf(ValueTypes, t) \in 0 .. 4 /\ ValueTypes[CodeOf(ValueTypes, t) + 1] = t
<1>1. DOMAIN ValueTypes = 1 .. 5
  BY DEF ValueTypes
<1>2. \E k \in 1 .. 5 : ValueTypes[k] = t
  BY DEF ValueTypes, ValueType
<1> DEFINE c == CHOOSE k \in DOMAIN ValueTypes : ValueTypes[k] = t
<1>3. c \in 1 .. 5 /\ ValueTypes[c] = t
  BY <1>1, <1>2
<1>4. CodeOf(ValueTypes, t) = c - 1
  BY DEF CodeOf
<1> HIDE DEF c
<1> QED
  BY <1>3, <1>4

\* The byte of an index, read as a signed one for jumps, is the index.
LEMMA ByteIs ==
    ASSUME NEW i \in MemoryIndex
    PROVE  i.value % Byte \in 0 .. Byte - 1 /\ Signed(i.type, i.value % Byte) = i.value
<1>1. i.value \in Int
  BY DEF MemoryIndex
<1>2. CASE i.type = "jump_offset"
  <2>1. i.value \in -128 .. 127
    BY <1>2 DEF MemoryIndex
  <2>2. \A v \in -128 .. 127 : /\ v % 256 \in 0 .. 255
                               /\ (IF v % 256 > 127 THEN (v % 256) - 256 ELSE v % 256) = v
    BY SMT
  <2> QED
    BY <1>2, <2>1, <2>2, SMT DEF Signed, Byte
<1>3. CASE i.type # "jump_offset"
  <2>1. i.value \in 0 .. 255
    BY <1>3, SMT DEF MemoryIndex, Byte
  <2>2. \A v \in 0 .. 255 : v % 256 = v
    BY SMT
  <2> QED
    BY <1>3, <2>1, <2>2, SMT DEF Signed, Byte
<1> QED
  BY <1>2, <1>3

LEMMA IndexWord ==
    ASSUME NEW i \in MemoryIndex
    PROVE  /\ index_to_binary(i) \in 0 .. Twelve - 1 /\ IsIndexWord(index_to_binary(i))
           /\ index_from_binary(index_to_binary(i)) = i
<1> DEFINE c == CodeOf(ValueTypes, i.type)
           v == i.value % Byte
           w == index_to_binary(i)
<1>1. i.type \in ValueType /\ i = [type |-> i.type, value |-> i.value]
  BY DEF MemoryIndex
<1>2. c \in 0 .. 4 /\ ValueTypes[c + 1] = i.type
  BY <1>1, TypeIs
<1>3. v \in 0 .. 255 /\ Signed(i.type, v) = i.value
  <2>1. v \in 0 .. Byte - 1 /\ Signed(i.type, v) = i.value
    BY ByteIs
  <2> QED
    BY <2>1, Sizes
<1>4. w = 16 * v + c
  BY DEF index_to_binary
<1> HIDE DEF c, v, w
<1>5. w \in Nat /\ w < 16 * 256
  BY <1>2, <1>3, <1>4, SMT
<1>6. w % 16 = c /\ w \div 16 = v /\ v % 256 = v
  <2>1. \A x \in 0 .. 255 : \A y \in 0 .. 4 : (16 * x + y) % 16 = y /\ (16 * x + y) \div 16 = x /\ x % 256 = x
    BY SMT
  <2> QED
    BY <1>2, <1>3, <1>4, <2>1, SMT
<1>7. w \in 0 .. Twelve - 1
  BY <1>5, Sizes, SMT
<1>8. IsIndexWord(w)
  <2>1. Len(ValueTypes) = 5
    BY DEF ValueTypes
  <2> QED
    BY <1>2, <1>6, <2>1 DEF IsIndexWord
<1>9. index_from_binary(w) = [type |-> i.type, value |-> i.value]
  <2>1. index_from_binary(w) = [type |-> ValueTypes[c + 1], value |-> Signed(ValueTypes[c + 1], v)]
    BY <1>6, SMT DEF index_from_binary, Byte
  <2> QED
    BY <1>2, <1>3, <2>1
<1> QED
  BY <1>1, <1>7, <1>8, <1>9 DEF w

LEMMA InstructionWord ==
    ASSUME NEW ins \in InstructionType
    PROVE  /\ IsWord(to_binary(ins)) /\ IsInstructionWord(to_binary(ins))
           /\ from_binary(to_binary(ins)) = ins
<1> DEFINE c == CodeOf(OpCodes, ins.op)
           x == index_to_binary(ins.a)
           y == index_to_binary(ins.b)
           w == to_binary(ins)
<1>1. /\ ins.op \in OpCode /\ ins.a \in MemoryIndex /\ ins.b \in MemoryIndex
      /\ ins = [op |-> ins.op, a |-> ins.a, b |-> ins.b]
  BY DEF InstructionType
<1>2. c \in 0 .. 22 /\ OpCodes[c + 1] = ins.op
  BY <1>1, OpIs
<1>3. /\ x \in 0 .. Twelve - 1 /\ IsIndexWord(x) /\ index_from_binary(x) = ins.a
      /\ y \in 0 .. Twelve - 1 /\ IsIndexWord(y) /\ index_from_binary(y) = ins.b
  BY <1>1, IndexWord
<1>4. w = Three * c + Twelve * x + y
  BY DEF to_binary
<1> HIDE DEF c, x, y, w
<1>5. /\ w \in Nat /\ w =< 23 * Three
      /\ w \div Three = c /\ (w \div Twelve) % Twelve = x /\ w % Twelve = y
  <2>1. /\ c \in 0 .. 22 /\ x \in 0 .. 16 * 256 - 1 /\ y \in 0 .. 16 * 256 - 1
        /\ w = 256 * (256 * 256) * c + 16 * 256 * x + y
    BY <1>2, <1>3, <1>4, Sizes, SMT
  <2>2. w \in Nat /\ w =< 23 * (256 * (256 * 256))
    BY <2>1, SMT
  <2>3. w \div (256 * (256 * 256)) = c
    BY <2>1, SMT
  <2>4. w \div (16 * 256) = 16 * 256 * c + x
    BY <2>1, SMT
  <2>5. w % (16 * 256) = y
    BY <2>1, SMTT(30)
  <2>6. (16 * 256 * c + x) % (16 * 256) = x
    BY <2>1, SMT
  <2> QED
    BY <2>2, <2>3, <2>4, <2>5, <2>6, SMTT(30) DEF Three, Twelve, Half, Byte
<1>6. Len(OpCodes) = 23
  BY DEF OpCodes
<1>7. IsInstructionWord(w)
  BY <1>2, <1>3, <1>5, <1>6, SMT DEF IsInstructionWord
<1>8. from_binary(w) = ins
  BY <1>1, <1>2, <1>3, <1>5, SMT DEF from_binary
<1> QED
  BY <1>5, <1>7, <1>8, SmallIsWord, SMT DEF w

-------------------------------------------------------------------------------
(***************************************************************************)
(* Induction.                                                              *)
(***************************************************************************)
\* A set of natural numbers that is not empty has a least element.
LEMMA Least ==
    ASSUME NEW S, S \subseteq Nat, S # {}
    PROVE  \E m \in S : \A k \in S : m =< k
<1> DEFINE R == OpToRel(<, Nat)
<1>1. IsWellFoundedOn(R, Nat)
  BY NatLessThanWellFounded
<1>2. PICK x \in S : \A y \in S : ~(<<y, x>> \in R)
  <2> HIDE DEF R
  <2> QED
    BY <1>1, WFMin
<1>3. ASSUME NEW y \in S PROVE ~(y < x)
  BY <1>2 DEF OpToRel
<1> QED
  BY <1>3

\* Induction, up to some number.
LEMMA UpTo ==
    ASSUME NEW n \in Nat, NEW T, 0 \in T, \A k \in 0 .. n - 1 : k \in T => k + 1 \in T
    PROVE  \A k \in 0 .. n : k \in T
<1> DEFINE S == { k \in 0 .. n : k \notin T }
<1>1. SUFFICES ASSUME S # {} PROVE FALSE
  OBVIOUS
<1>2. S \subseteq Nat
  OBVIOUS
<1>3. PICK m \in S : \A k \in S : m =< k
  <2> HIDE DEF S
  <2> QED
    BY <1>1, <1>2, Least
<1>4. m \in 1 .. n /\ m \notin T
  BY <1>3
<1>5. m - 1 \in 0 .. n - 1 /\ m - 1 \in 0 .. n /\ m - 1 \in T
  BY <1>3, <1>4
<1> QED
  BY <1>4, <1>5

-------------------------------------------------------------------------------
(***************************************************************************)
(* What a file holds.                                                      *)
(***************************************************************************)
\* The file has q from a position on, or as much of it as comes before its end.
Has(file, at, q) == \A k \in 1 .. Len(q) : at + k - 1 =< Len(file) => file[at + k - 1] = q[k]

\* What reading q is, from there: its value, and where q ends, if all of q is there.
Result(file, at, q, value) == IF Available(file, at, Len(q)) THEN Reads(value, at + Len(q)) ELSE Fails

LEMMA ConcatIs ==
    ASSUME NEW S, NEW q \in Seq(S), NEW r \in Seq(S)
    PROVE  /\ q \o r \in Seq(S) /\ Len(q \o r) = Len(q) + Len(r) /\ Len(q) \in Nat /\ Len(r) \in Nat
           /\ \A k \in 1 .. Len(q) : (q \o r)[k] = q[k]
           /\ \A k \in 1 .. Len(r) : (q \o r)[Len(q) + k] = r[k]
OBVIOUS

LEMMA HasParts ==
    ASSUME NEW S, NEW file, NEW q \in Seq(S), NEW r \in Seq(S), NEW at \in Nat,
           Has(file, at, q \o r)
    PROVE  Has(file, at, q) /\ Has(file, at + Len(q), r)
<1> DEFINE s == q \o r
           m == Len(q)
           n == Len(r)
           l == Len(file)
<1>1. /\ Len(s) = m + n /\ m \in Nat /\ n \in Nat
      /\ \A k \in 1 .. m : s[k] = q[k]
      /\ \A k \in 1 .. n : s[m + k] = r[k]
  BY ConcatIs
<1>2. \A k \in 1 .. Len(s) : at + k - 1 =< l => file[at + k - 1] = s[k]
  BY DEF Has
<1> HIDE DEF s, m, n, l
<1>3. ASSUME NEW k \in 1 .. m, at + k - 1 =< l PROVE file[at + k - 1] = q[k]
  BY <1>1, <1>2, <1>3
<1>4. ASSUME NEW k \in 1 .. n, (at + m) + k - 1 =< l PROVE file[(at + m) + k - 1] = r[k]
  <2>1. m + k \in 1 .. Len(s) /\ at + (m + k) - 1 = (at + m) + k - 1
    BY <1>1
  <2>2. file[at + (m + k) - 1] = s[m + k] /\ s[m + k] = r[k]
    BY <1>1, <1>2, <1>4, <2>1
  <2> QED
    BY <2>1, <2>2
<1> QED
  BY <1>3, <1>4 DEF Has, m, n, l

-------------------------------------------------------------------------------
(***************************************************************************)
(* Sequences of sequences, one after the other.                            *)
(***************************************************************************)
\* The function that FlattenSeq is defined by.
IsFlat(g, q, m) == g = [i \in 1 .. m |-> IF i = 1 THEN q[i] ELSE g[i - 1] \o q[i]]

LEMMA FlatAt ==
    ASSUME NEW g, NEW q, NEW m, IsFlat(g, q, m), NEW i \in 1 .. m
    PROVE  g[i] = IF i = 1 THEN q[i] ELSE g[i - 1] \o q[i]
<1>1. g = [j \in 1 .. m |-> IF j = 1 THEN q[j] ELSE g[j - 1] \o q[j]]
  BY DEF IsFlat
<1> QED
  BY <1>1, Zenon

LEMMA FlatExists == ASSUME NEW q, NEW n \in Nat PROVE \E g : IsFlat(g, q, n)
<1> DEFINE T == { m \in 0 .. n : \E g : IsFlat(g, q, m) }
<1>1. 0 \in T
  <2>1. IsFlat([i \in 1 .. 0 |-> q], q, 0)
    BY DEF IsFlat
  <2> QED
    BY <2>1
<1>2. ASSUME NEW m \in 0 .. n - 1, m \in T PROVE m + 1 \in T
  <2>1. PICK h : IsFlat(h, q, m)
    BY <1>2
  <2> DEFINE g == [i \in 1 .. m + 1 |-> IF i = 1 THEN q[i] ELSE h[i - 1] \o q[i]]
  <2>2. ASSUME NEW i \in 1 .. m PROVE g[i] = h[i]
    <3>1. h[i] = IF i = 1 THEN q[i] ELSE h[i - 1] \o q[i]
      BY <2>1, FlatAt
    <3>2. i \in 1 .. m + 1
      OBVIOUS
    <3> QED
      BY <3>1, <3>2, Zenon
  <2>3. ASSUME NEW i \in 1 .. m + 1
        PROVE  (IF i = 1 THEN q[i] ELSE h[i - 1] \o q[i]) = (IF i = 1 THEN q[i] ELSE g[i - 1] \o q[i])
    <3>1. CASE i = 1
      BY <3>1
    <3>2. CASE i # 1
      <4>1. i - 1 \in 1 .. m
        BY <3>2
      <4> HIDE DEF g
      <4> QED
        BY <2>2, <4>1
    <3> QED
      BY <3>1, <3>2
  <2>4. IsFlat(g, q, m + 1)
    <3>1. g = [i \in 1 .. m + 1 |-> IF i = 1 THEN q[i] ELSE g[i - 1] \o q[i]]
      BY <2>3, Zenon
    <3> QED
      BY <3>1 DEF IsFlat
  <2> QED
    BY <2>4
<1> HIDE DEF T
<1>3. n \in T
  BY <1>1, <1>2, UpTo
<1> QED
  BY <1>3 DEF T

\* What comes of the first elements, of all of them, and where in a file they are.
LEMMA Flattened ==
    ASSUME NEW S, NEW q \in Seq(Seq(S))
    PROVE  \E g \in [0 .. Len(q) -> Seq(S)] :
             /\ g[0] = << >> /\ g[Len(q)] = FlattenSeq(q)
             /\ \A k \in 1 .. Len(q) : g[k] = g[k - 1] \o q[k]
<1> DEFINE n == Len(q)
<1>1. n \in Nat
  OBVIOUS
<1>2. CASE n = 0
  <2>1. q = << >> /\ FlattenSeq(q) = << >>
    BY <1>2 DEF FlattenSeq
  <2> DEFINE g == [k \in 0 .. 0 |-> << >>]
  <2>2. g \in [0 .. n -> Seq(S)]
    BY <1>2
  <2>3. g[0] = << >> /\ g[n] = << >>
    BY <1>2
  <2>4. \A k \in 1 .. n : g[k] = g[k - 1] \o q[k]
    BY <1>2
  <2> HIDE DEF g
  <2> QED
    BY <2>1, <2>2, <2>3, <2>4
<1>3. CASE n # 0
  <2> DEFINE f == CHOOSE g : g = [i \in 1 .. Len(q) |-> IF i = 1 THEN q[i] ELSE g[i - 1] \o q[i]]
  <2>1. FlattenSeq(q) = f[n]
    BY <1>3 DEF FlattenSeq
  <2>2. \E g : g = [i \in 1 .. Len(q) |-> IF i = 1 THEN q[i] ELSE g[i - 1] \o q[i]]
    BY <1>1, FlatExists DEF IsFlat
  <2>3. f = [i \in 1 .. n |-> IF i = 1 THEN q[i] ELSE f[i - 1] \o q[i]]
    BY <2>2, Zenon
  <2> HIDE DEF f
  <2>a. IsFlat(f, q, n)
    BY <2>3 DEF IsFlat
  <2>4. ASSUME NEW k \in 1 .. n PROVE q[k] \in Seq(S) /\ f[k] = IF k = 1 THEN q[k] ELSE f[k - 1] \o q[k]
    <3>1. q[k] \in Seq(S)
      OBVIOUS
    <3> HIDE DEF n
    <3> QED
      BY <2>a, <3>1, FlatAt
  <2> DEFINE g == [k \in 0 .. n |-> IF k = 0 THEN << >> ELSE f[k]]
             T == { k \in 0 .. n : g[k] \in Seq(S) }
  <2>5. ASSUME NEW k \in 1 .. n, g[k - 1] \in Seq(S) PROVE g[k] = g[k - 1] \o q[k] /\ g[k] \in Seq(S)
    <3>1. g[k] = f[k] /\ k - 1 \in 0 .. n
      BY <1>1
    <3>2. CASE k = 1
      <4>1. g[k - 1] = << >> /\ g[k] = q[k]
        BY <2>4, <3>1, <3>2
      <4>2. << >> \o q[k] = q[k]
        BY <2>4
      <4> QED
        BY <2>4, <4>1, <4>2
    <3>3. CASE k # 1
      <4>0. k - 1 # 0
        BY <3>3
      <4>1. g[k - 1] = f[k - 1] /\ g[k] = f[k - 1] \o q[k]
        <5>1. g[k - 1] = f[k - 1]
          BY <3>1, <4>0, Zenon
        <5>2. f[k] = f[k - 1] \o q[k]
          BY <2>4, <3>3, Zenon
        <5> QED
          BY <3>1, <5>1, <5>2, Zenon
      <4> HIDE DEF g
      <4> QED
        BY <2>4, <2>5, <4>1
    <3> QED
      BY <3>2, <3>3
  <2>6. g[0] = << >> /\ g[n] = FlattenSeq(q)
    BY <1>1, <1>3, <2>1
  <2>7. 0 \in T
    BY <1>1, <2>6
  <2>8. ASSUME NEW k \in 0 .. n - 1, k \in T PROVE k + 1 \in T
    <3>1. k + 1 \in 1 .. n /\ (k + 1) - 1 = k
      BY <1>1
    <3>2. k \in 0 .. n /\ g[k] \in Seq(S)
      BY <2>8, Zenon
    <3>3. g[(k + 1) - 1] \in Seq(S)
      BY <3>1, <3>2, Zenon
    <3>4. g[k + 1] \in Seq(S)
      BY <2>5, <3>1, <3>3, Zenon
    <3>5. k + 1 \in 0 .. n
      BY <3>1
    <3> QED
      BY <3>4, <3>5, Zenon
  <2>9. \A k \in 0 .. n : k \in T
    <3> HIDE DEF T
    <3> QED
      BY <1>1, <2>7, <2>8, UpTo
  <2>10. g \in [0 .. n -> Seq(S)]
    BY <2>9
  <2>11. ASSUME NEW k \in 1 .. n PROVE g[k] = g[k - 1] \o q[k]
    <3>1. k - 1 \in 0 .. n
      BY <1>1
    <3> HIDE DEF g
    <3> QED
      BY <2>5, <2>9, <3>1
  <2> HIDE DEF g
  <2> QED
    BY <2>6, <2>10, <2>11
<1> QED
  BY <1>2, <1>3

LEMMA FlattenedHas ==
    ASSUME NEW S, NEW q \in Seq(Seq(S)), NEW file, NEW at \in Nat,
           NEW g \in [0 .. Len(q) -> Seq(S)], g[0] = << >>, g[Len(q)] = FlattenSeq(q),
           \A k \in 1 .. Len(q) : g[k] = g[k - 1] \o q[k],
           Has(file, at, FlattenSeq(q))
    PROVE  \A k \in 1 .. Len(q) : Has(file, at + Len(g[k - 1]), q[k])
<1> DEFINE n == Len(q)
           T == { j \in 0 .. n : Has(file, at, g[n - j]) }
<1>1. n \in Nat /\ \A k \in 1 .. n : q[k] \in Seq(S)
  OBVIOUS
<1>2. ASSUME NEW k \in 1 .. n, Has(file, at, g[k])
      PROVE  Has(file, at, g[k - 1]) /\ Has(file, at + Len(g[k - 1]), q[k])
  <2>0. k - 1 \in 0 .. n
    BY <1>1
  <2>1. g[k - 1] \in Seq(S)
    BY <2>0, Zenon
  <2>2. q[k] \in Seq(S) /\ g[k] = g[k - 1] \o q[k]
    BY <1>1, Zenon
  <2>3. Has(file, at, g[k - 1] \o q[k])
    BY <1>2, <2>2, Zenon
  <2> QED
    BY <2>1, <2>2, <2>3, HasParts, Zenon
<1>3. 0 \in T
  BY <1>1
<1>4. ASSUME NEW j \in 0 .. n - 1, j \in T PROVE j + 1 \in T
  <2>1. n - j \in 1 .. n /\ (n - j) - 1 = n - (j + 1) /\ j + 1 \in 0 .. n
    BY <1>1
  <2>2. Has(file, at, g[n - j])
    BY <1>4
  <2>3. Has(file, at, g[n - (j + 1)])
    BY <1>2, <2>1, <2>2
  <2> QED
    BY <2>1, <2>3
<1>5. \A j \in 0 .. n : j \in T
  <2> HIDE DEF T
  <2> QED
    BY <1>1, <1>3, <1>4, UpTo
<1>6. ASSUME NEW k \in 1 .. n PROVE Has(file, at, g[k])
  <2>1. n - k \in 0 .. n /\ n - (n - k) = k
    BY <1>1
  <2> HIDE DEF n
  <2> QED
    BY <1>5, <2>1
<1> QED
  BY <1>2, <1>6

-------------------------------------------------------------------------------
(***************************************************************************)
(* Readers.                                                                *)
(***************************************************************************)
LEMMA WordReads ==
    ASSUME NEW file, Len(file) \in Nat, NEW at \in Nat, NEW w, IsWord(w), Has(file, at, WordBytes(w))
    PROVE  read_word(file, at) = Result(file, at, WordBytes(w), w) /\ Len(WordBytes(w)) = 4
<1> DEFINE b == WordBytes(w)
           l == Len(file)
<1>1. Len(b) = 4 /\ Three * b[1] + Half * b[2] + Byte * b[3] + b[4] = w
  BY WordIs
<1>2. \A k \in 1 .. 4 : at + k - 1 =< l => file[at + k - 1] = b[k]
  BY <1>1 DEF Has
<1>3. CASE Available(file, at, 4)
  <2>1. at + 3 =< l
    BY <1>3 DEF Available
  <2> HIDE DEF b, l
  <2>2. /\ at + 1 - 1 = at /\ at + 2 - 1 = at + 1 /\ at + 3 - 1 = at + 2 /\ at + 4 - 1 = at + 3
        /\ at =< l /\ at + 1 =< l /\ at + 2 =< l
    BY <2>1 DEF l
  <2>3. file[at] = b[1] /\ file[at + 1] = b[2] /\ file[at + 2] = b[3] /\ file[at + 3] = b[4]
    BY <1>2, <2>1, <2>2
  <2>4. read_word(file, at) = Reads(w, at + 4)
    BY <1>1, <1>3, <2>3, Zenon DEF read_word
  <2> QED
    BY <1>1, <1>3, <2>4 DEF Result, b
<1>4. CASE ~Available(file, at, 4)
  <2> QED
    BY <1>1, <1>4 DEF read_word, Result
<1> QED
  BY <1>1, <1>3, <1>4

LEMMA ByteReads ==
    ASSUME NEW file, Len(file) \in Nat, NEW at \in Nat, NEW b, Has(file, at, <<b>>)
    PROVE  read_byte(file, at) = Result(file, at, <<b>>, b) /\ Len(<<b>>) = 1
<1> DEFINE l == Len(file)
<1>1. Len(<<b>>) = 1 /\ <<b>>[1] = b
  OBVIOUS
<1>2. at =< l => file[at] = b
  <2>1. 1 \in 1 .. Len(<<b>>) /\ at + 1 - 1 = at
    BY <1>1
  <2> QED
    BY <1>1, <2>1 DEF Has
<1>3. Available(file, at, 1) => at =< l
  BY DEF Available
<1> QED
  BY <1>1, <1>2, <1>3 DEF read_byte, Result

LEMMA DoubleReads ==
    ASSUME NEW file, Len(file) \in Nat, NEW at \in Nat, NEW v, Has(file, at, DoubleBytes(v))
    PROVE  read_double(file, at) = Result(file, at, DoubleBytes(v), v) /\ Len(DoubleBytes(v)) = 8
<1> DEFINE l == Len(file)
           b == DoubleBytes(v)
<1>1. Len(b) = 8 /\ b[1] = <<v, 1>>
  BY DEF DoubleBytes
<1>2. at =< l => file[at] = b[1]
  <2>1. 1 \in 1 .. Len(b) /\ at + 1 - 1 = at
    BY <1>1
  <2> QED
    BY <2>1 DEF Has
<1>3. Available(file, at, 8) => at =< l
  BY DEF Available
<1> QED
  BY <1>1, <1>2, <1>3 DEF read_double, Result

LEMMA InstructionReads ==
    ASSUME NEW file, Len(file) \in Nat, NEW at \in Nat, NEW ins \in InstructionType,
           Has(file, at, WordBytes(to_binary(ins)))
    PROVE  read_instruction(file, at) = Result(file, at, WordBytes(to_binary(ins)), ins)
<1> DEFINE w == to_binary(ins)
<1>1. IsWord(w) /\ IsInstructionWord(w) /\ from_binary(w) = ins
  BY InstructionWord
<1>2. read_word(file, at) = Result(file, at, WordBytes(w), w)
  BY <1>1, WordReads
<1> HIDE DEF w
<1>3. CASE Available(file, at, Len(WordBytes(w)))
  <2>1. read_word(file, at) = Reads(w, at + Len(WordBytes(w)))
    BY <1>2, <1>3 DEF Result
  <2>2. read_instruction(file, at) = Reads(ins, at + Len(WordBytes(w)))
    BY <1>1, <2>1 DEF read_instruction, Reads
  <2> QED
    BY <1>3, <2>2 DEF Result, w
<1>4. CASE ~Available(file, at, Len(WordBytes(w)))
  <2>1. read_word(file, at) = Fails
    BY <1>2, <1>4 DEF Result
  <2>2. read_instruction(file, at) = Fails
    BY <2>1 DEF read_instruction, Fails
  <2> QED
    BY <1>4, <2>2 DEF Result, w
<1> QED
  BY <1>3, <1>4

\* The elements of the vectors that are read at once.
Elements(type, V) == IF type = "instruction" THEN InstructionType ELSE V
Encoded(type, e)  == IF type = "instruction" THEN WordBytes(to_binary(e)) ELSE DoubleBytes(e)

LEMMA FunctionIsSeq ==
    ASSUME NEW S, NEW n \in Nat, NEW f \in [1 .. n -> S]
    PROVE  f \in Seq(S) /\ Len(f) = n
OBVIOUS

\* They are bytes, of one width.
LEMMA WordBytesAre ==
    ASSUME NEW V, NEW w, IsWord(w)
    PROVE  WordBytes(w) \in Seq(FileByte(V)) /\ Len(WordBytes(w)) = 4
<1>1. WordBytes(w) \in Seq(0 .. Byte - 1) /\ Len(WordBytes(w)) = 4
  BY WordIs
<1>2. \A B, C : B \subseteq C => Seq(B) \subseteq Seq(C)
  OBVIOUS
<1>3. (0 .. Byte - 1) \subseteq FileByte(V)
  BY Zenon DEF FileByte
<1> QED
  BY <1>1, <1>2, <1>3, Zenon

LEMMA EncodedIs ==
    ASSUME NEW V, NEW type \in {"instruction", "double"}, NEW e \in Elements(type, V)
    PROVE  /\ Encoded(type, e) \in Seq(FileByte(V)) /\ Len(Encoded(type, e)) = Width[type]
           /\ Width[type] \in {4, 8}
<1>1. CASE type = "instruction"
  <2>1. IsWord(to_binary(e))
    BY <1>1, InstructionWord DEF Elements
  <2>2. WordBytes(to_binary(e)) \in Seq(FileByte(V)) /\ Len(WordBytes(to_binary(e))) = 4
    BY <2>1, WordBytesAre
  <2> QED
    BY <1>1, <2>2 DEF Encoded, Width
<1>2. CASE type = "double"
  <2>1. e \in V
    BY <1>2 DEF Elements
  <2>2. \A k \in 1 .. 8 : <<e, k>> \in FileByte(V)
    BY <2>1 DEF FileByte
  <2> DEFINE B == FileByte(V)
             d == [k \in 1 .. 8 |-> <<e, k>>]
  <2>3. d \in [1 .. 8 -> B]
    <3> HIDE DEF B
    <3> QED
      BY <2>2 DEF B
  <2> HIDE DEF B, d
  <2>4. d \in Seq(B) /\ Len(d) = 8
    BY <2>3, FunctionIsSeq
  <2> QED
    BY <1>2, <2>4, SMT DEF Encoded, Width, DoubleBytes, B, d
<1> QED
  BY <1>1, <1>2

LEMMA ElementReads ==
    ASSUME NEW file, Len(file) \in Nat, NEW at \in Nat, NEW V, NEW type \in {"instruction", "double"},
           NEW e \in Elements(type, V), Has(file, at, Encoded(type, e))
    PROVE  read_element(type, file, at) = Result(file, at, Encoded(type, e), e)
<1>1. CASE type = "instruction"
  BY <1>1, InstructionReads DEF Elements, Encoded, read_element
<1>2. CASE type = "double"
  <2>1. Has(file, at, DoubleBytes(e))
    BY <1>2 DEF Encoded
  <2> QED
    BY <1>2, <2>1, DoubleReads DEF Encoded, read_element
<1> QED
  BY <1>1, <1>2
-------------------------------------------------------------------------------
(***************************************************************************)
(* Vectors.                                                                *)
(***************************************************************************)
\* Sequences of one length, one after the other.
LEMMA EqualWidths ==
    ASSUME NEW S, NEW q \in Seq(Seq(S)), NEW W \in {4, 8}, \A k \in 1 .. Len(q) : Len(q[k]) = W
    PROVE  /\ FlattenSeq(q) \in Seq(S) /\ Len(FlattenSeq(q)) = Len(q) * W
           /\ \A file : \A at \in Nat : Has(file, at, FlattenSeq(q)) =>
                \A k \in 1 .. Len(q) : Has(file, at + (k - 1) * W, q[k])
<1> DEFINE n == Len(q)
<1>1. n \in Nat /\ \A k \in 1 .. n : q[k] \in Seq(S)
  OBVIOUS
<1>2. PICK g \in [0 .. n -> Seq(S)] :
        /\ g[0] = << >> /\ g[n] = FlattenSeq(q)
        /\ \A k \in 1 .. n : g[k] = g[k - 1] \o q[k]
  BY Flattened
<1> DEFINE T == { k \in 0 .. n : Len(g[k]) = k * W }
<1>3. 0 \in T
  BY <1>1, <1>2
<1>4. ASSUME NEW k \in 0 .. n - 1, k \in T PROVE k + 1 \in T
  <2> DEFINE j == k + 1
  <2>1. j \in 1 .. n /\ j - 1 = k /\ j \in 0 .. n /\ k \in 0 .. n
    BY <1>1
  <2>2. g[j] = g[k] \o q[j] /\ g[k] \in Seq(S) /\ q[j] \in Seq(S)
    <3>1. g[j] = g[j - 1] \o q[j]
      BY <1>2, <2>1, Zenon
    <3> QED
      BY <1>1, <2>1, <3>1, Zenon
  <2>3. Len(g[j]) = Len(g[k]) + Len(q[j])
    <3>1. Len(g[k] \o q[j]) = Len(g[k]) + Len(q[j])
      BY <2>2, ConcatIs
    <3> QED
      BY <2>2, <3>1, Zenon
  <2>4. Len(g[k]) = k * W
    BY <1>4
  <2>5. Len(q[j]) = W
    BY <2>1, Zenon
  <2>6. k * W + W = j * W
    BY SMT
  <2>7. Len(g[j]) = j * W
    <3> HIDE DEF j, n
    <3> QED
      BY <2>3, <2>4, <2>5, <2>6
  <2> QED
    BY <2>1, <2>7
<1>5. ASSUME NEW k \in 0 .. n PROVE Len(g[k]) = k * W
  <2>1. \A i \in 0 .. n : i \in T
    <3> HIDE DEF T
    <3> QED
      BY <1>1, <1>3, <1>4, UpTo
  <2> QED
    BY <2>1
<1>6. FlattenSeq(q) \in Seq(S) /\ Len(FlattenSeq(q)) = n * W
  <2>1. n \in 0 .. n
    BY <1>1
  <2> HIDE DEF n
  <2> QED
    BY <1>2, <1>5, <2>1, Zenon
<1>7. ASSUME NEW file, NEW at \in Nat, Has(file, at, FlattenSeq(q)), NEW k \in 1 .. n
      PROVE  Has(file, at + (k - 1) * W, q[k])
  <2>1. \A i \in 1 .. n : Has(file, at + Len(g[i - 1]), q[i])
    BY <1>2, <1>7, FlattenedHas, Zenon
  <2>2. k - 1 \in 0 .. n
    BY <1>1
  <2>3. Len(g[k - 1]) = (k - 1) * W
    BY <1>5, <2>2, Zenon
  <2> QED
    BY <2>1, <2>3, Zenon
<1> QED
  BY <1>6, <1>7

\* The bytes of a vector.
VectorBytes(type, q) == write_vector([k \in DOMAIN q |-> Encoded(type, q[k])])

LEMMA VectorIs ==
    ASSUME NEW V, NEW type \in {"instruction", "double"}, NEW q \in Seq(Elements(type, V)), IsCounted(q)
    PROVE  /\ VectorBytes(type, q) \in Seq(FileByte(V)) /\ Len(VectorBytes(type, q)) = 4 + Len(q) * Width[type]
           /\ Len(q) \in Nat /\ IsWord(Len(q)) /\ Width[type] \in {4, 8}
           /\ \A file : \A at \in Nat : Has(file, at, VectorBytes(type, q)) =>
                /\ Has(file, at, WordBytes(Len(q)))
                /\ \A k \in 1 .. Len(q) : Has(file, at + 4 + (k - 1) * Width[type], Encoded(type, q[k]))
<1> DEFINE n == Len(q)
           S == FileByte(V)
           W == Width[type]
           x == [k \in DOMAIN q |-> Encoded(type, q[k])]
<1>1. n \in Nat /\ DOMAIN q = 1 .. n /\ \A k \in 1 .. n : q[k] \in Elements(type, V)
  OBVIOUS
<1>2. IsWord(n)
  BY <1>1 DEF IsWord, IsCounted
<1>3. W \in {4, 8}
  BY DEF Width
<1>4. \A k \in 1 .. n : Encoded(type, q[k]) \in Seq(S) /\ Len(Encoded(type, q[k])) = W
  BY <1>1, EncodedIs
<1>5. x \in [1 .. n -> Seq(S)] /\ \A k \in 1 .. n : x[k] = Encoded(type, q[k])
  <2> HIDE DEF S, n
  <2> QED
    BY <1>1, <1>4
<1> HIDE DEF S, n, W, x
<1>6. x \in Seq(Seq(S)) /\ Len(x) = n
  BY <1>1, <1>5, FunctionIsSeq
<1>7. \A k \in 1 .. Len(x) : Len(x[k]) = W
  BY <1>4, <1>5, <1>6
<1>8. /\ FlattenSeq(x) \in Seq(S) /\ Len(FlattenSeq(x)) = n * W
      /\ \A file : \A at \in Nat : Has(file, at, FlattenSeq(x)) =>
           \A k \in 1 .. n : Has(file, at + (k - 1) * W, x[k])
  <2>1. /\ FlattenSeq(x) \in Seq(S) /\ Len(FlattenSeq(x)) = Len(x) * W
        /\ \A file : \A at \in Nat : Has(file, at, FlattenSeq(x)) =>
             \A k \in 1 .. Len(x) : Has(file, at + (k - 1) * W, x[k])
    BY <1>3, <1>6, <1>7, EqualWidths, Zenon
  <2> QED
    BY <1>6, <2>1, Zenon
<1>9. WordBytes(n) \in Seq(S) /\ Len(WordBytes(n)) = 4
  BY <1>2, WordBytesAre DEF S
<1>10. VectorBytes(type, q) = WordBytes(n) \o FlattenSeq(x)
  <2>1. VectorBytes(type, q) = WordBytes(Len(x)) \o FlattenSeq(x)
    BY DEF VectorBytes, write_vector, x
  <2> QED
    BY <1>6, <2>1, Zenon
<1>11. VectorBytes(type, q) \in Seq(S) /\ Len(VectorBytes(type, q)) = 4 + n * W
  <2>1. /\ WordBytes(n) \o FlattenSeq(x) \in Seq(S)
        /\ Len(WordBytes(n) \o FlattenSeq(x)) = Len(WordBytes(n)) + Len(FlattenSeq(x))
    BY <1>8, <1>9, ConcatIs
  <2> QED
    BY <1>8, <1>9, <1>10, <2>1, Zenon
<1>12. ASSUME NEW file, NEW at \in Nat, Has(file, at, VectorBytes(type, q))
       PROVE  /\ Has(file, at, WordBytes(n))
              /\ \A k \in 1 .. n : Has(file, at + 4 + (k - 1) * W, Encoded(type, q[k]))
  <2>1. Has(file, at, WordBytes(n)) /\ Has(file, at + 4, FlattenSeq(x))
    BY <1>8, <1>9, <1>10, <1>12, HasParts, Zenon
  <2>2. at + 4 \in Nat
    OBVIOUS
  <2>3. \A k \in 1 .. n : Has(file, at + 4 + (k - 1) * W, x[k])
    BY <1>8, <2>1, <2>2, Zenon
  <2> QED
    BY <1>5, <2>1, <2>3, Zenon
<1> QED
  BY <1>1, <1>2, <1>3, <1>11, <1>12 DEF S, n, W

LEMMA VectorReads ==
    ASSUME NEW file, Len(file) \in Nat, NEW at \in Nat, NEW V, NEW type \in {"instruction", "double"},
           NEW q \in Seq(Elements(type, V)), IsCounted(q), Has(file, at, VectorBytes(type, q))
    PROVE  read_vector(type, file, at) = Result(file, at, VectorBytes(type, q), q)
<1> DEFINE n == Len(q)
           W == Width[type]
           l == Len(file)
           elements == [k \in 1 .. n |-> read_element(type, file, at + 4 + (k - 1) * W)]
<1>1. /\ Len(VectorBytes(type, q)) = 4 + n * W /\ n \in Nat /\ IsWord(n) /\ W \in {4, 8} /\ l \in Nat
      /\ Has(file, at, WordBytes(n))
      /\ \A k \in 1 .. n : Has(file, at + 4 + (k - 1) * W, Encoded(type, q[k]))
  BY VectorIs
<1>2. read_word(file, at) = Result(file, at, WordBytes(n), n) /\ Len(WordBytes(n)) = 4
  BY <1>1, WordReads
<1>3. ASSUME NEW k \in 1 .. n
      PROVE  elements[k] = IF Available(file, at + 4 + (k - 1) * W, W)
                             THEN Reads(q[k], at + 4 + (k - 1) * W + W) ELSE Fails
  <2>1. q[k] \in Elements(type, V)
    OBVIOUS
  <2>2. Len(Encoded(type, q[k])) = W
    BY <2>1, EncodedIs
  <2>3. at + 4 + (k - 1) * W \in Nat
    <3>1. \A w \in {4, 8} : \A i \in Nat : at + 4 + i * w \in Nat
      BY SMT
    <3>2. k - 1 \in Nat
      <4> HIDE DEF n, W, l
      <4> QED
        BY <1>1
    <3> HIDE DEF n, W, l, elements
    <3> QED
      BY <1>1, <3>1, <3>2, Zenon
  <2>4. read_element(type, file, at + 4 + (k - 1) * W) = Result(file, at + 4 + (k - 1) * W, Encoded(type, q[k]), q[k])
    <3> HIDE DEF n, W
    <3> QED
      BY <1>1, <2>1, <2>3, ElementReads, Zenon
  <2> QED
    BY <2>2, <2>4, Zenon DEF Result
<1>4. CASE ~Available(file, at, 4)
  <2>1. read_word(file, at) = Fails
    BY <1>2, <1>4 DEF Result
  <2>2. ~read_word(file, at).ok
    BY <2>1 DEF Fails
  <2>3. read_vector(type, file, at) = Fails
    BY <2>2, Zenon DEF read_vector
  <2>4. ~Available(file, at, 4 + n * W)
    BY <1>1, <1>4, SMT DEF Available
  <2> QED
    BY <1>1, <2>3, <2>4 DEF Result
<1>5. CASE Available(file, at, 4)
  <2>1. read_word(file, at) = Reads(n, at + 4)
    BY <1>2, <1>5 DEF Result
  <2>2. read_word(file, at).ok /\ read_word(file, at).value = n /\ read_word(file, at).next = at + 4
    BY <2>1 DEF Reads
  <2>3. read_vector(type, file, at) =
          IF \A k \in 1 .. n : elements[k].ok
            THEN Reads([k \in 1 .. n |-> elements[k].value], at + 4 + n * W) ELSE Fails
    BY <2>2, Zenon DEF read_vector
  <2> HIDE DEF elements, n, W, l
  <2>4. CASE Available(file, at, 4 + n * W)
    <3>1. ASSUME NEW k \in 1 .. n PROVE Available(file, at + 4 + (k - 1) * W, W)
      BY <1>1, <2>4, SMT DEF Available, l
    <3>2. ASSUME NEW k \in 1 .. n PROVE elements[k].ok /\ elements[k].value = q[k]
      <4>1. elements[k] = Reads(q[k], at + 4 + (k - 1) * W + W)
        BY <1>3, <3>1, Zenon
      <4> QED
        BY <4>1 DEF Reads
    <3>3. q = [k \in 1 .. n |-> q[k]]
      BY DEF n
    <3>4. [k \in 1 .. n |-> elements[k].value] = q
      BY <3>2, <3>3, Zenon
    <3>5. read_vector(type, file, at) = Reads(q, at + 4 + n * W)
      BY <2>3, <3>2, <3>4, Zenon
    <3>6. at + 4 + n * W = at + (4 + n * W)
      BY <1>1
    <3> QED
      BY <1>1, <2>4, <3>5, <3>6, Zenon DEF Result
  <2>5. CASE ~Available(file, at, 4 + n * W)
    <3>1. n \in 1 .. n /\ ~Available(file, at + 4 + (n - 1) * W, W)
      BY <1>1, <1>5, <2>5, SMT DEF Available, l
    <3>2. elements[n] = Fails
      BY <1>3, <3>1, Zenon
    <3>3. ~elements[n].ok
      BY <3>2 DEF Fails
    <3>4. read_vector(type, file, at) = Fails
      BY <2>3, <3>1, <3>3, Zenon
    <3> QED
      BY <1>1, <2>5, <3>4, Zenon DEF Result
  <2> QED
    BY <2>4, <2>5
<1> QED
  BY <1>4, <1>5
-------------------------------------------------------------------------------
(***************************************************************************)
(* Frames.                                                                 *)
(***************************************************************************)
\* What is made of two parts is there if both are.
LEMMA BothAvailable ==
    ASSUME NEW file, Len(file) \in Nat, NEW at \in Nat, NEW m \in Nat, NEW n \in Nat
    PROVE  Available(file, at, m + n) <=> Available(file, at, m) /\ Available(file, at + m, n)
BY DEF Available

\* A frame whose code can be counted.
IsFrame(frame) == frame \in FrameType /\ IsCounted(frame.code)

LEMMA FrameIs ==
    ASSUME NEW V, NEW frame, IsFrame(frame)
    PROVE  /\ write_frame(frame) = <<frame.size>> \o VectorBytes("instruction", frame.code)
           /\ <<frame.size>> \in Seq(FileByte(V))
           /\ VectorBytes("instruction", frame.code) \in Seq(FileByte(V))
           /\ frame.code \in Seq(Elements("instruction", V))
           /\ frame = [size |-> frame.size, code |-> frame.code]
<1>1. /\ frame.size \in 0 .. Byte - 1 /\ frame.code \in Seq(InstructionType)
      /\ frame = [size |-> frame.size, code |-> frame.code]
  BY Zenon DEF IsFrame, FrameType
<1>2. frame.code \in Seq(Elements("instruction", V))
  BY <1>1, Zenon DEF Elements
<1>3. VectorBytes("instruction", frame.code) \in Seq(FileByte(V))
  BY <1>2, VectorIs DEF IsFrame
<1>4. <<frame.size>> \in Seq(FileByte(V))
  <2>1. frame.size \in FileByte(V)
    BY <1>1, Zenon DEF FileByte
  <2> QED
    BY <2>1
<1>5. write_frame(frame) = <<frame.size>> \o VectorBytes("instruction", frame.code)
  BY Zenon DEF write_frame, VectorBytes, Encoded
<1> QED
  BY <1>1, <1>2, <1>3, <1>4, <1>5

LEMMA FrameReads ==
    ASSUME NEW file, Len(file) \in Nat, NEW at \in Nat, NEW V, NEW frame, IsFrame(frame),
           Has(file, at, write_frame(frame))
    PROVE  read_frame(file, at) = Result(file, at, write_frame(frame), frame)
<1> DEFINE q == <<frame.size>>
           r == VectorBytes("instruction", frame.code)
           m == Len(r)
<1>1. /\ write_frame(frame) = q \o r /\ q \in Seq(FileByte(V)) /\ r \in Seq(FileByte(V))
      /\ frame.code \in Seq(Elements("instruction", V)) /\ IsCounted(frame.code)
      /\ frame = [size |-> frame.size, code |-> frame.code]
  BY FrameIs DEF IsFrame
<1>2. Len(q) = 1 /\ m \in Nat /\ Len(q \o r) = 1 + m
  BY <1>1, ConcatIs
<1>3. Has(file, at, q) /\ Has(file, at + 1, r)
  <2>1. Has(file, at, q) /\ Has(file, at + Len(q), r)
    <3> HIDE DEF q, r
    <3> QED
      BY <1>1, HasParts
  <2> QED
    BY <1>2, <2>1
<1>4. read_byte(file, at) = Result(file, at, q, frame.size)
  BY <1>3, ByteReads
<1>5. read_vector("instruction", file, at + 1) = Result(file, at + 1, r, frame.code)
  <2>1. at + 1 \in Nat
    OBVIOUS
  <2> QED
    BY <1>1, <1>3, <2>1, VectorReads
<1> HIDE DEF q, r, m
<1>6. Available(file, at, 1 + m) <=> Available(file, at, 1) /\ Available(file, at + 1, m)
  BY <1>2, BothAvailable
<1>7. CASE ~Available(file, at, 1)
  <2>1. ~read_byte(file, at).ok
    BY <1>2, <1>4, <1>7 DEF Result, Fails
  <2>2. read_frame(file, at) = Fails
    BY <2>1, Zenon DEF read_frame
  <2> QED
    BY <1>1, <1>2, <1>6, <1>7, <2>2, Zenon DEF Result
<1>8. CASE Available(file, at, 1)
  <2>1. read_byte(file, at) = Reads(frame.size, at + 1)
    BY <1>2, <1>4, <1>8 DEF Result
  <2>2. read_byte(file, at).ok /\ read_byte(file, at).value = frame.size /\ read_byte(file, at).next = at + 1
    BY <2>1 DEF Reads
  <2>3. CASE ~Available(file, at + 1, m)
    <3>1. ~read_vector("instruction", file, at + 1).ok
      BY <1>5, <2>3 DEF Result, Fails, m
    <3>2. read_frame(file, at) = Fails
      BY <2>2, <3>1, Zenon DEF read_frame
    <3> QED
      BY <1>1, <1>2, <1>6, <2>3, <3>2, Zenon DEF Result
  <2>4. CASE Available(file, at + 1, m)
    <3>1. read_vector("instruction", file, at + 1) = Reads(frame.code, at + 1 + m)
      BY <1>5, <2>4 DEF Result, m
    <3>2. /\ read_vector("instruction", file, at + 1).ok
          /\ read_vector("instruction", file, at + 1).value = frame.code
          /\ read_vector("instruction", file, at + 1).next = at + 1 + m
      BY <3>1 DEF Reads
    <3>3. read_frame(file, at) = Reads([size |-> frame.size, code |-> frame.code], at + 1 + m)
      BY <2>2, <3>2, Zenon DEF read_frame
    <3>4. at + 1 + m = at + (1 + m)
      BY <1>2
    <3> QED
      BY <1>1, <1>2, <1>6, <1>8, <2>4, <3>3, <3>4, Zenon DEF Result
  <2> QED
    BY <2>3, <2>4
<1> QED
  BY <1>7, <1>8

\* Reading one more frame, and the function that read_frames is defined by.
NextFrame(file, before) ==
    LET frame == read_frame(file, before.next)
    IN  IF before.ok /\ frame.ok THEN Reads(Append(before.value, frame.value), frame.next) ELSE Fails
IsFirst(f, file, n, at) ==
    f = [k \in 0 .. n |-> IF k = 0 THEN Reads(<< >>, at) ELSE NextFrame(file, f[k - 1])]

LEMMA FirstAt ==
    ASSUME NEW f, NEW file, NEW n, NEW at, IsFirst(f, file, n, at), NEW k \in 0 .. n
    PROVE  f[k] = IF k = 0 THEN Reads(<< >>, at) ELSE NextFrame(file, f[k - 1])
<1>1. f = [j \in 0 .. n |-> IF j = 0 THEN Reads(<< >>, at) ELSE NextFrame(file, f[j - 1])]
  BY DEF IsFirst
<1> QED
  BY <1>1, Zenon

LEMMA ReadFramesIs ==
    ASSUME NEW file, NEW at, NEW n, read_word(file, at) = Reads(n, at + 4),
           NEW f, IsFirst(f, file, n, at + 4)
    PROVE  \E first : IsFirst(first, file, n, at + 4) /\ read_frames(file, at) = first[n]
<1> DEFINE first == CHOOSE g : IsFirst(g, file, n, at + 4)
<1>1. IsFirst(first, file, n, at + 4)
  OBVIOUS
<1>2. read_word(file, at).ok /\ read_word(file, at).value = n /\ read_word(file, at).next = at + 4
  BY DEF Reads
<1>3. read_frames(file, at) = first[n]
  <2> DEFINE size == read_word(file, at)
  <2>1. read_frames(file, at) =
          IF size.ok THEN (CHOOSE g : IsFirst(g, file, size.value, size.next))[size.value] ELSE Fails
    BY DEF read_frames, IsFirst, NextFrame
  <2> HIDE DEF size
  <2>2. size.ok /\ size.value = n /\ size.next = at + 4
    BY <1>2 DEF size
  <2> QED
    BY <2>1, <2>2, Zenon
<1> QED
  BY <1>1, <1>3

\* The bytes of frames.
FramesBytes(frames) == write_vector([k \in DOMAIN frames |-> write_frame(frames[k])])

LEMMA FramesAre ==
    ASSUME NEW V, NEW frames, IsCounted(frames), NEW F, frames \in Seq(F), \A frame \in F : IsFrame(frame)
    PROVE  \E x \in Seq(Seq(FileByte(V))) :
             /\ Len(x) = Len(frames) /\ \A k \in 1 .. Len(frames) : x[k] = write_frame(frames[k])
             /\ FramesBytes(frames) = WordBytes(Len(frames)) \o FlattenSeq(x)
             /\ IsWord(Len(frames)) /\ FlattenSeq(x) \in Seq(FileByte(V))
<1> DEFINE n == Len(frames)
           S == FileByte(V)
           x == [k \in DOMAIN frames |-> write_frame(frames[k])]
<1>1. n \in Nat /\ DOMAIN frames = 1 .. n /\ \A k \in 1 .. n : IsFrame(frames[k])
  OBVIOUS
<1>2. IsWord(n)
  BY <1>1 DEF IsWord, IsCounted
<1>3. ASSUME NEW k \in 1 .. n PROVE write_frame(frames[k]) \in Seq(S)
  <2> DEFINE q == <<frames[k].size>>
             r == VectorBytes("instruction", frames[k].code)
  <2>1. write_frame(frames[k]) = q \o r /\ q \in Seq(S) /\ r \in Seq(S)
    BY <1>1, FrameIs
  <2> HIDE DEF q, r, S
  <2> QED
    BY <2>1
<1>4. x \in [1 .. n -> Seq(S)] /\ \A k \in 1 .. n : x[k] = write_frame(frames[k])
  <2> HIDE DEF S, n
  <2> QED
    BY <1>1, <1>3
<1> HIDE DEF S, n, x
<1>5. x \in Seq(Seq(S)) /\ Len(x) = n
  BY <1>1, <1>4, FunctionIsSeq
<1>6. FramesBytes(frames) = WordBytes(n) \o FlattenSeq(x)
  <2>1. FramesBytes(frames) = WordBytes(Len(x)) \o FlattenSeq(x)
    BY DEF FramesBytes, write_vector, x
  <2> QED
    BY <1>5, <2>1, Zenon
<1>7. FlattenSeq(x) \in Seq(S)
  <2>1. PICK g \in [0 .. Len(x) -> Seq(S)] : g[Len(x)] = FlattenSeq(x)
    BY <1>5, Flattened
  <2>2. Len(x) \in 0 .. Len(x)
    BY <1>1, <1>5
  <2> QED
    BY <2>1, <2>2, Zenon
<1> QED
  BY <1>2, <1>4, <1>5, <1>6, <1>7, Zenon DEF n, S

\* The frames that are read, one after the other: as many as there are bytes for.
LEMMA FramesReads ==
    ASSUME NEW file, Len(file) \in Nat, NEW at \in Nat, NEW V, NEW frames, IsCounted(frames),
           NEW F, frames \in Seq(F), \A frame \in F : IsFrame(frame),
           Has(file, at, FramesBytes(frames))
    PROVE  read_frames(file, at) = Result(file, at, FramesBytes(frames), frames)
<1> DEFINE n == Len(frames)
           S == FileByte(V)
           from == at + 4
<1>1. n \in Nat /\ from \in Nat /\ \A k \in 1 .. n : frames[k] \in F /\ IsFrame(frames[k])
  OBVIOUS
<1>2. PICK x \in Seq(Seq(S)) :
        /\ Len(x) = n /\ \A k \in 1 .. n : x[k] = write_frame(frames[k])
        /\ FramesBytes(frames) = WordBytes(n) \o FlattenSeq(x) /\ IsWord(n) /\ FlattenSeq(x) \in Seq(S)
  BY FramesAre
<1> HIDE DEF S, n, from
<1>3. PICK g \in [0 .. n -> Seq(S)] :
        /\ g[0] = << >> /\ g[n] = FlattenSeq(x)
        /\ \A k \in 1 .. n : g[k] = g[k - 1] \o x[k]
  BY <1>2, Flattened
<1>4. /\ WordBytes(n) \in Seq(S) /\ Len(WordBytes(n)) = 4
      /\ Has(file, at, WordBytes(n)) /\ Has(file, from, FlattenSeq(x))
  <2>1. WordBytes(n) \in Seq(S) /\ Len(WordBytes(n)) = 4
    BY <1>2, WordBytesAre DEF S
  <2>2. Has(file, at, WordBytes(n) \o FlattenSeq(x))
    BY <1>2, Zenon
  <2>3. Has(file, at, WordBytes(n)) /\ Has(file, at + Len(WordBytes(n)), FlattenSeq(x))
    BY <1>2, <2>1, <2>2, HasParts
  <2> QED
    BY <2>1, <2>3 DEF from
<1>5. \A k \in 1 .. n : Has(file, from + Len(g[k - 1]), x[k])
  <2>1. \A k \in 1 .. Len(x) : Has(file, from + Len(g[k - 1]), x[k])
    <3>1. /\ g \in [0 .. Len(x) -> Seq(S)] /\ g[Len(x)] = FlattenSeq(x)
          /\ \A k \in 1 .. Len(x) : g[k] = g[k - 1] \o x[k]
      BY <1>2, <1>3, Zenon
    <3> QED
      BY <1>1, <1>3, <1>4, <3>1, FlattenedHas, Zenon
  <2> QED
    BY <1>2, <2>1, Zenon
<1> DEFINE R(k) == Result(file, from, g[k], SubSeq(frames, 1, k))
           f == [k \in 0 .. n |-> R(k)]
<1>6. Available(file, at, 4) => R(0) = Reads(<< >>, from)
  <2>1. SubSeq(frames, 1, 0) = << >>
    BY SubSeqEmpty
  <2>2. Len(<< >>) = 0 /\ from + 0 = from
    BY <1>1
  <2>3. Available(file, at, 4) => Available(file, from, 0)
    BY DEF Available, from
  <2> QED
    BY <1>3, <2>1, <2>2, <2>3 DEF Result
<1>7. ASSUME NEW k \in 1 .. n PROVE R(k) = NextFrame(file, R(k - 1))
  <2> DEFINE before == g[k - 1]
             frame  == frames[k]
             bytes  == x[k]
             m      == Len(before)
             l      == Len(bytes)
             p      == SubSeq(frames, 1, k - 1)
  <2>1. k - 1 \in 0 .. n
    BY <1>1
  <2>2. before \in Seq(S) /\ bytes \in Seq(S) /\ g[k] = before \o bytes
    <3>1. before \in Seq(S)
      BY <2>1, Zenon
    <3>2. bytes \in Seq(S)
      BY <1>2
    <3> QED
      BY <1>3, <3>1, <3>2, Zenon
  <2>3. m \in Nat /\ l \in Nat /\ Len(before \o bytes) = m + l
    <3> HIDE DEF before, bytes
    <3> QED
      BY <2>2, ConcatIs
  <2>4. IsFrame(frame) /\ bytes = write_frame(frame)
    BY <1>1, <1>2, Zenon
  <2>5. read_frame(file, from + m) = Result(file, from + m, bytes, frame)
    <3>1. from + m \in Nat
      <4> HIDE DEF m
      <4> QED
        BY <1>1, <2>3
    <3>2. Has(file, from + m, write_frame(frame))
      BY <1>5, <2>4, Zenon
    <3> HIDE DEF frame, bytes, m, before
    <3> QED
      BY <2>4, <3>1, <3>2, FrameReads, Zenon
  <2>6. SubSeq(frames, 1, k) = Append(p, frame)
    <3>1. 1 \in 1 .. Len(frames) /\ k \in 1 .. Len(frames)
      BY <1>1 DEF n
    <3>2. SubSeq(frames, 1, k) = p \o <<frame>>
      BY <3>1, SubSeqRecursiveSecond
    <3>3. p \in Seq(F)
      <4>1. \A i \in 1 .. k - 1 : frames[i] \in F
        BY <1>1
      <4> QED
        BY <4>1, SubSeqProperties
    <3>4. frame \in F
      BY <1>1
    <3> HIDE DEF p, frame
    <3>5. p \o <<frame>> = Append(p, frame)
      BY <3>3, <3>4, AppendIsConcat
    <3> QED
      BY <3>2, <3>5, Zenon
  <2>7. Available(file, from, m + l) <=> Available(file, from, m) /\ Available(file, from + m, l)
    BY <1>1, <2>3, BothAvailable
  <2>8. R(k) = IF Available(file, from, m + l) THEN Reads(Append(p, frame), from + (m + l)) ELSE Fails
    BY <2>2, <2>3, <2>6, Zenon DEF Result
  <2>9. R(k - 1) = IF Available(file, from, m) THEN Reads(p, from + m) ELSE Fails
    BY Zenon DEF Result
  <2>10. read_frame(file, from + m) = IF Available(file, from + m, l) THEN Reads(frame, from + m + l) ELSE Fails
    BY <2>5, Zenon DEF Result
  <2>11. (from + m) + l = from + (m + l)
    <3>1. m \in Nat /\ l \in Nat
      BY <2>3
    <3> HIDE DEF m, l
    <3> QED
      BY <1>1, <3>1
  <2> HIDE DEF R, before, frame, bytes, m, l, p
  <2>12. CASE ~Available(file, from, m)
    <3>1. ~R(k - 1).ok
      BY <2>9, <2>12 DEF Fails
    <3>2. NextFrame(file, R(k - 1)) = Fails
      BY <3>1, Zenon DEF NextFrame
    <3> QED
      BY <2>7, <2>8, <2>12, <3>2, Zenon
  <2>13. CASE Available(file, from, m)
    <3>1. R(k - 1).ok /\ R(k - 1).value = p /\ R(k - 1).next = from + m
      BY <2>9, <2>13 DEF Reads
    <3>2. CASE ~Available(file, from + m, l)
      <4>1. ~read_frame(file, from + m).ok
        BY <2>10, <3>2 DEF Fails
      <4>2. NextFrame(file, R(k - 1)) = Fails
        BY <3>1, <4>1, Zenon DEF NextFrame
      <4> QED
        BY <2>7, <2>8, <3>2, <4>2, Zenon
    <3>3. CASE Available(file, from + m, l)
      <4>1. /\ read_frame(file, from + m).ok /\ read_frame(file, from + m).value = frame
            /\ read_frame(file, from + m).next = from + m + l
        BY <2>10, <3>3 DEF Reads
      <4>2. NextFrame(file, R(k - 1)) = Reads(Append(p, frame), from + m + l)
        BY <3>1, <4>1, Zenon DEF NextFrame
      <4> QED
        BY <2>7, <2>8, <2>11, <2>13, <3>3, <4>2, Zenon
    <3> QED
      BY <3>2, <3>3
  <2> QED
    BY <2>12, <2>13
<1>8. read_word(file, at) = Result(file, at, WordBytes(n), n)
  BY <1>2, <1>4, WordReads
<1>9. R(n) = IF Available(file, from, Len(FlattenSeq(x))) THEN Reads(frames, from + Len(FlattenSeq(x))) ELSE Fails
  <2>1. SubSeq(frames, 1, n) = frames
    BY SubSeqFull DEF n
  <2> QED
    BY <1>3, <2>1, Zenon DEF Result
<1>10. /\ Len(FlattenSeq(x)) \in Nat
       /\ Len(FramesBytes(frames)) = 4 + Len(FlattenSeq(x))
       /\ Available(file, at, 4 + Len(FlattenSeq(x))) <=>
            Available(file, at, 4) /\ Available(file, from, Len(FlattenSeq(x)))
       /\ from + Len(FlattenSeq(x)) = at + (4 + Len(FlattenSeq(x)))
  <2> DEFINE q == WordBytes(n)
             r == FlattenSeq(x)
             m == Len(r)
  <2>1. q \in Seq(S) /\ r \in Seq(S) /\ Len(q) = 4
    BY <1>2, <1>4
  <2>2. FramesBytes(frames) = q \o r
    BY <1>2
  <2> HIDE DEF q, r
  <2>3. Len(q \o r) = 4 + m /\ m \in Nat
    <3>1. Len(q \o r) = Len(q) + Len(r) /\ Len(r) \in Nat
      BY <2>1, ConcatIs
    <3> QED
      BY <2>1, <3>1
  <2> HIDE DEF m
  <2>4. Available(file, at, 4 + m) <=> Available(file, at, 4) /\ Available(file, from, m)
    BY <2>3, BothAvailable DEF from
  <2>5. from + m = at + (4 + m)
    BY <2>3 DEF from
  <2> QED
    BY <2>2, <2>3, <2>4, <2>5 DEF m, r
<1> HIDE DEF R
<1>11. CASE ~Available(file, at, 4)
  <2>1. ~read_word(file, at).ok
    BY <1>4, <1>8, <1>11 DEF Result, Fails
  <2>2. read_frames(file, at) = Fails
    BY <2>1, Zenon DEF read_frames
  <2> QED
    BY <1>10, <1>11, <2>2, Zenon DEF Result
<1>12. CASE Available(file, at, 4)
  <2>1. read_word(file, at) = Reads(n, at + 4)
    BY <1>4, <1>8, <1>12, Zenon DEF Result
  <2>2. \A k \in 0 .. n : f[k] = R(k)
    OBVIOUS
  <2>3. IsFirst(f, file, n, from)
    <3>1. ASSUME NEW k \in 0 .. n
          PROVE  R(k) = IF k = 0 THEN Reads(<< >>, from) ELSE NextFrame(file, f[k - 1])
      <4>1. CASE k = 0
        BY <1>6, <1>12, <4>1
      <4>2. CASE k # 0
        <5>1. k \in 1 .. n /\ k - 1 \in 0 .. n
          BY <1>1, <4>2
        <5>2. f[k - 1] = R(k - 1)
          BY <2>2, <5>1, Zenon
        <5> QED
          BY <1>7, <4>2, <5>1, <5>2, Zenon
      <4> QED
        BY <4>1, <4>2
    <3>2. f = [k \in 0 .. n |-> IF k = 0 THEN Reads(<< >>, from) ELSE NextFrame(file, f[k - 1])]
      BY <3>1, Zenon
    <3> QED
      BY <3>2, Zenon DEF IsFirst
  <2>4. PICK first : IsFirst(first, file, n, from) /\ read_frames(file, at) = first[n]
    <3> HIDE DEF f
    <3> QED
      BY <2>1, <2>3, ReadFramesIs DEF from
  <2> HIDE DEF f
  <2> DEFINE T == { k \in 0 .. n : first[k] = R(k) }
  <2>5. 0 \in T
    <3>1. 0 \in 0 .. n
      BY <1>1
    <3>2. first[0] = Reads(<< >>, from)
      BY <2>4, <3>1, FirstAt
    <3> QED
      BY <1>6, <1>12, <3>1, <3>2
  <2>6. ASSUME NEW k \in 0 .. n - 1, k \in T PROVE k + 1 \in T
    <3> DEFINE j == k + 1
    <3>1. j \in 1 .. n /\ j \in 0 .. n /\ j # 0 /\ j - 1 = k
      BY <1>1
    <3>2. first[k] = R(k)
      BY <2>6
    <3> HIDE DEF j
    <3>3. first[j] = NextFrame(file, first[j - 1])
      BY <2>4, <3>1, FirstAt, Zenon
    <3>4. first[j] = R(j)
      BY <1>7, <3>1, <3>2, <3>3, Zenon
    <3>5. j \in T
      BY <3>1, <3>4
    <3> QED
      BY <3>5 DEF j
  <2>7. \A k \in 0 .. n : k \in T
    <3> HIDE DEF T
    <3> QED
      BY <1>1, <2>5, <2>6, UpTo
  <2>8. first[n] = R(n)
    <3>1. n \in 0 .. n
      BY <1>1
    <3> QED
      BY <2>7, <3>1
  <2> QED
    BY <1>9, <1>10, <1>12, <2>4, <2>8, Zenon DEF Result
<1> QED
  BY <1>11, <1>12

-------------------------------------------------------------------------------
(***************************************************************************)
(* Files.                                                                  *)
(***************************************************************************)
LEMMA HeaderWords == IsWord(magic_word) /\ IsWord(version_number)
<1>1. magic_word \in Nat /\ magic_word =< 23 * Three /\ version_number \in Nat /\ version_number =< 23 * Three
  BY SMT DEF magic_word, version_number, Three, Half, Byte
<1> QED
  BY <1>1, SmallIsWord

\* The parts of a file, and where each begins.
LEMMA FileParts ==
    ASSUME NEW V, NEW data \in DataType(V), Writable(data)
    PROVE  LET I == VectorBytes("double", data.immediates)
               F == FramesBytes(data.frames)
           IN  /\ Len(I) \in Nat /\ Len(F) \in Nat /\ Len(write_rsbf(data)) = 10 + Len(I) + Len(F)
               /\ write_rsbf(data) \in Seq(FileByte(V))
               /\ \A file : Has(file, 1, write_rsbf(data)) =>
                    /\ Has(file, 1, WordBytes(magic_word)) /\ Has(file, 5, WordBytes(version_number))
                    /\ Has(file, 9, <<data.inputs>>) /\ Has(file, 10, <<data.outputs>>)
                    /\ Has(file, 11, I) /\ Has(file, 11 + Len(I), F)
<1> DEFINE S == FileByte(V)
           a == WordBytes(magic_word)
           b == WordBytes(version_number)
           i == <<data.inputs>>
           o == <<data.outputs>>
           I == VectorBytes("double", data.immediates)
           F == FramesBytes(data.frames)
<1>1. /\ data.inputs \in S /\ data.outputs \in S
      /\ data.immediates \in Seq(V) /\ data.frames \in Seq(FrameType)
  BY Zenon DEF DataType, FileByte
<1>2. a \in Seq(S) /\ Len(a) = 4 /\ b \in Seq(S) /\ Len(b) = 4
  BY HeaderWords, WordBytesAre
<1>3. I \in Seq(S)
  <2>1. data.immediates \in Seq(Elements("double", V))
    BY <1>1 DEF Elements
  <2> QED
    BY <2>1, VectorIs DEF Writable
<1>4. F \in Seq(S)
  <2> DEFINE G == { frame \in FrameType : IsCounted(frame.code) }
  <2>1. data.frames \in Seq(G)
    BY <1>1 DEF Writable
  <2>2. \A frame \in G : IsFrame(frame)
    BY DEF IsFrame
  <2> HIDE DEF G, S
  <2>3. PICK x \in Seq(Seq(FileByte(V))) :
          /\ F = WordBytes(Len(data.frames)) \o FlattenSeq(x)
          /\ IsWord(Len(data.frames)) /\ FlattenSeq(x) \in Seq(FileByte(V))
    BY <2>1, <2>2, FramesAre DEF Writable
  <2>4. WordBytes(Len(data.frames)) \in Seq(S) /\ FlattenSeq(x) \in Seq(S)
    BY <2>3, WordBytesAre DEF S
  <2> DEFINE q == WordBytes(Len(data.frames))
             r == FlattenSeq(x)
  <2>5. F = q \o r /\ q \in Seq(S) /\ r \in Seq(S)
    BY <2>3, <2>4
  <2> HIDE DEF q, r, F
  <2> QED
    BY <2>5
<1>5. i \in Seq(S) /\ o \in Seq(S) /\ Len(i) = 1 /\ Len(o) = 1 /\ <<data.inputs, data.outputs>> = i \o o
  <2> HIDE DEF S
  <2> QED
    BY <1>1
<1>6. write_rsbf(data) = (((a \o b) \o (i \o o)) \o I) \o F
  <2>1. write_rsbf(data) = (((a \o b) \o <<data.inputs, data.outputs>>) \o I) \o F
    BY Zenon DEF write_rsbf, VectorBytes, FramesBytes, Encoded
  <2> QED
    BY <1>5, <2>1, Zenon
<1> HIDE DEF S, a, b, i, o, I, F
<1>7. a \o b \in Seq(S) /\ Len(a \o b) = 8
  <2>1. a \o b \in Seq(S) /\ Len(a \o b) = Len(a) + Len(b)
    BY <1>2, ConcatIs
  <2> QED
    BY <1>2, <2>1
<1>8. i \o o \in Seq(S) /\ Len(i \o o) = 2
  <2>1. i \o o \in Seq(S) /\ Len(i \o o) = Len(i) + Len(o)
    BY <1>5, ConcatIs
  <2> QED
    BY <1>5, <2>1
<1>9. (a \o b) \o (i \o o) \in Seq(S) /\ Len((a \o b) \o (i \o o)) = 10
  <2> DEFINE q == a \o b
             r == i \o o
  <2>1. q \in Seq(S) /\ r \in Seq(S) /\ Len(q) = 8 /\ Len(r) = 2
    BY <1>7, <1>8
  <2> HIDE DEF q, r
  <2>2. q \o r \in Seq(S) /\ Len(q \o r) = Len(q) + Len(r)
    BY <2>1, ConcatIs
  <2> QED
    BY <2>1, <2>2 DEF q, r
<1> DEFINE h == (a \o b) \o (i \o o)
<1>10. /\ h \o I \in Seq(S) /\ Len(I) \in Nat /\ Len(h \o I) = 10 + Len(I)
       /\ (h \o I) \o F \in Seq(S) /\ Len(F) \in Nat /\ Len((h \o I) \o F) = 10 + Len(I) + Len(F)
  <2>1. h \in Seq(S) /\ Len(h) = 10
    BY <1>9
  <2> HIDE DEF h
  <2>2. h \o I \in Seq(S) /\ Len(I) \in Nat /\ Len(h \o I) = Len(h) + Len(I)
    BY <1>3, <2>1, ConcatIs
  <2> DEFINE s == h \o I
  <2>3. s \in Seq(S)
    BY <2>2
  <2> HIDE DEF s
  <2>4. s \o F \in Seq(S) /\ Len(F) \in Nat /\ Len(s \o F) = Len(s) + Len(F)
    BY <1>4, <2>3, ConcatIs
  <2>5. Len(s) = 10 + Len(I)
    BY <2>1, <2>2 DEF s
  <2> QED
    BY <2>2, <2>4, <2>5, <2>1 DEF s
<1>11. ASSUME NEW file, Has(file, 1, write_rsbf(data))
       PROVE  /\ Has(file, 1, a) /\ Has(file, 5, b) /\ Has(file, 9, i) /\ Has(file, 10, o)
              /\ Has(file, 11, I) /\ Has(file, 11 + Len(I), F)
  <2>1. Has(file, 1, h \o I) /\ Has(file, 11 + Len(I), F)
    <3>1. Has(file, 1, (h \o I) \o F)
      BY <1>6, <1>11, Zenon
    <3>2. h \o I \in Seq(S) /\ Len(h \o I) = 10 + Len(I)
      BY <1>10
    <3>3. 1 + (10 + Len(I)) = 11 + Len(I)
      BY <1>10
    <3> DEFINE s == h \o I
    <3>4. Has(file, 1, s \o F) /\ s \in Seq(S) /\ Len(s) = 10 + Len(I)
      BY <3>1, <3>2
    <3> HIDE DEF s
    <3>5. Has(file, 1, s) /\ Has(file, 1 + Len(s), F)
      BY <1>4, <3>4, HasParts
    <3>6. 1 + Len(s) = 11 + Len(I)
      BY <3>3, <3>4, Zenon
    <3> QED
      BY <3>5, <3>6, Zenon DEF s
  <2>2. Has(file, 1, h) /\ Has(file, 11, I)
    <3>1. h \in Seq(S) /\ 1 + Len(h) = 11
      BY <1>9
    <3> HIDE DEF h
    <3> QED
      BY <1>3, <2>1, <3>1, HasParts
  <2>3. Has(file, 1, a \o b) /\ Has(file, 9, i \o o)
    <3> DEFINE q == a \o b
               r == i \o o
    <3>1. q \in Seq(S) /\ r \in Seq(S) /\ 1 + Len(q) = 9 /\ Has(file, 1, q \o r)
      BY <1>7, <1>8, <2>2
    <3> HIDE DEF q, r
    <3>2. Has(file, 1, q) /\ Has(file, 1 + Len(q), r)
      BY <3>1, HasParts
    <3> QED
      BY <3>1, <3>2, Zenon DEF q, r
  <2>4. Has(file, 1, a) /\ Has(file, 5, b)
    <3>1. 1 + Len(a) = 5
      BY <1>2
    <3> QED
      <4>1. Has(file, 1, a) /\ Has(file, 1 + Len(a), b)
        BY <1>2, <2>3, HasParts
      <4> QED
        BY <3>1, <4>1, Zenon
  <2>5. Has(file, 9, i) /\ Has(file, 10, o)
    <3>1. 9 + Len(i) = 10
      BY <1>5
    <3> QED
      BY <1>5, <2>3, <3>1, HasParts
  <2> QED
    BY <2>1, <2>2, <2>4, <2>5
<1>12. write_rsbf(data) \in Seq(S) /\ Len(write_rsbf(data)) = 10 + Len(I) + Len(F)
  BY <1>6, <1>10, Zenon
<1> QED
  BY <1>10, <1>11, <1>12, Zenon DEF S, a, b, i, o, I, F

\* Reading what may be cut off: all of the data, or a failure.
LEMMA FileReads ==
    ASSUME NEW V, NEW data \in DataType(V), Writable(data),
           NEW file, Len(file) \in Nat, Has(file, 1, write_rsbf(data))
    PROVE  read_rsbf(file) = IF Available(file, 1, Len(write_rsbf(data)))
                               THEN [ec |-> "ok", data |-> data]
                               ELSE [ec |-> "reading_failure", data |-> << >>]
<1> DEFINE I == VectorBytes("double", data.immediates)
           F == FramesBytes(data.frames)
           m == Len(I)
           n == Len(F)
           full == Available(file, 1, Len(write_rsbf(data)))
           Failure == [ec |-> "reading_failure", data |-> << >>]
<1>1. /\ m \in Nat /\ n \in Nat /\ Len(write_rsbf(data)) = 10 + m + n
      /\ Has(file, 1, WordBytes(magic_word)) /\ Has(file, 5, WordBytes(version_number))
      /\ Has(file, 9, <<data.inputs>>) /\ Has(file, 10, <<data.outputs>>)
      /\ Has(file, 11, I) /\ Has(file, 11 + m, F)
  BY FileParts
<1>2. /\ data.immediates \in Seq(V) /\ data.frames \in Seq(FrameType)
      /\ data = [inputs |-> data.inputs, outputs |-> data.outputs,
                 immediates |-> data.immediates, frames |-> data.frames]
      /\ IsCounted(data.immediates) /\ IsCounted(data.frames)
  BY Zenon DEF DataType, Writable
<1>3. 11 + m \in Nat
  <2> HIDE DEF m
  <2> QED
    BY <1>1
<1>4. /\ read_word(file, 1) = IF Available(file, 1, 4) THEN Reads(magic_word, 5) ELSE Fails
      /\ read_word(file, 5) = IF Available(file, 5, 4) THEN Reads(version_number, 9) ELSE Fails
  <2>1. /\ read_word(file, 1) = Result(file, 1, WordBytes(magic_word), magic_word)
        /\ Len(WordBytes(magic_word)) = 4
    BY <1>1, HeaderWords, WordReads
  <2>2. /\ read_word(file, 5) = Result(file, 5, WordBytes(version_number), version_number)
        /\ Len(WordBytes(version_number)) = 4
    BY <1>1, HeaderWords, WordReads
  <2>3. 1 + 4 = 5 /\ 5 + 4 = 9
    OBVIOUS
  <2> QED
    BY <2>1, <2>2, <2>3 DEF Result
<1>5. /\ read_byte(file, 9) = IF Available(file, 9, 1) THEN Reads(data.inputs, 10) ELSE Fails
      /\ read_byte(file, 10) = IF Available(file, 10, 1) THEN Reads(data.outputs, 11) ELSE Fails
  <2>1. read_byte(file, 9) = Result(file, 9, <<data.inputs>>, data.inputs) /\ Len(<<data.inputs>>) = 1
    BY <1>1, ByteReads
  <2>2. read_byte(file, 10) = Result(file, 10, <<data.outputs>>, data.outputs) /\ Len(<<data.outputs>>) = 1
    BY <1>1, ByteReads
  <2>3. 9 + 1 = 10 /\ 10 + 1 = 11
    OBVIOUS
  <2> QED
    BY <2>1, <2>2, <2>3, Zenon DEF Result
<1>6. read_vector("double", file, 11) =
        IF Available(file, 11, m) THEN Reads(data.immediates, 11 + m) ELSE Fails
  <2>1. data.immediates \in Seq(Elements("double", V))
    BY <1>2 DEF Elements
  <2>2. read_vector("double", file, 11) = Result(file, 11, I, data.immediates)
    <3>1. 11 \in Nat /\ "double" \in {"instruction", "double"}
      OBVIOUS
    <3> QED
      BY <1>1, <1>2, <2>1, <3>1, VectorReads
  <2> QED
    BY <2>2, Zenon DEF Result
<1>7. read_frames(file, 11 + m) =
        IF Available(file, 11 + m, n) THEN Reads(data.frames, (11 + m) + n) ELSE Fails
  <2> DEFINE G == { frame \in FrameType : IsCounted(frame.code) }
  <2>1. data.frames \in Seq(G)
    BY <1>2 DEF Writable
  <2>2. \A frame \in G : IsFrame(frame)
    BY DEF IsFrame
  <2> HIDE DEF G, m
  <2>3. read_frames(file, 11 + m) = Result(file, 11 + m, F, data.frames)
    BY <1>1, <1>2, <1>3, <2>1, <2>2, FramesReads
  <2> QED
    BY <2>3, Zenon DEF Result
<1>8. full <=> /\ Available(file, 1, 4) /\ Available(file, 5, 4)
               /\ Available(file, 9, 1) /\ Available(file, 10, 1)
               /\ Available(file, 11, m) /\ Available(file, 11 + m, n)
  <2> DEFINE l == Len(file)
             k == Len(write_rsbf(data))
  <2>1. m \in Nat /\ n \in Nat /\ l \in Nat /\ k = 10 + m + n
    BY <1>1
  <2> HIDE DEF m, n, k, l
  <2> QED
    BY <2>1, SMT DEF Available, l, k
<1> HIDE DEF I, F, m, n, full, Failure
<1>9. CASE Available(file, 1, 4)
  <2>1. read_word(file, 1).ok /\ read_word(file, 1).value = magic_word
    BY <1>4, <1>9 DEF Reads
  <2>2. CASE Available(file, 5, 4)
    <3>1. read_word(file, 5).ok /\ read_word(file, 5).value = version_number
      BY <1>4, <2>2 DEF Reads
    <3>2. read_rsbf(file) = do_read(file, 9)
      BY <2>1, <3>1, Zenon DEF read_rsbf
    <3>3. 9 + 1 = 10 /\ 9 + 2 = 11
      OBVIOUS
    <3> DEFINE inputs     == read_byte(file, 9)
               outputs    == read_byte(file, 10)
               immediates == read_vector("double", file, 11)
               frames     == read_frames(file, immediates.next)
    <3>4. do_read(file, 9) =
            IF inputs.ok /\ outputs.ok /\ immediates.ok /\ frames.ok
              THEN [ec |-> "ok", data |-> [inputs |-> inputs.value, outputs |-> outputs.value,
                                           immediates |-> immediates.value, frames |-> frames.value]]
              ELSE Failure
      BY <3>3, Zenon DEF do_read, Failure
    <3>5. inputs.ok => Available(file, 9, 1) /\ inputs.value = data.inputs
      BY <1>5 DEF Reads, Fails
    <3>6. outputs.ok => Available(file, 10, 1) /\ outputs.value = data.outputs
      BY <1>5 DEF Reads, Fails
    <3>7. immediates.ok => /\ Available(file, 11, m) /\ immediates.value = data.immediates
                           /\ immediates.next = 11 + m
      BY <1>6 DEF Reads, Fails
    <3>8. immediates.ok /\ frames.ok => Available(file, 11 + m, n) /\ frames.value = data.frames
      <4>1. SUFFICES ASSUME immediates.ok, frames.ok
                     PROVE  Available(file, 11 + m, n) /\ frames.value = data.frames
        OBVIOUS
      <4>2. frames = read_frames(file, 11 + m)
        BY <3>7, <4>1
      <4> QED
        BY <1>7, <4>1, <4>2 DEF Reads, Fails
    <3>9. full => inputs.ok /\ outputs.ok /\ immediates.ok
      BY <1>5, <1>6, <1>8 DEF Reads
    <3>10. full => frames.ok
      <4>1. full => frames = read_frames(file, 11 + m)
        BY <3>7, <3>9
      <4> QED
        BY <1>7, <1>8, <4>1 DEF Reads
    <3> HIDE DEF inputs, outputs, immediates, frames
    <3>11. CASE full
      <4>1. /\ inputs.ok /\ outputs.ok /\ immediates.ok /\ frames.ok
            /\ inputs.value = data.inputs /\ outputs.value = data.outputs
            /\ immediates.value = data.immediates /\ frames.value = data.frames
        BY <3>5, <3>6, <3>7, <3>8, <3>9, <3>10, <3>11, Zenon
      <4>2. do_read(file, 9) = [ec |-> "ok", data |-> data]
        BY <1>2, <3>4, <4>1, Zenon
      <4> QED
        BY <3>2, <3>11, <4>2, Zenon DEF full
    <3>12. CASE ~full
      <4>1. ~(inputs.ok /\ outputs.ok /\ immediates.ok /\ frames.ok)
        BY <1>8, <1>9, <2>2, <3>5, <3>6, <3>7, <3>8, <3>12, Zenon
      <4>2. do_read(file, 9) = Failure
        BY <3>4, <4>1, Zenon
      <4> QED
        BY <3>2, <3>12, <4>2, Zenon DEF full, Failure
    <3> QED
      BY <3>11, <3>12
  <2>3. CASE ~Available(file, 5, 4)
    <3>1. ~read_word(file, 5).ok
      BY <1>4, <2>3 DEF Fails
    <3>2. read_rsbf(file) = Failure
      BY <2>1, <3>1, Zenon DEF read_rsbf, Failure
    <3> QED
      BY <1>8, <2>3, <3>2, Zenon DEF full, Failure
  <2> QED
    BY <2>2, <2>3
<1>10. CASE ~Available(file, 1, 4)
  <2>1. ~read_word(file, 1).ok
    BY <1>4, <1>10 DEF Fails
  <2>2. read_rsbf(file) = Failure
    BY <2>1, Zenon DEF read_rsbf, Failure
  <2> QED
    BY <1>8, <1>10, <2>2, Zenon DEF full, Failure
<1> QED
  BY <1>9, <1>10

\* What is written is read back, whatever the program, its doubles and its frames; and a
\* file that is cut anywhere is refused, although every size in it is taken from the file.
THEOREM FilesSurvive ==
    ASSUME NEW V, NEW data \in DataType(V), Writable(data)
    PROVE  /\ read_rsbf(write_rsbf(data)) = [ec |-> "ok", data |-> data]
           /\ \A n \in 0 .. Len(write_rsbf(data)) - 1 :
                read_rsbf(SubSeq(write_rsbf(data), 1, n)).ec = "reading_failure"
<1> DEFINE file == write_rsbf(data)
           l == Len(file)
           S == FileByte(V)
<1>1. file \in Seq(S) /\ l \in Nat
  <2>1. file \in Seq(S)
    BY FileParts
  <2> HIDE DEF file, S
  <2> QED
    BY <2>1
<1>2. read_rsbf(file) = [ec |-> "ok", data |-> data]
  <2>1. Has(file, 1, file)
    <3>1. ASSUME NEW k \in 1 .. l PROVE file[1 + k - 1] = file[k]
      <4>1. 1 + k - 1 = k
        BY <1>1
      <4> QED
        BY <4>1, Zenon
    <3> QED
      BY <3>1 DEF Has
  <2>2. Available(file, 1, l)
    <3>1. 1 + l - 1 = l /\ l =< l
      <4> HIDE DEF l
      <4> QED
        BY <1>1
    <3> QED
      BY <3>1 DEF Available
  <2> QED
    BY <1>1, <2>1, <2>2, FileReads, Zenon
<1>3. ASSUME NEW n \in 0 .. l - 1 PROVE read_rsbf(SubSeq(file, 1, n)).ec = "reading_failure"
  <2> DEFINE part == SubSeq(file, 1, n)
  <2> HIDE DEF file, l, S
  <2>1. Len(part) = n /\ \A k \in 1 .. n : part[k] = file[k]
    <3>1. \A k \in 1 .. n : file[k] \in S
      <4>1. \A k \in 1 .. n : k \in 1 .. Len(file)
        BY <1>1 DEF l
      <4> QED
        BY <1>1, <4>1
    <3>2. /\ Len(part) = IF 1 =< n THEN n - 1 + 1 ELSE 0
          /\ \A k \in 1 .. n - 1 + 1 : part[k] = file[1 + k - 1]
      BY <1>1, <3>1, SubSeqProperties
    <3>3. n \in Nat /\ n - 1 + 1 = n /\ \A k \in 1 .. n : 1 + k - 1 = k
      BY <1>1
    <3> HIDE DEF part
    <3>4. Len(part) = n
      BY <3>2, <3>3
    <3>5. \A k \in 1 .. n : part[k] = file[1 + k - 1]
      BY <3>2, <3>3, Zenon
    <3> QED
      BY <3>3, <3>4, <3>5, Zenon
  <2> HIDE DEF part
  <2>2. Has(part, 1, file)
    <3>1. ASSUME NEW k \in 1 .. l, 1 + k - 1 =< n PROVE part[1 + k - 1] = file[k]
      <4>1. 1 + k - 1 = k /\ k \in 1 .. n
        BY <1>1, <3>1
      <4> QED
        BY <2>1, <4>1, Zenon
    <3> QED
      BY <2>1, <3>1 DEF Has, l
  <2>3. ~Available(part, 1, l)
    BY <1>1, <2>1 DEF Available
  <2>4. Len(part) \in Nat
    BY <1>1, <2>1
  <2>5. read_rsbf(part) = [ec |-> "reading_failure", data |-> << >>]
    BY <2>2, <2>3, <2>4, FileReads, Zenon DEF file, l
  <2> QED
    BY <2>5 DEF part
<1> QED
  BY <1>2, <1>3
===============================================================================
