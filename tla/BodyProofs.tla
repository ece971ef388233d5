------------------------------ MODULE BodyProofs ------------------------------
(***************************************************************************)
(* Theorems about BodyBlock.  The stacks of ParsingContext are treated as  *)
(* data: ContextOK relates a stack of scopes s, a stack of conditionals c, *)
(* the bit f and the number m of lists, and there is one lemma for each    *)
(* change that a handler makes to them.  The last part, on AstIsText, does *)
(* the same for the text and the lists.                                    *)
(***************************************************************************)
EXTENDS BodyBlock, FiniteSetTheorems, SequenceTheorems, TLAPS

ScopeOf(m)       == [type : ScopeType, nodes : 1 .. m]
ConditionalOf(m) == [body : 1 .. m, else_body : 1 .. m]

\* the number of conditional scopes among the first i
RankOf(s, i) == Cardinality({k \in 1 .. i : s[k].type = "conditional"})

\* the lists that scope i may refer to: both bodies if it is a conditional's
Owned(s, c, i) == IF s[i].type = "conditional"
                    THEN {c[RankOf(s, i)].body, c[RankOf(s, i)].else_body}
                    ELSE {s[i].nodes}

Typed(s, c, f, m) == /\ s \in Seq(ScopeOf(m)) \ {<< >>}
                     /\ c \in Seq(ConditionalOf(m))
                     /\ f \in BOOLEAN

Nest(s, f) == /\ s[1] = [type |-> "global", nodes |-> 1]
              /\ \A i \in 2 .. Len(s) : /\ s[i].type # "global"
                                        /\ s[i].type = "function" => i = 2
              /\ f <=> Len(s) > 1 /\ s[2].type = "function"

Match(s, c) == /\ Len(c) = RankOf(s, Len(s))
               /\ \A i \in 1 .. Len(s) : s[i].nodes \in Owned(s, c, i)

\* No two scopes can refer to the same list, whichever body a conditional's is on: an
\* else moves the innermost scope to a list that no other scope refers to.
Apart(s, c) == \A i, j \in 1 .. Len(s) : i # j => Owned(s, c, i) \cap Owned(s, c, j) = {}

ContextOK(s, c, f, m) == Typed(s, c, f, m) /\ Nest(s, f) /\ Match(s, c) /\ Apart(s, c)

IInv == /\ TypeOK
        /\ ContextOK(scopes, conditionals, is_in_function_scope, Len(lists))

-------------------------------------------------------------------------------
(***************************************************************************)
(* Ranks.                                                                  *)
(***************************************************************************)
\* The rank of a position is at most the position.
LEMMA RankType == ASSUME NEW s, NEW i \in Nat
                  PROVE  /\ IsFiniteSet({k \in 1 .. i : s[k].type = "conditional"})
                         /\ RankOf(s, i) \in 0 .. i
<1> DEFINE C == {k \in 1 .. i : s[k].type = "conditional"}
<1>1. IsFiniteSet(1 .. i) /\ Cardinality(1 .. i) = i
  BY FS_Interval
<1>2. C \subseteq 1 .. i
  OBVIOUS
<1>3. IsFiniteSet(C) /\ Cardinality(C) =< Cardinality(1 .. i)
  BY <1>1, <1>2, FS_Subset
<1>4. Cardinality(C) \in Nat
  BY <1>3, FS_CardinalityType
<1> QED
  BY <1>1, <1>3, <1>4 DEF RankOf

\* Ranks count the conditional scopes one by one.
LEMMA RankStep == ASSUME NEW s, NEW i \in Nat
                  PROVE  RankOf(s, i + 1) = IF s[i + 1].type = "conditional"
                                              THEN RankOf(s, i) + 1 ELSE RankOf(s, i)
<1> DEFINE C(n) == {k \in 1 .. n : s[k].type = "conditional"}
<1>1. CASE s[i + 1].type = "conditional"
  <2>1. C(i + 1) = C(i) \cup {i + 1} /\ i + 1 \notin C(i)
    BY <1>1
  <2>2. IsFiniteSet(C(i))
    BY RankType
  <2>3. Cardinality(C(i) \cup {i + 1}) = Cardinality(C(i)) + 1
    BY <2>1, <2>2, FS_AddElement
  <2> QED
    BY <1>1, <2>1, <2>3 DEF RankOf
<1>2. CASE s[i + 1].type # "conditional"
  <2>1. C(i + 1) = C(i)
    BY <1>2
  <2> QED
    BY <1>2, <2>1 DEF RankOf
<1> QED
  BY <1>1, <1>2

\* Ranks depend on the types of the scopes up to the position only.
LEMMA RankAgrees == ASSUME NEW s, NEW t, NEW i \in Nat,
                           \A k \in 1 .. i : s[k].type = t[k].type
                    PROVE  RankOf(s, i) = RankOf(t, i)
<1>1. {k \in 1 .. i : s[k].type = "conditional"} = {k \in 1 .. i : t[k].type = "conditional"}
  OBVIOUS
<1> QED
  BY <1>1 DEF RankOf

\* Conditional scopes have ranks that increase from 1 to the number of conditionals.
LEMMA RankOrder == ASSUME NEW s, NEW i \in Nat, NEW j \in Nat, i < j
                   PROVE  /\ RankOf(s, i) =< RankOf(s, j)
                          /\ s[j].type = "conditional" => RankOf(s, i) < RankOf(s, j)
<1> DEFINE C(n) == {k \in 1 .. n : s[k].type = "conditional"}
<1>1. ASSUME NEW n \in Nat, i =< n PROVE RankOf(s, i) =< RankOf(s, n)
  <2>1. C(i) \subseteq C(n)
    BY <1>1
  <2>2. IsFiniteSet(C(n))
    BY RankType
  <2>3. Cardinality(C(i)) =< Cardinality(C(n))
    BY <2>1, <2>2, FS_Subset
  <2> QED
    BY <2>3 DEF RankOf
<1>2. j - 1 \in Nat /\ i =< j - 1 /\ (j - 1) + 1 = j
  OBVIOUS
<1>3. RankOf(s, i) =< RankOf(s, j - 1)
  BY <1>1, <1>2
<1>4. RankOf(s, i) \in Nat /\ RankOf(s, j - 1) \in Nat
  <2>1. RankOf(s, i) \in 0 .. i
    BY RankType
  <2>2. RankOf(s, j - 1) \in 0 .. (j - 1)
    BY <1>2, RankType
  <2> QED
    BY <2>1, <2>2
<1>5. s[j].type = "conditional" => RankOf(s, j) = RankOf(s, j - 1) + 1
  BY <1>2, RankStep
<1>6. s[j].type # "conditional" => RankOf(s, j) = RankOf(s, j - 1)
  BY <1>2, RankStep
<1> QED
  BY <1>3, <1>4, <1>5, <1>6

\* The conditional of a scope is one of the stack's.
LEMMA RankInRange ==
    ASSUME NEW s, NEW c, NEW i, Len(s) \in Nat, i \in 1 .. Len(s),
           Len(c) = RankOf(s, Len(s)), s[i].type = "conditional"
    PROVE  RankOf(s, i) \in 1 .. Len(c)
<1>1. i \in Nat /\ i - 1 \in Nat /\ (i - 1) + 1 = i
  OBVIOUS
<1>2. RankOf(s, i - 1) \in 0 .. (i - 1)
  BY <1>1, RankType
<1>3. RankOf(s, i) = RankOf(s, i - 1) + 1
  BY <1>1, RankStep
<1>4. RankOf(s, i) =< RankOf(s, Len(s))
  <2>1. CASE i = Len(s)
    <3>1. RankOf(s, i) \in Nat
      BY <1>2, <1>3
    <3> QED
      BY <2>1, <3>1
  <2>2. CASE i < Len(s)
    BY <1>1, <2>2, RankOrder
  <2> QED
    BY <2>1, <2>2
<1>5. RankOf(s, Len(s)) \in Nat
  <2>1. RankOf(s, Len(s)) \in 0 .. Len(s)
    BY RankType
  <2> QED
    BY <2>1
<1> QED
  BY <1>2, <1>3, <1>4, <1>5

\* The lists of a scope exist.
LEMMA OwnedType ==
    ASSUME NEW s, NEW c, NEW f, NEW m \in Nat, Typed(s, c, f, m), Match(s, c),
           NEW i \in 1 .. Len(s)
    PROVE  Owned(s, c, i) \subseteq 1 .. m
<1>1. Len(s) \in Nat /\ s[i] \in ScopeOf(m)
  BY DEF Typed
<1>2. CASE s[i].type = "conditional"
  <2>1. RankOf(s, i) \in 1 .. Len(c)
    BY <1>1, <1>2, RankInRange DEF Match
  <2>2. c[RankOf(s, i)] \in ConditionalOf(m)
    BY <2>1 DEF Typed
  <2> QED
    BY <1>2, <2>2 DEF Owned, ConditionalOf
<1>3. CASE s[i].type # "conditional"
  BY <1>1, <1>3 DEF Owned, ScopeOf
<1> QED
  BY <1>2, <1>3

-------------------------------------------------------------------------------
(***************************************************************************)
(* The changes to the context.                                             *)
(***************************************************************************)
\* More lists do no harm.
LEMMA Grow == ASSUME NEW s, NEW c, NEW f, NEW m \in Nat, NEW n \in Nat, m =< n,
                     ContextOK(s, c, f, m)
              PROVE  ContextOK(s, c, f, n)
<1>1. ScopeOf(m) \subseteq ScopeOf(n) /\ ConditionalOf(m) \subseteq ConditionalOf(n)
  BY DEF ScopeOf, ConditionalOf
<1>2. s \in Seq(ScopeOf(n)) /\ c \in Seq(ConditionalOf(n))
  BY <1>1, SeqMonotonic DEF ContextOK, Typed
<1> QED
  BY <1>2 DEF ContextOK, Typed

\* What an unchanged part of the scopes owns is unchanged when conditionals grow.
LEMMA OwnedAgrees ==
    ASSUME NEW s, NEW c, NEW t, NEW d, NEW n \in Nat,
           \A k \in 1 .. n : s[k] = t[k],
           \A k \in 1 .. RankOf(s, n) : c[k] = d[k],
           NEW i \in 1 .. n
    PROVE  Owned(t, d, i) = Owned(s, c, i)
<1>1. RankOf(s, i) = RankOf(t, i)
  BY RankAgrees
<1>2. CASE s[i].type = "conditional"
  <2>1. RankOf(s, i) \in 1 .. RankOf(s, n)
    <3>1. i \in Nat /\ i - 1 \in Nat /\ (i - 1) + 1 = i
      OBVIOUS
    <3>2. RankOf(s, i - 1) \in 0 .. (i - 1)
      BY <3>1, RankType
    <3>3. RankOf(s, i) = RankOf(s, i - 1) + 1
      BY <1>2, <3>1, RankStep
    <3>4. i < n => RankOf(s, i) =< RankOf(s, n)
      BY <3>1, RankOrder
    <3>5. RankOf(s, n) \in 0 .. n
      BY RankType
    <3>6. i = n => RankOf(s, i) =< RankOf(s, n)
      BY <3>2, <3>3
    <3> QED
      BY <3>2, <3>3, <3>4, <3>5, <3>6
  <2> QED
    BY <1>1, <1>2, <2>1 DEF Owned
<1>3. CASE s[i].type # "conditional"
  BY <1>3 DEF Owned
<1> QED
  BY <1>2, <1>3

\* A new scope on lists that no other scope refers to.
LEMMA PushApart ==
    ASSUME NEW s, NEW c, NEW t, NEW d, NEW m \in Nat, Len(s) \in Nat, Len(t) = Len(s) + 1,
           \A i \in 1 .. Len(s) : Owned(t, d, i) = Owned(s, c, i) /\ Owned(s, c, i) \subseteq 1 .. m,
           Owned(t, d, Len(s) + 1) \cap 1 .. m = {},
           Apart(s, c)
    PROVE  Apart(t, d)
<1> SUFFICES ASSUME NEW i \in 1 .. Len(t), NEW j \in 1 .. Len(t), i # j
             PROVE  Owned(t, d, i) \cap Owned(t, d, j) = {}
  BY DEF Apart
<1>1. CASE i =< Len(s) /\ j =< Len(s)
  BY <1>1 DEF Apart
<1>2. CASE i = Len(s) + 1
  <2>1. j \in 1 .. Len(s)
    BY <1>2
  <2> QED
    BY <1>2, <2>1
<1>3. CASE j = Len(s) + 1
  <2>1. i \in 1 .. Len(s)
    BY <1>3
  <2> QED
    BY <1>3, <2>1
<1> QED
  BY <1>1, <1>2, <1>3

\* The header of a loop, or of a function at the outermost level.
LEMMA PushPlain ==
    ASSUME NEW s, NEW c, NEW f, NEW m \in Nat, ContextOK(s, c, f, m),
           NEW type \in {"loop", "function"}, NEW g \in BOOLEAN,
           type = "loop" => g = f,
           type = "function" => s[Len(s)].type = "global" /\ g = TRUE
    PROVE  ContextOK(Append(s, [type |-> type, nodes |-> m + 1]), c, g, m + 1)
<1> DEFINE x == [type |-> type, nodes |-> m + 1]
           t == Append(s, x)
           N == Len(s)
<1>0. /\ s \in Seq(ScopeOf(m)) /\ N \in Nat \ {0} /\ c \in Seq(ConditionalOf(m))
      /\ f \in BOOLEAN
  BY EmptySeq, LenProperties DEF ContextOK, Typed
<1>N. N \in Nat /\ N >= 1 /\ Len(s) = N
  BY <1>0
<1>1. /\ Len(t) = N + 1 /\ t[N + 1] = x
      /\ \A k \in 1 .. N : t[k] = s[k]
  BY <1>0, AppendProperties
<1>2. Typed(t, c, g, m + 1)
  <2>1. ScopeOf(m) \subseteq ScopeOf(m + 1) /\ ConditionalOf(m) \subseteq ConditionalOf(m + 1)
    BY DEF ScopeOf, ConditionalOf
  <2>2. s \in Seq(ScopeOf(m + 1)) /\ c \in Seq(ConditionalOf(m + 1))
    BY <1>0, <2>1, SeqMonotonic
  <2>3. x \in ScopeOf(m + 1)
    BY DEF ScopeOf, ScopeType
  <2>4. t \in Seq(ScopeOf(m + 1)) /\ t # << >>
    BY <2>2, <2>3, AppendProperties
  <2> QED
    BY <2>2, <2>4 DEF Typed
<1> HIDE DEF t, N
<1>3. RankOf(t, N) = RankOf(s, N) /\ RankOf(t, N + 1) = RankOf(s, N)
  <2>1. RankOf(t, N) = RankOf(s, N)
    BY <1>N, <1>1, RankAgrees
  <2>2. t[N + 1].type # "conditional"
    BY <1>1
  <2>3. RankOf(t, N + 1) = RankOf(t, N)
    BY <1>N, <2>2, RankStep
  <2> QED
    BY <2>1, <2>3
<1>4. \A i \in 1 .. N : Owned(t, c, i) = Owned(s, c, i)
  <2>1. \A k \in 1 .. N : s[k] = t[k]
    BY <1>1
  <2> QED
    BY <1>N, <2>1, OwnedAgrees
<1>5. Owned(t, c, N + 1) = {m + 1}
  BY <1>1 DEF Owned
<1>6. Nest(t, g)
  <2>1. t[1] = [type |-> "global", nodes |-> 1]
    BY <1>N, <1>1 DEF ContextOK, Nest
  <2>2. s[N].type = "global" => N = 1
    <3>1. CASE N > 1
      <4>1. N \in 2 .. Len(s)
        BY <1>N, <3>1
      <4> QED
        BY <4>1 DEF ContextOK, Nest
    <3> QED
      BY <1>N, <3>1
  <2>3. ASSUME NEW i \in 2 .. Len(t)
        PROVE  t[i].type # "global" /\ (t[i].type = "function" => i = 2)
    <3>1. CASE i =< N
      BY <1>N, <1>1, <3>1 DEF ContextOK, Nest
    <3>2. CASE i = N + 1
      <4>1. t[i].type = type
        BY <1>1, <3>2
      <4> QED
        BY <1>N, <2>2, <3>2, <4>1
    <3> QED
      BY <1>N, <1>1, <3>1, <3>2
  <2>4. g <=> Len(t) > 1 /\ t[2].type = "function"
    <3>1. CASE N = 1
      <4>1. t[2].type = type /\ Len(t) = 2
        BY <1>1, <3>1
      <4>2. ~f
        BY <1>N, <3>1 DEF ContextOK, Nest
      <4> QED
        BY <4>1, <4>2
    <3>2. CASE N > 1
      <4>1. t[2] = s[2] /\ Len(t) > 1 /\ type = "loop"
        BY <1>N, <1>1, <2>2, <3>2
      <4> QED
        BY <1>N, <3>2, <4>1 DEF ContextOK, Nest
    <3>3. N = 1 \/ N > 1
      BY <1>N
    <3> QED
      BY <3>1, <3>2, <3>3, Zenon
  <2> QED
    BY <2>1, <2>3, <2>4 DEF Nest
<1>7. Match(t, c)
  <2>1. Len(c) = RankOf(t, Len(t))
    BY <1>N, <1>1, <1>3 DEF ContextOK, Match
  <2>2. ASSUME NEW i \in 1 .. Len(t) PROVE t[i].nodes \in Owned(t, c, i)
    <3>1. CASE i \in 1 .. N
      BY <1>N, <1>1, <1>4, <3>1 DEF ContextOK, Match
    <3>2. CASE i = N + 1
      BY <1>1, <1>5, <3>2
    <3> QED
      BY <1>N, <1>1, <3>1, <3>2
  <2> QED
    BY <2>1, <2>2 DEF Match
<1>8. Apart(t, c)
  <2>1. \A i \in 1 .. N : Owned(s, c, i) \subseteq 1 .. m
    BY <1>N, OwnedType DEF ContextOK
  <2>2. Owned(t, c, N + 1) \cap 1 .. m = {}
    BY <1>5
  <2> QED
    BY <1>N, <1>1, <1>4, <2>1, <2>2, PushApart DEF ContextOK
<1> QED
  BY <1>2, <1>6, <1>7, <1>8 DEF ContextOK, t

\* The header of a conditional.
LEMMA PushConditional ==
    ASSUME NEW s, NEW c, NEW f, NEW m \in Nat, ContextOK(s, c, f, m)
    PROVE  ContextOK(Append(s, [type |-> "conditional", nodes |-> m + 1]),
                     Append(c, [body |-> m + 1, else_body |-> m + 2]), f, m + 2)
<1> DEFINE x == [type |-> "conditional", nodes |-> m + 1]
           y == [body |-> m + 1, else_body |-> m + 2]
           t == Append(s, x)
           d == Append(c, y)
           N == Len(s)
           R == Len(c)
<1>0. /\ s \in Seq(ScopeOf(m)) /\ N \in Nat \ {0} /\ c \in Seq(ConditionalOf(m)) /\ R \in Nat
      /\ f \in BOOLEAN
  BY EmptySeq, LenProperties DEF ContextOK, Typed
<1>N. N \in Nat /\ N >= 1 /\ Len(s) = N /\ R \in Nat /\ Len(c) = R
  BY <1>0
<1>1. /\ Len(t) = N + 1 /\ t[N + 1] = x
      /\ \A k \in 1 .. N : t[k] = s[k]
  BY <1>0, AppendProperties
<1>2. /\ Len(d) = R + 1 /\ d[R + 1] = y
      /\ \A k \in 1 .. R : d[k] = c[k]
  BY <1>0, AppendProperties
<1>3. Typed(t, d, f, m + 2)
  <2>1. ScopeOf(m) \subseteq ScopeOf(m + 2) /\ ConditionalOf(m) \subseteq ConditionalOf(m + 2)
    BY DEF ScopeOf, ConditionalOf
  <2>2. s \in Seq(ScopeOf(m + 2)) /\ c \in Seq(ConditionalOf(m + 2))
    BY <1>0, <2>1, SeqMonotonic
  <2>3. x \in ScopeOf(m + 2) /\ y \in ConditionalOf(m + 2)
    BY DEF ScopeOf, ScopeType, ConditionalOf
  <2>4. t \in Seq(ScopeOf(m + 2)) /\ t # << >> /\ d \in Seq(ConditionalOf(m + 2))
    BY <2>2, <2>3, AppendProperties
  <2> QED
    BY <1>0, <2>4 DEF Typed
<1> HIDE DEF t, d, N, R
<1>4. RankOf(s, N) = R
  BY <1>N DEF ContextOK, Match
<1>5. RankOf(t, N) = R /\ RankOf(t, N + 1) = R + 1
  <2>1. RankOf(t, N) = RankOf(s, N)
    BY <1>N, <1>1, RankAgrees
  <2>2. t[N + 1].type = "conditional"
    BY <1>1
  <2>3. RankOf(t, N + 1) = RankOf(t, N) + 1
    BY <1>N, <2>2, RankStep
  <2> QED
    BY <1>4, <2>1, <2>3
<1>6. \A i \in 1 .. N : Owned(t, d, i) = Owned(s, c, i)
  <2>1. \A k \in 1 .. N : s[k] = t[k]
    BY <1>1
  <2>2. \A k \in 1 .. RankOf(s, N) : c[k] = d[k]
    BY <1>2, <1>4
  <2> HIDE DEF x, y
  <2>3. N \in Nat
    BY <1>N
  <2> QED
    BY <2>1, <2>2, <2>3, OwnedAgrees
<1>7. Owned(t, d, N + 1) = {m + 1, m + 2}
  BY <1>1, <1>2, <1>5 DEF Owned
<1>8. Nest(t, f)
  <2>1. t[1] = [type |-> "global", nodes |-> 1]
    BY <1>N, <1>1 DEF ContextOK, Nest
  <2>2. ASSUME NEW i \in 2 .. Len(t)
        PROVE  t[i].type # "global" /\ (t[i].type = "function" => i = 2)
    <3>1. CASE i =< N
      BY <1>N, <1>1, <3>1 DEF ContextOK, Nest
    <3>2. CASE i = N + 1
      BY <1>1, <3>2
    <3> QED
      BY <1>N, <1>1, <3>1, <3>2
  <2>3. f <=> Len(t) > 1 /\ t[2].type = "function"
    <3>1. CASE N = 1
      <4>1. t[2].type = "conditional"
        BY <1>1, <3>1
      <4>2. ~f
        BY <1>N, <3>1 DEF ContextOK, Nest
      <4> QED
        BY <4>1, <4>2
    <3>2. CASE N > 1
      <4>1. t[2] = s[2] /\ Len(t) > 1
        BY <1>N, <1>1, <3>2
      <4> QED
        BY <1>N, <3>2, <4>1 DEF ContextOK, Nest
    <3>3. N = 1 \/ N > 1
      BY <1>N
    <3> QED
      BY <3>1, <3>2, <3>3, Zenon
  <2> QED
    BY <2>1, <2>2, <2>3 DEF Nest
<1>9. Match(t, d)
  <2>1. Len(d) = RankOf(t, Len(t))
    BY <1>1, <1>2, <1>5
  <2>2. ASSUME NEW i \in 1 .. Len(t) PROVE t[i].nodes \in Owned(t, d, i)
    <3>1. CASE i \in 1 .. N
      BY <1>N, <1>1, <1>6, <3>1 DEF ContextOK, Match
    <3>2. CASE i = N + 1
      BY <1>1, <1>7, <3>2
    <3> QED
      BY <1>N, <1>1, <3>1, <3>2
  <2> QED
    BY <2>1, <2>2 DEF Match
<1>10. Apart(t, d)
  <2>1. \A i \in 1 .. N : Owned(s, c, i) \subseteq 1 .. m
    BY <1>N, OwnedType DEF ContextOK
  <2>2. Owned(t, d, N + 1) \cap 1 .. m = {}
    BY <1>7
  <2> QED
    BY <1>N, <1>1, <1>6, <2>1, <2>2, PushApart DEF ContextOK
<1> QED
  BY <1>3, <1>8, <1>9, <1>10 DEF ContextOK, t, d

\* An else: the innermost scope moves to the other body of its conditional.
LEMMA SwitchBody ==
    ASSUME NEW s, NEW c, NEW f, NEW m \in Nat, ContextOK(s, c, f, m),
           s[Len(s)].type = "conditional"
    PROVE  /\ Len(c) >= 1
           /\ ContextOK([s EXCEPT ![Len(s)].nodes = c[Len(c)].else_body], c, f, m)
<1> DEFINE N == Len(s)
           R == Len(c)
           t == [s EXCEPT ![N].nodes = c[R].else_body]
<1>0. /\ s \in Seq(ScopeOf(m)) /\ N \in Nat \ {0} /\ c \in Seq(ConditionalOf(m))
      /\ s # << >> /\ f \in BOOLEAN
  BY EmptySeq, LenProperties DEF ContextOK, Typed
<1>1. R = RankOf(s, N) /\ R \in 1 .. R
  BY <1>0, RankInRange DEF ContextOK, Match
<1>N. N \in Nat /\ N >= 1 /\ Len(s) = N /\ R \in Nat /\ R >= 1 /\ Len(c) = R
  BY <1>0, <1>1
<1>2. s[N] \in ScopeOf(m) /\ c[R] \in ConditionalOf(m)
  BY <1>0, <1>1
<1>3. /\ t \in Seq(ScopeOf(m)) /\ Len(t) = N
      /\ t[N].nodes = c[R].else_body
      /\ \A k \in 1 .. N : k # N => t[k] = s[k]
      /\ \A k \in 1 .. N : t[k].type = s[k].type
  <2> DEFINE x == [s[N] EXCEPT !.nodes = c[R].else_body]
  <2>1. x \in ScopeOf(m) /\ x.type = s[N].type /\ x.nodes = c[R].else_body
    BY <1>2 DEF ScopeOf, ConditionalOf
  <2>2. t = [s EXCEPT ![N] = x]
    BY <1>0
  <2> HIDE DEF x, t
  <2>3. /\ t \in Seq(ScopeOf(m)) /\ Len(t) = N
        /\ \A k \in 1 .. N : t[k] = IF k = N THEN x ELSE s[k]
    BY <1>0, <2>1, <2>2, ExceptSeq
  <2> QED
    BY <1>N, <2>1, <2>3
<1> HIDE DEF N, R, t
<1>4. ASSUME NEW i \in 1 .. N PROVE RankOf(t, i) = RankOf(s, i)
  BY <1>N, <1>3, RankAgrees
<1>5. ASSUME NEW i \in 1 .. N PROVE Owned(t, c, i) = Owned(s, c, i)
  <2>1. CASE i = N
    <3>1. s[i].type = "conditional" /\ t[i].type = "conditional"
      BY <1>N, <1>3, <2>1
    <3> QED
      BY <1>4, <3>1 DEF Owned
  <2>2. CASE i # N
    BY <1>3, <1>4, <2>2 DEF Owned
  <2> QED
    BY <2>1, <2>2
<1>6. Typed(t, c, f, m)
  <2>1. t # << >>
    BY <1>N, <1>3, EmptySeq
  <2> QED
    BY <1>0, <1>3, <2>1 DEF Typed
<1>7. Nest(t, f)
  <2>1. N # 1
    BY <1>N DEF ContextOK, Nest
  <2>2. t[1] = s[1] /\ s[1] = [type |-> "global", nodes |-> 1]
    BY <1>N, <1>3, <2>1 DEF ContextOK, Nest
  <2>3. t[2].type = s[2].type
    BY <1>N, <1>3, <2>1
  <2>4. \A i \in 2 .. N : t[i].type # "global" /\ (t[i].type = "function" => i = 2)
    BY <1>N, <1>3 DEF ContextOK, Nest
  <2> QED
    BY <1>N, <1>3, <2>2, <2>3, <2>4 DEF ContextOK, Nest
<1>8. Match(t, c)
  <2>1. Len(c) = RankOf(t, Len(t))
    BY <1>N, <1>1, <1>3, <1>4
  <2>2. ASSUME NEW i \in 1 .. N PROVE t[i].nodes \in Owned(t, c, i)
    <3>1. CASE i = N
      BY <1>N, <1>1, <1>3, <1>4, <3>1 DEF Owned
    <3>2. CASE i # N
      BY <1>N, <1>3, <1>5, <3>2 DEF ContextOK, Match
    <3> QED
      BY <3>1, <3>2
  <2> QED
    BY <1>3, <2>1, <2>2 DEF Match
<1>9. Apart(t, c)
  BY <1>N, <1>3, <1>5 DEF ContextOK, Apart
<1> QED
  BY <1>N, <1>6, <1>7, <1>8, <1>9 DEF ContextOK, t, N, R

\* A footer: the innermost scope is popped, and with it its conditional and its bit.
LEMMA PopScope ==
    ASSUME NEW s, NEW c, NEW f, NEW m \in Nat, ContextOK(s, c, f, m),
           NEW d, NEW g \in BOOLEAN,
           NEW N \in Nat, Len(s) = N + 1,
           s[N + 1].type \in {"conditional", "loop", "function"},
           d = IF s[N + 1].type = "conditional" THEN Popped(c) ELSE c,
           g = IF s[N + 1].type = "function" THEN FALSE ELSE f
    PROVE  ContextOK(Popped(s), d, g, m)
<1> DEFINE t == Popped(s)
           R == RankOf(s, N)
<1>0. /\ s \in Seq(ScopeOf(m)) /\ s # << >> /\ c \in Seq(ConditionalOf(m)) /\ f \in BOOLEAN
  BY DEF ContextOK, Typed
<1>N. N \in Nat /\ N >= 1 /\ Len(s) = N + 1
  <2>1. N # 0
    BY DEF ContextOK, Nest
  <2> QED
    BY <1>0, <2>1
<1>1. R \in Nat /\ Len(c) = IF s[N + 1].type = "conditional" THEN R + 1 ELSE R
  <2>1. R \in 0 .. N
    BY <1>N, RankType
  <2>2. Len(c) = RankOf(s, N + 1)
    BY <1>N DEF ContextOK, Match
  <2> QED
    BY <1>N, <2>1, <2>2, RankStep
<1>2. d \in Seq(ConditionalOf(m)) /\ Len(d) = R /\ \A k \in 1 .. R : d[k] = c[k]
  <2>1. CASE s[N + 1].type = "conditional"
    <3> HIDE DEF R
    <3>1. Len(c) = R + 1 /\ R \in Nat /\ Len(c) - 1 = R
      BY <1>1, <2>1
    <3>2. d = SubSeq(c, 1, R)
      BY <1>N, <2>1, <3>1 DEF Popped
    <3>3. c \in Seq(ConditionalOf(m))
      BY <1>0
    <3> QED
      BY <3>1, <3>2, <3>3, SubSeqProperties
  <2>2. CASE s[N + 1].type # "conditional"
    BY <1>0, <1>N, <1>1, <2>2
  <2> QED
    BY <2>1, <2>2
<1>3. /\ t \in Seq(ScopeOf(m)) /\ Len(t) = N
      /\ \A i \in 1 .. N : t[i] = s[i] /\ Owned(t, d, i) = Owned(s, c, i)
      /\ RankOf(t, N) = R
  <2>1. /\ t \in Seq(ScopeOf(m)) /\ Len(t) = N
        /\ \A i \in 1 .. N : t[i] = s[i]
    BY <1>0, <1>N, SubSeqProperties DEF Popped
  <2> HIDE DEF t, R
  <2>2. RankOf(t, N) = R
    BY <1>N, <2>1, RankAgrees DEF R
  <2>3. ASSUME NEW i \in 1 .. N PROVE Owned(t, d, i) = Owned(s, c, i)
    <3>1. \A k \in 1 .. N : s[k] = t[k]
      BY <2>1
    <3>2. \A k \in 1 .. RankOf(s, N) : c[k] = d[k]
      BY <1>2 DEF R
    <3> QED
      BY <1>N, <3>1, <3>2, OwnedAgrees, SMTT(30)
  <2> QED
    BY <2>1, <2>2, <2>3
<1> HIDE DEF t, R
<1>4. Typed(t, d, g, m)
  <2>1. t # << >>
    BY <1>N, <1>3, EmptySeq
  <2> QED
    BY <1>2, <1>3, <2>1 DEF Typed
<1>5. Nest(t, g)
  <2>1. t[1] = [type |-> "global", nodes |-> 1]
    BY <1>N, <1>3 DEF ContextOK, Nest
  <2>2. \A i \in 2 .. N : t[i].type # "global" /\ (t[i].type = "function" => i = 2)
    BY <1>N, <1>3 DEF ContextOK, Nest
  <2>3. g <=> N > 1 /\ t[2].type = "function"
    <3>1. CASE N = 1
      <4>1. f <=> s[2].type = "function"
        BY <1>N, <3>1 DEF ContextOK, Nest
      <4>2. s[N + 1].type = s[2].type
        BY <3>1
      <4> QED
        BY <1>N, <3>1, <4>1, <4>2
    <3>2. CASE N > 1
      <4>1. N + 1 \in 2 .. Len(s) /\ N + 1 # 2
        BY <1>N, <3>2
      <4>2. s[N + 1].type # "function"
        BY <4>1 DEF ContextOK, Nest
      <4>3. g = f
        BY <1>N, <4>2
      <4>4. t[2] = s[2] /\ Len(s) > 1
        BY <1>N, <1>3, <3>2
      <4>5. f <=> s[2].type = "function"
        BY <4>4 DEF ContextOK, Nest
      <4> QED
        BY <3>2, <4>3, <4>4, <4>5
    <3>3. N = 1 \/ N > 1
      BY <1>N
    <3> QED
      BY <3>1, <3>2, <3>3, Zenon
  <2> QED
    BY <1>3, <2>1, <2>2, <2>3 DEF Nest
<1>6. Match(t, d)
  BY <1>N, <1>2, <1>3 DEF ContextOK, Match
<1>7. Apart(t, d)
  BY <1>N, <1>3 DEF ContextOK, Apart
<1> QED
  BY <1>4, <1>5, <1>6, <1>7 DEF ContextOK, t

-------------------------------------------------------------------------------
(***************************************************************************)
(* The lists.                                                              *)
(***************************************************************************)
\* Append to one list, and add new lists after the others.
LEMMA AppendAt ==
    ASSUME NEW L, NEW ls \in Seq(Seq(L)), NEW n \in 1 .. Len(ls), NEW x \in L,
           NEW new \in Seq(Seq(L)),
           NEW out, out = [ls EXCEPT ![n] = Append(@, x)] \o new
    PROVE  /\ out \in Seq(Seq(L)) /\ Len(out) = Len(ls) + Len(new)
           /\ out[n] = Append(ls[n], x)
           /\ \A i \in 1 .. Len(ls) : i # n => out[i] = ls[i]
           /\ \A i \in 1 .. Len(new) : out[Len(ls) + i] = new[i]
<1> DEFINE e == [ls EXCEPT ![n] = Append(ls[n], x)]
<1>1. ls[n] \in Seq(L)
  OBVIOUS
<1>2. Append(ls[n], x) \in Seq(L)
  BY <1>1, AppendProperties
<1>3. /\ e \in Seq(Seq(L)) /\ Len(e) = Len(ls)
      /\ \A i \in 1 .. Len(ls) : e[i] = IF i = n THEN Append(ls[n], x) ELSE ls[i]
  BY <1>2, ExceptSeq
<1>4. out = e \o new
  OBVIOUS
<1> HIDE DEF e
<1>5. /\ out \in Seq(Seq(L)) /\ Len(out) = Len(e) + Len(new)
      /\ \A i \in 1 .. Len(e) : out[i] = e[i]
      /\ \A i \in 1 .. Len(new) : out[Len(e) + i] = new[i]
  BY <1>3, <1>4, ConcatProperties
<1> QED
  BY <1>3, <1>5

\* The innermost scope and its list exist.
LEMMA TopType ==
    ASSUME IInv
    PROVE  /\ Len(scopes) \in Nat \ {0}
           /\ top \in ScopeOf(Len(lists)) /\ top.nodes \in 1 .. Len(lists)
           /\ Len(lists) \in Nat
<1>1. scopes \in Seq(ScopeOf(Len(lists))) /\ scopes # << >> /\ lists \in Seq(Seq(NodeRecord))
  BY DEF IInv, TypeOK, ContextOK, Typed
<1>2. Len(scopes) \in Nat \ {0} /\ Len(lists) \in Nat
  BY <1>1, EmptySeq, LenProperties
<1>3. Len(scopes) \in 1 .. Len(scopes)
  BY <1>2
<1>4. top \in ScopeOf(Len(lists))
  BY <1>1, <1>3 DEF top
<1> QED
  BY <1>2, <1>4 DEF ScopeOf

\* What a node that is placed changes.
LEMMA PlaceEffect ==
    ASSUME IInv, NEW type \in NodeType, NEW b \in Nat, NEW e \in Nat,
           NEW new \in Seq(Seq(NodeRecord)), Place(Node(type, b, e), new)
    PROVE  /\ lists' \in Seq(Seq(NodeRecord)) /\ Len(lists') = Len(lists) + Len(new)
           /\ lists'[top.nodes] = Append(lists[top.nodes], Node(type, b, e))
           /\ \A i \in 1 .. Len(lists) : i # top.nodes => lists'[i] = lists[i]
           /\ \A i \in 1 .. Len(new) : lists'[Len(lists) + i] = new[i]
<1>1. lists \in Seq(Seq(NodeRecord)) /\ top.nodes \in 1 .. Len(lists)
  BY TopType DEF IInv, TypeOK
<1>2. Len(source) \in Nat
  BY DEF IInv, TypeOK
<1>3. Node(type, b, e) \in NodeRecord
  BY <1>2 DEF Node, NodeRecord
<1>4. lists' = [lists EXCEPT ![top.nodes] = Append(@, Node(type, b, e))] \o new
  BY DEF Place
<1> HIDE DEF Node
<1> QED
  BY <1>1, <1>3, <1>4, AppendAt

-------------------------------------------------------------------------------
(***************************************************************************)
(* The handlers.                                                           *)
(***************************************************************************)
Outcome == {"reading", "accepted", "crashed"} \cup Failure

\* The invariant after a line, but for the text.
Kept == /\ outcome' \in Outcome
        /\ lists' \in Seq(Seq(NodeRecord))
        /\ functions' \in [Name -> {0} \cup 1 .. Len(lists')]
        /\ ContextOK(scopes', conditionals', is_in_function_scope', Len(lists'))

\* A step that leaves the context alone.
LEMMA SameContext ==
    ASSUME IInv, UNCHANGED context, outcome' \in Outcome,
           lists' \in Seq(Seq(NodeRecord)), Len(lists) =< Len(lists'),
           functions' = functions \/ functions' \in [Name -> {0} \cup 1 .. Len(lists')]
    PROVE  Kept
<1>1. Len(lists) \in Nat /\ Len(lists') \in Nat
  BY DEF IInv, TypeOK
<1>2. functions \in [Name -> {0} \cup 1 .. Len(lists)]
  BY DEF IInv, TypeOK, ListIndex
<1>3. functions' \in [Name -> {0} \cup 1 .. Len(lists')]
  BY <1>1, <1>2
<1>4. ContextOK(scopes, conditionals, is_in_function_scope, Len(lists'))
  BY <1>1, Grow DEF IInv
<1> QED
  BY <1>3, <1>4 DEF Kept, context

\* An error.
LEMMA FailKeeps ==
    ASSUME IInv, NEW code \in Outcome, Fail(code), UNCHANGED <<lists, functions>>
    PROVE  Kept
<1>1. lists \in Seq(Seq(NodeRecord)) /\ Len(lists) \in Nat
  BY DEF IInv, TypeOK
<1> QED
  BY <1>1, SameContext DEF Fail

\* A node without bodies.
LEMMA PlaceKeeps ==
    ASSUME IInv, NEW type \in NodeType, Place(Node(type, 0, 0), << >>),
           UNCHANGED <<outcome, functions, context>>
    PROVE  Kept
<1>1. << >> \in Seq(Seq(NodeRecord)) /\ Len(<< >>) = 0
  OBVIOUS
<1>2. lists' \in Seq(Seq(NodeRecord)) /\ Len(lists') = Len(lists) + 0
  BY <1>1, PlaceEffect, Zenon
<1>3. Len(lists) \in Nat
  BY TopType
<1>4. outcome' \in Outcome
  BY DEF IInv, TypeOK, Outcome
<1> QED
  BY <1>2, <1>3, <1>4, SameContext

\* The codes that the handlers fail with are outcomes.
LEMMA ReasonIsOutcome == ASSUME NEW l, NEW code \in Failure
                         PROVE  Reason(l, code) \in Outcome /\ code \in Outcome
  BY DEF Reason, Outcome, Failure

LEMMA StatementKeeps == ASSUME IInv, NEW l \in Lines, handle_statement(l) PROVE Kept
  BY PlaceKeeps DEF handle_statement, Proceed, NodeType

LEMMA UnknownKeeps == ASSUME IInv, NEW l \in Lines, handle_unknown(l) PROVE Kept
<1>1. "invalid_construct" \in Outcome
  BY DEF Outcome, Failure
<1> QED
  BY <1>1, FailKeeps DEF handle_unknown

LEMMA ReturnKeeps == ASSUME IInv, NEW l \in Lines, handle_return(l) PROVE Kept
<1>1. CASE Fail("return_in_invalid_scope") /\ UNCHANGED <<lists, functions>>
  <2>1. "return_in_invalid_scope" \in Outcome
    BY DEF Outcome, Failure
  <2> QED
    BY <1>1, <2>1, FailKeeps
<1>2. CASE /\ Fail(Reason(l, "return_expression_not_number_type"))
           /\ UNCHANGED <<lists, functions>>
  <2>1. "return_expression_not_number_type" \in Failure
    BY DEF Failure
  <2>2. Reason(l, "return_expression_not_number_type") \in Outcome
    BY <2>1, ReasonIsOutcome
  <2> QED
    BY <1>2, <2>2, FailKeeps
<1>3. CASE /\ Place(Node("function_return", 0, 0), << >>)
           /\ UNCHANGED <<outcome, functions, context>>
  BY <1>3, PlaceKeeps DEF NodeType
<1> QED
  BY <1>1, <1>2, <1>3 DEF handle_return, Proceed

LEMMA ConditionalHeaderKeeps ==
    ASSUME IInv, NEW l \in Lines, handle_conditional_header(l) PROVE Kept
<1>1. CASE /\ Fail(Reason(l, "conditional_construct_condition_not_boolean_type"))
           /\ UNCHANGED <<lists, functions>>
  <2>1. "conditional_construct_condition_not_boolean_type" \in Failure
    BY DEF Failure
  <2>2. Reason(l, "conditional_construct_condition_not_boolean_type") \in Outcome
    BY <2>1, ReasonIsOutcome
  <2> QED
    BY <1>1, <2>2, FailKeeps
<1>2. CASE /\ Place(Node("conditional_construct", NewList(1), NewList(2)), << << >>, << >> >>)
           /\ scopes' = Append(scopes, [type |-> "conditional", nodes |-> NewList(1)])
           /\ conditionals' = Append(conditionals, [body |-> NewList(1), else_body |-> NewList(2)])
           /\ UNCHANGED <<outcome, is_in_function_scope, functions>>
  <2> DEFINE m == Len(lists)
  <2>1. m \in Nat /\ NewList(1) = m + 1 /\ NewList(2) = m + 2
    BY TopType DEF NewList
  <2> HIDE DEF m
  <2>2. << << >>, << >> >> \in Seq(Seq(NodeRecord)) /\ Len(<< << >>, << >> >>) = 2
    OBVIOUS
  <2>3. m + 1 \in Nat /\ m + 2 \in Nat /\ "conditional_construct" \in NodeType
    BY <2>1 DEF NodeType
  <2>4. lists' \in Seq(Seq(NodeRecord)) /\ Len(lists') = m + 2
    <3>1. Place(Node("conditional_construct", m + 1, m + 2), << << >>, << >> >>)
      BY <1>2, <2>1
    <3>2. Len(lists') = Len(lists) + 2 /\ lists' \in Seq(Seq(NodeRecord))
      BY <2>2, <2>3, <3>1, PlaceEffect, Zenon
    <3> QED
      BY <3>2 DEF m
  <2>5. ContextOK(scopes', conditionals', is_in_function_scope', m + 2)
    <3>1. ContextOK(scopes, conditionals, is_in_function_scope, m)
      BY DEF IInv, m
    <3> QED
      BY <1>2, <2>1, <3>1, PushConditional
  <2>6. functions' \in [Name -> {0} \cup 1 .. m + 2]
    <3>1. functions \in [Name -> {0} \cup 1 .. m]
      BY DEF IInv, TypeOK, ListIndex, m
    <3> QED
      BY <1>2, <2>1, <3>1
  <2>7. outcome' \in Outcome
    BY <1>2 DEF IInv, TypeOK, Outcome
  <2> QED
    BY <2>4, <2>5, <2>6, <2>7 DEF Kept
<1> QED
  BY <1>1, <1>2 DEF handle_conditional_header, Proceed

LEMMA LoopHeaderKeeps == ASSUME IInv, NEW l \in Lines, handle_loop_header(l) PROVE Kept
<1>1. CASE Fail(Reason(l, "loop_condition_not_boolean_type")) /\ UNCHANGED <<lists, functions>>
  <2>1. "loop_condition_not_boolean_type" \in Failure
    BY DEF Failure
  <2>2. Reason(l, "loop_condition_not_boolean_type") \in Outcome
    BY <2>1, ReasonIsOutcome
  <2> QED
    BY <1>1, <2>2, FailKeeps
<1>2. CASE /\ Place(Node("loop", NewList(1), 0), << << >> >>)
           /\ scopes' = Append(scopes, [type |-> "loop", nodes |-> NewList(1)])
           /\ UNCHANGED <<outcome, conditionals, is_in_function_scope, functions>>
  <2> DEFINE m == Len(lists)
  <2>1. m \in Nat /\ NewList(1) = m + 1
    BY TopType DEF NewList
  <2> HIDE DEF m
  <2>2. << << >> >> \in Seq(Seq(NodeRecord)) /\ Len(<< << >> >>) = 1
    OBVIOUS
  <2>3. m + 1 \in Nat /\ 0 \in Nat /\ "loop" \in NodeType
    BY <2>1 DEF NodeType
  <2>4. lists' \in Seq(Seq(NodeRecord)) /\ Len(lists') = m + 1
    <3>1. Place(Node("loop", m + 1, 0), << << >> >>)
      BY <1>2, <2>1
    <3>2. Len(lists') = Len(lists) + 1 /\ lists' \in Seq(Seq(NodeRecord))
      BY <2>2, <2>3, <3>1, PlaceEffect, Zenon
    <3> QED
      BY <3>2 DEF m
  <2>5. ContextOK(scopes', conditionals', is_in_function_scope', m + 1)
    <3>1. /\ ContextOK(scopes, conditionals, is_in_function_scope, m)
          /\ is_in_function_scope \in BOOLEAN
      BY DEF IInv, TypeOK, m
    <3> QED
      BY <1>2, <2>1, <3>1, PushPlain
  <2>6. functions' \in [Name -> {0} \cup 1 .. m + 1]
    <3>1. functions \in [Name -> {0} \cup 1 .. m]
      BY DEF IInv, TypeOK, ListIndex, m
    <3> QED
      BY <1>2, <2>1, <3>1
  <2>7. outcome' \in Outcome
    BY <1>2 DEF IInv, TypeOK, Outcome
  <2> QED
    BY <2>4, <2>5, <2>6, <2>7 DEF Kept
<1> QED
  BY <1>1, <1>2 DEF handle_loop_header, Proceed

\* A step that changes the context, but neither the lists nor the functions.
LEMMA ContextOnly ==
    ASSUME IInv, UNCHANGED <<outcome, lists, functions>>,
           ContextOK(scopes', conditionals', is_in_function_scope', Len(lists))
    PROVE  Kept
  BY DEF IInv, TypeOK, Kept, ListIndex, Outcome

LEMMA ElseKeeps == ASSUME IInv, NEW l \in Lines, handle_conditional_else(l) PROVE Kept
<1>1. CASE Fail("mismatched_else") /\ UNCHANGED <<lists, functions>>
  <2>1. "mismatched_else" \in Outcome
    BY DEF Outcome, Failure
  <2> QED
    BY <1>1, <2>1, FailKeeps
<1>2. CASE /\ top.type = "conditional"
           /\ scopes' = [scopes EXCEPT ![Len(scopes)].nodes = conditionals[Len(conditionals)].else_body]
           /\ UNCHANGED <<outcome, conditionals, is_in_function_scope, lists, functions>>
  <2>1. Len(lists) \in Nat /\ ContextOK(scopes, conditionals, is_in_function_scope, Len(lists))
    BY TopType DEF IInv
  <2>2. scopes[Len(scopes)].type = "conditional"
    BY <1>2 DEF top
  <2>3. ContextOK(scopes', conditionals', is_in_function_scope', Len(lists))
    BY <1>2, <2>1, <2>2, SwitchBody
  <2> QED
    BY <1>2, <2>3, ContextOnly
<1> QED
  BY <1>1, <1>2 DEF handle_conditional_else, Proceed

\* The innermost scope is popped with what belongs to it.
LEMMA PopKeeps ==
    ASSUME IInv, top.type \in {"conditional", "loop", "function"},
           scopes' = Popped(scopes),
           conditionals' = IF top.type = "conditional" THEN Popped(conditionals) ELSE conditionals,
           is_in_function_scope' = IF top.type = "function" THEN FALSE ELSE is_in_function_scope,
           UNCHANGED <<outcome, lists, functions>>
    PROVE  Kept
<1>1. PICK n \in Nat : Len(scopes) = n + 1
  <2>1. Len(scopes) \in Nat \ {0}
    BY TopType
  <2>2. Len(scopes) - 1 \in Nat /\ Len(scopes) = (Len(scopes) - 1) + 1
    BY <2>1
  <2> QED
    BY <2>2
<1>2. top = scopes[n + 1]
  BY <1>1 DEF top
<1>3. /\ Len(lists) \in Nat /\ is_in_function_scope' \in BOOLEAN
      /\ ContextOK(scopes, conditionals, is_in_function_scope, Len(lists))
  BY TopType DEF IInv, TypeOK
<1>4. ContextOK(scopes', conditionals', is_in_function_scope', Len(lists))
  BY <1>1, <1>2, <1>3, PopScope
<1> QED
  BY <1>4, ContextOnly

LEMMA ConditionalFooterKeeps ==
    ASSUME IInv, NEW l \in Lines, handle_conditional_footer(l) PROVE Kept
<1>1. CASE Fail("mismatched_header_footer_type") /\ UNCHANGED <<lists, functions>>
  <2>1. "mismatched_header_footer_type" \in Outcome
    BY DEF Outcome, Failure
  <2> QED
    BY <1>1, <2>1, FailKeeps
<1>2. CASE /\ top.type = "conditional"
           /\ conditionals' = Popped(conditionals) /\ scopes' = Popped(scopes)
           /\ UNCHANGED <<outcome, is_in_function_scope, lists, functions>>
  BY <1>2, PopKeeps
<1> QED
  BY <1>1, <1>2 DEF handle_conditional_footer, Proceed

LEMMA LoopFooterKeeps == ASSUME IInv, NEW l \in Lines, handle_loop_footer(l) PROVE Kept
<1>1. CASE Fail("mismatched_header_footer_type") /\ UNCHANGED <<lists, functions>>
  <2>1. "mismatched_header_footer_type" \in Outcome
    BY DEF Outcome, Failure
  <2> QED
    BY <1>1, <2>1, FailKeeps
<1>2. CASE /\ top.type = "loop" /\ scopes' = Popped(scopes)
           /\ UNCHANGED <<outcome, conditionals, is_in_function_scope, lists, functions>>
  BY <1>2, PopKeeps
<1> QED
  BY <1>1, <1>2 DEF handle_loop_footer, Proceed

LEMMA FunctionFooterKeeps ==
    ASSUME IInv, NEW l \in Lines, handle_function_footer(l) PROVE Kept
<1>1. CASE /\ \E code \in {"mismatched_endfn", "crashed", "missing_return"} : Fail(code)
           /\ UNCHANGED <<lists, functions>>
  <2>1. \A code \in {"mismatched_endfn", "crashed", "missing_return"} : code \in Outcome
    BY DEF Outcome, Failure
  <2> QED
    BY <1>1, <2>1, FailKeeps
<1>2. CASE /\ top.type = "function" /\ scopes' = Popped(scopes) /\ is_in_function_scope' = FALSE
           /\ UNCHANGED <<outcome, conditionals, lists, functions>>
  BY <1>2, PopKeeps
<1> QED
  BY <1>1, <1>2 DEF handle_function_footer, Proceed

\* What the insertion of a function changes.
LEMMA DefineEffect ==
    ASSUME IInv, NEW name \in Name, NEW body \in Seq(NodeRecord), Define(name, body)
    PROVE  /\ lists' \in Seq(Seq(NodeRecord)) /\ Len(lists') = Len(lists) + 1
           /\ \A i \in 1 .. Len(lists) : lists'[i] = lists[i]
           /\ lists'[Len(lists) + 1] = body
           /\ functions' = [functions EXCEPT ![name] = Len(lists) + 1]
           /\ functions' \in [Name -> {0} \cup 1 .. Len(lists')]
<1>1. lists \in Seq(Seq(NodeRecord)) /\ Len(lists) \in Nat
  BY TopType DEF IInv, TypeOK
<1>2. /\ lists' \in Seq(Seq(NodeRecord)) /\ Len(lists') = Len(lists) + 1
      /\ \A i \in 1 .. Len(lists) : lists'[i] = lists[i]
      /\ lists'[Len(lists) + 1] = body
  BY <1>1, AppendProperties DEF Define
<1>3. functions' = [functions EXCEPT ![name] = Len(lists) + 1]
  BY DEF Define, NewList
<1>4. functions \in [Name -> {0} \cup 1 .. Len(lists)]
  BY DEF IInv, TypeOK, ListIndex
<1>5. functions' \in [Name -> {0} \cup 1 .. Len(lists')]
  BY <1>1, <1>2, <1>3, <1>4
<1> QED
  BY <1>2, <1>3, <1>5

LEMMA FunctionKeeps ==
    ASSUME IInv, NEW l \in Lines, handle_function_defintion(l) PROVE Kept
<1>0. Len(lists) \in Nat /\ << >> \in Seq(NodeRecord)
  BY TopType
<1>1. CASE /\ \E code \in {"invalid_function_definition", "invalid_function_argument_list",
                           "duplicate_function"} : Fail(code)
           /\ UNCHANGED <<lists, functions>>
  <2>1. \A code \in {"invalid_function_definition", "invalid_function_argument_list",
                     "duplicate_function"} : code \in Outcome
    BY DEF Outcome, Failure
  <2> QED
    BY <1>1, <2>1, FailKeeps
<1>2. CASE /\ GlobalScopeOnly /\ l.name \in Name
           /\ Define(l.name, << >>)
           /\ scopes' = Append(scopes, [type |-> "function", nodes |-> NewList(1)])
           /\ is_in_function_scope' = TRUE
           /\ UNCHANGED <<outcome, conditionals>>
  <2> DEFINE m == Len(lists)
  <2>1. /\ lists' \in Seq(Seq(NodeRecord)) /\ Len(lists') = m + 1
        /\ functions' \in [Name -> {0} \cup 1 .. Len(lists')]
    BY <1>0, <1>2, DefineEffect
  <2>2. /\ m \in Nat /\ NewList(1) = m + 1 /\ TRUE \in BOOLEAN
        /\ scopes[Len(scopes)].type = "global"
        /\ ContextOK(scopes, conditionals, is_in_function_scope, m)
    BY <1>0, <1>2 DEF NewList, IInv, GlobalScopeOnly, top
  <2> HIDE DEF m
  <2>3. ContextOK(scopes', conditionals', is_in_function_scope', m + 1)
    BY <1>2, <2>2, PushPlain
  <2>4. outcome' \in Outcome
    BY <1>2 DEF IInv, TypeOK, Outcome
  <2> QED
    BY <2>1, <2>3, <2>4 DEF Kept
<1>3. CASE /\ l.name \in Name /\ Define(l.name, << >>)
           /\ Fail(Reason(l, "simple_function_value_not_number_type"))
  <2>1. "simple_function_value_not_number_type" \in Failure
    BY DEF Failure
  <2>2. outcome' \in Outcome /\ UNCHANGED context
    BY <1>3, <2>1, ReasonIsOutcome DEF Fail
  <2>3. /\ lists' \in Seq(Seq(NodeRecord)) /\ Len(lists') = Len(lists) + 1
        /\ functions' \in [Name -> {0} \cup 1 .. Len(lists')]
    BY <1>0, <1>3, DefineEffect
  <2> QED
    BY <1>0, <2>2, <2>3, SameContext
<1>4. CASE /\ l.name \in Name /\ Define(l.name, <<Node("function_return", 0, 0)>>)
           /\ UNCHANGED <<outcome, context>>
  <2>1. <<Node("function_return", 0, 0)>> \in Seq(NodeRecord)
    <3>1. Len(source) \in Nat /\ "function_return" \in NodeType
      BY DEF IInv, TypeOK, NodeType
    <3>2. Node("function_return", 0, 0) \in NodeRecord
      BY <3>1 DEF Node, NodeRecord
    <3> QED
      BY <3>2
  <2>2. /\ lists' \in Seq(Seq(NodeRecord)) /\ Len(lists') = Len(lists) + 1
        /\ functions' \in [Name -> {0} \cup 1 .. Len(lists')]
    BY <1>4, <2>1, DefineEffect, Zenon
  <2>3. outcome' \in Outcome
    BY <1>4 DEF IInv, TypeOK, Outcome
  <2> QED
    BY <1>0, <1>4, <2>2, <2>3, SameContext
<1> QED
  BY <1>1, <1>2, <1>3, <1>4 DEF handle_function_defintion, Proceed

-------------------------------------------------------------------------------
(***************************************************************************)
(* The invariant.                                                          *)
(***************************************************************************)
LEMMA InitEstablishes == Init => IInv
<1> SUFFICES ASSUME Init PROVE IInv
  OBVIOUS
<1> DEFINE s == << [type |-> "global", nodes |-> 1] >>
           c == << >>
<1>1. scopes = s /\ conditionals = c /\ is_in_function_scope = FALSE /\ lists = << << >> >>
  BY DEF Init
<1>2. Len(s) = 1 /\ s[1] = [type |-> "global", nodes |-> 1] /\ Len(c) = 0 /\ Len(lists) = 1
  BY <1>1
<1>3. Typed(s, c, FALSE, 1)
  BY DEF Typed, ScopeOf, ScopeType, ConditionalOf
<1>4. Nest(s, FALSE)
  BY DEF Nest
<1>5. RankOf(s, 1) = 0
  <2>1. RankOf(s, 0) \in 0 .. 0
    BY RankType
  <2>2. s[0 + 1].type # "conditional"
    BY <1>2
  <2>3. RankOf(s, 0 + 1) = RankOf(s, 0)
    BY <2>2, RankStep
  <2> QED
    BY <2>1, <2>3
<1>6. Match(s, c)
  <2>1. s[1].nodes \in Owned(s, c, 1)
    BY <1>2 DEF Owned
  <2> QED
    BY <1>2, <1>5, <2>1 DEF Match
<1>7. Apart(s, c)
  BY <1>2 DEF Apart
<1>8. ContextOK(s, c, FALSE, 1)
  BY <1>3, <1>4, <1>6, <1>7 DEF ContextOK
<1>9. TypeOK
  <2>1. scopes \in Seq([type : ScopeType, nodes : ListIndex]) \ {<< >>}
    BY <1>1, <1>2 DEF ScopeType, ListIndex
  <2>2. lists \in Seq(Seq(NodeRecord)) /\ source \in Seq(Lines)
    BY <1>1 DEF Init
  <2>3. functions \in [Name -> {0} \cup ListIndex]
    BY DEF Init
  <2>4. conditionals \in Seq([body : ListIndex, else_body : ListIndex])
    BY <1>1
  <2>5. outcome = "reading" /\ is_in_function_scope \in BOOLEAN
    BY DEF Init
  <2> QED
    BY <2>1, <2>2, <2>3, <2>4, <2>5 DEF TypeOK
<1> QED
  BY <1>1, <1>2, <1>8, <1>9 DEF IInv

LEMMA LineKeeps == ASSUME IInv, NEW l \in Lines, parse_line(l) PROVE Kept
BY StatementKeeps, UnknownKeeps, ReturnKeeps, ConditionalHeaderKeeps, ElseKeeps,
   ConditionalFooterKeeps, LoopHeaderKeeps, LoopFooterKeeps, FunctionKeeps, FunctionFooterKeeps
   DEF parse_line

\* What Kept is for: with the text it is the invariant again.
LEMMA KeptIsEnough == ASSUME source' \in Seq(Lines), Kept PROVE IInv'
<1>1. /\ scopes' \in Seq(ScopeOf(Len(lists'))) \ {<< >>}
      /\ conditionals' \in Seq(ConditionalOf(Len(lists')))
      /\ is_in_function_scope' \in BOOLEAN
  BY DEF Kept, ContextOK, Typed
<1>2. TypeOK'
  BY <1>1 DEF TypeOK, Kept, ScopeOf, ConditionalOf, ListIndex, Outcome
<1>3. ContextOK(scopes, conditionals, is_in_function_scope, Len(lists))'
  BY DEF Kept, ContextOK, Typed, Nest, Match, Apart, Owned, RankOf
<1> QED
  BY <1>2, <1>3 DEF IInv

LEMMA NextPreserves == IInv /\ [Next]_vars => IInv'
<1> SUFFICES ASSUME IInv, [Next]_vars PROVE IInv'
  OBVIOUS
<1>1. source \in Seq(Lines)
  BY DEF IInv, TypeOK
<1>2. ASSUME NEW l \in Lines, parse_line(l) PROVE IInv'
  <2>1. source' \in Seq(Lines)
    BY <1>1, <1>2, AppendProperties DEF parse_line
  <2>2. Kept
    BY <1>2, LineKeeps
  <2> QED
    BY <2>1, <2>2, KeptIsEnough
<1>3. ASSUME outcome' \in Outcome, UNCHANGED <<source, lists, functions, context>> PROVE IInv'
  <2>1. lists \in Seq(Seq(NodeRecord)) /\ Len(lists) \in Nat
    BY DEF IInv, TypeOK
  <2>2. Kept
    BY <1>3, <2>1, SameContext
  <2> QED
    BY <1>1, <1>3, <2>2, KeptIsEnough
<1>4. CASE finish
  <2>1. outcome' \in Outcome
    BY <1>4 DEF finish, Outcome, Failure
  <2> QED
    BY <1>3, <1>4, <2>1 DEF finish
<1>5. CASE UNCHANGED vars
  <2>1. outcome' \in Outcome
    BY <1>5 DEF vars, IInv, TypeOK, Outcome
  <2> QED
    BY <1>3, <1>5, <2>1 DEF vars, context
<1> QED
  BY <1>2, <1>4, <1>5 DEF Next

\* The inductive invariant of the parser's stacks.
THEOREM Invariance == Spec => []IInv
<1>1. Init => IInv
  BY InitEstablishes
<1>2. IInv /\ [Next]_vars => IInv'
  BY NextPreserves
<1> QED
  BY <1>1, <1>2, PTL DEF Spec

\* Every variable has its type and every reference is to a list of the AST.
THEOREM TypeCorrect == Spec => []TypeOK
BY Invariance, PTL DEF IInv

\* Scopes that own different lists refer to different lists.
LEMMA InvScopesNest == IInv => ScopesNest
<1> SUFFICES ASSUME IInv PROVE ScopesNest
  OBVIOUS
<1>1. Nest(scopes, is_in_function_scope)
  BY DEF IInv, ContextOK
<1>2. ASSUME NEW i \in 1 .. Len(scopes), NEW j \in 1 .. Len(scopes),
             scopes[i].nodes = scopes[j].nodes
      PROVE  i = j
  <2>1. /\ scopes[i].nodes \in Owned(scopes, conditionals, i)
        /\ scopes[j].nodes \in Owned(scopes, conditionals, j)
    BY DEF IInv, ContextOK, Match
  <2>2. Apart(scopes, conditionals)
    BY DEF IInv, ContextOK
  <2> QED
    BY <1>2, <2>1, <2>2 DEF Apart
<1> QED
  BY <1>1, <1>2 DEF ScopesNest, Nest

\* Scopes nest, on lists of their own, and is_in_function_scope says whether one is a function's.
THEOREM ScopesAreNested == Spec => []ScopesNest
BY InvScopesNest, Invariance, PTL

\* else and endif find the conditional that their scope belongs to on top of conditionals.
THEOREM ConditionalsAreMatched == Spec => []ConditionalsMatch
<1>1. IInv => ConditionalsMatch
  <2> SUFFICES ASSUME IInv PROVE ConditionalsMatch
    OBVIOUS
  <2>1. \A i : Rank(i) = RankOf(scopes, i)
    BY DEF Rank, RankOf
  <2>2. Match(scopes, conditionals)
    BY DEF IInv, ContextOK
  <2> QED
    BY <2>1, <2>2 DEF ConditionalsMatch, Match, Owned
<1> QED
  BY <1>1, Invariance, PTL

-------------------------------------------------------------------------------
(***************************************************************************)
(* BodyBlock implements BodyGrammar: what is open is the types of the      *)
(* scopes above the first one, and the last item of the open function is   *)
(* read off the list that its scope refers to.                             *)
(***************************************************************************)
OpenOf(s) == [i \in 1 .. Len(s) - 1 |-> s[i + 1].type]

\* What is open, as a sequence.
LEMMA OpenType ==
    ASSUME NEW m, NEW s \in Seq(ScopeOf(m)), NEW N \in Nat, Len(s) = N + 1
    PROVE  /\ OpenOf(s) \in Seq(ScopeType) /\ Len(OpenOf(s)) = N
           /\ \A i \in 1 .. N : OpenOf(s)[i] = s[i + 1].type
<1>1. OpenOf(s) = [i \in 1 .. N |-> s[i + 1].type]
  BY DEF OpenOf
<1>2. \A i \in 1 .. N : s[i + 1].type \in ScopeType
  <2> SUFFICES ASSUME NEW i \in 1 .. N PROVE s[i + 1] \in ScopeOf(m)
    BY DEF ScopeOf
  <2>1. i + 1 \in 1 .. Len(s)
    OBVIOUS
  <2> QED
    BY <2>1, ElementOfSeq
<1>3. OpenOf(s) \in [1 .. N -> ScopeType]
  BY <1>1, <1>2
<1>4. OpenOf(s) \in Seq(ScopeType)
  BY <1>3
<1>5. DOMAIN OpenOf(s) = 1 .. N /\ DOMAIN OpenOf(s) = 1 .. Len(OpenOf(s))
  BY <1>1, <1>4, LenProperties
<1>6. Len(OpenOf(s)) = N
  BY <1>4, <1>5, LenProperties
<1> QED
  BY <1>1, <1>4, <1>6

\* A scope that is pushed is a construct that is opened.
LEMMA OpenAppend ==
    ASSUME NEW m, NEW s \in Seq(ScopeOf(m)), s # << >>, NEW x \in ScopeOf(m)
    PROVE  OpenOf(Append(s, x)) = Append(OpenOf(s), x.type)
<1>1. PICK N \in Nat : Len(s) = N + 1
  <2>1. Len(s) \in Nat \ {0}
    BY EmptySeq
  <2>2. Len(s) - 1 \in Nat /\ Len(s) = (Len(s) - 1) + 1
    BY <2>1
  <2> QED
    BY <2>2
<1> DEFINE t == Append(s, x)
<1>2. /\ t \in Seq(ScopeOf(m)) /\ Len(t) = (N + 1) + 1 /\ t[(N + 1) + 1] = x
      /\ \A i \in 1 .. N + 1 : t[i] = s[i]
  BY <1>1, AppendProperties
<1> HIDE DEF t
<1>3. /\ OpenOf(s) \in Seq(ScopeType) /\ Len(OpenOf(s)) = N
      /\ \A i \in 1 .. N : OpenOf(s)[i] = s[i + 1].type
  BY <1>1, OpenType
<1>4. /\ OpenOf(t) \in Seq(ScopeType) /\ Len(OpenOf(t)) = N + 1
      /\ \A i \in 1 .. N + 1 : OpenOf(t)[i] = t[i + 1].type
  <2>1. N + 1 \in Nat
    BY <1>1
  <2> QED
    BY <1>2, <2>1, OpenType
<1>5. x.type \in ScopeType
  BY DEF ScopeOf
<1>6. /\ Append(OpenOf(s), x.type) \in Seq(ScopeType)
      /\ Len(Append(OpenOf(s), x.type)) = N + 1
      /\ Append(OpenOf(s), x.type)[N + 1] = x.type
      /\ \A i \in 1 .. N : Append(OpenOf(s), x.type)[i] = s[i + 1].type
  BY <1>3, <1>5, AppendProperties
<1>7. ASSUME NEW i \in 1 .. N + 1
      PROVE  OpenOf(t)[i] = Append(OpenOf(s), x.type)[i]
  <2>1. CASE i \in 1 .. N
    <3>1. i + 1 \in 1 .. N + 1
      BY <2>1
    <3> QED
      BY <1>2, <1>4, <1>6, <2>1, <3>1
  <2>2. CASE i = N + 1
    BY <1>2, <1>4, <1>6, <2>2
  <2>3. i \in 1 .. N \/ i = N + 1
    BY <1>1
  <2> QED
    BY <2>1, <2>2, <2>3, Zenon
<1>8. OpenOf(t) = Append(OpenOf(s), x.type)
  BY <1>4, <1>6, <1>7, SeqEqual
<1> QED
  BY <1>8 DEF t

\* A scope that is popped is a construct that is closed.
LEMMA OpenPopped ==
    ASSUME NEW m, NEW s \in Seq(ScopeOf(m)), NEW N \in Nat, Len(s) = (N + 1) + 1
    PROVE  OpenOf(Popped(s)) = SubSeq(OpenOf(s), 1, Len(OpenOf(s)) - 1)
<1> DEFINE t == Popped(s)
           u == SubSeq(OpenOf(s), 1, N)
<1>1. /\ t \in Seq(ScopeOf(m)) /\ Len(t) = N + 1
      /\ \A i \in 1 .. N + 1 : t[i] = s[i]
  <2>1. \A i \in 1 .. N + 1 : s[i] \in ScopeOf(m)
    BY ElementOfSeq
  <2>2. 1 \in Int /\ N + 1 \in Int /\ t = SubSeq(s, 1, N + 1)
    BY DEF Popped
  <2>3. /\ SubSeq(s, 1, N + 1) \in Seq(ScopeOf(m))
        /\ Len(SubSeq(s, 1, N + 1)) = IF 1 =< N + 1 THEN (N + 1) - 1 + 1 ELSE 0
        /\ \A i \in 1 .. (N + 1) - 1 + 1 : SubSeq(s, 1, N + 1)[i] = s[1 + i - 1]
    BY <2>1, <2>2, SubSeqProperties
  <2> QED
    BY <2>2, <2>3
<1>2. /\ OpenOf(s) \in Seq(ScopeType) /\ Len(OpenOf(s)) = N + 1
      /\ \A i \in 1 .. N + 1 : OpenOf(s)[i] = s[i + 1].type
  <2>1. N + 1 \in Nat
    OBVIOUS
  <2> QED
    BY <2>1, OpenType
<1>3. /\ u \in Seq(ScopeType) /\ Len(u) = N
      /\ \A i \in 1 .. N : u[i] = OpenOf(s)[i]
  <2>1. \A i \in 1 .. N : OpenOf(s)[i] \in ScopeType
    BY <1>2, ElementOfSeq
  <2>2. /\ u \in Seq(ScopeType)
        /\ Len(u) = IF 1 =< N THEN N - 1 + 1 ELSE 0
        /\ \A i \in 1 .. N - 1 + 1 : u[i] = OpenOf(s)[1 + i - 1]
    BY <2>1, SubSeqProperties
  <2> QED
    BY <2>2
<1> HIDE DEF t, u
<1>4. /\ OpenOf(t) \in Seq(ScopeType) /\ Len(OpenOf(t)) = N
      /\ \A i \in 1 .. N : OpenOf(t)[i] = t[i + 1].type
  BY <1>1, OpenType
<1>5. ASSUME NEW i \in 1 .. N PROVE OpenOf(t)[i] = u[i]
  <2>1. i \in 1 .. N + 1 /\ i + 1 \in 1 .. N + 1
    OBVIOUS
  <2> QED
    BY <1>1, <1>2, <1>3, <1>4, <2>1
<1>6. OpenOf(t) = u
  BY <1>3, <1>4, <1>5, SeqEqual
<1> QED
  BY <1>2, <1>6 DEF t, u

\* An else does not open or close anything.
LEMMA OpenElse ==
    ASSUME NEW m, NEW s \in Seq(ScopeOf(m)), s # << >>, NEW n
    PROVE  OpenOf([s EXCEPT ![Len(s)].nodes = n]) = OpenOf(s)
<1> DEFINE t == [s EXCEPT ![Len(s)].nodes = n]
<1>1. DOMAIN s = 1 .. Len(s) /\ DOMAIN t = DOMAIN s /\ Len(s) \in Nat
  BY LenProperties
<1>2. \A i \in 1 .. Len(s) : t[i].type = s[i].type
  <2> SUFFICES ASSUME NEW i \in 1 .. Len(s) PROVE t[i].type = s[i].type
    OBVIOUS
  <2>1. s[i] \in ScopeOf(m)
    BY ElementOfSeq
  <2> QED
    BY <1>1, <2>1 DEF ScopeOf
<1>3. Len(t) = Len(s)
  BY <1>1
<1> HIDE DEF t
<1>4. \A i \in 1 .. Len(s) - 1 : t[i + 1].type = s[i + 1].type
  BY <1>1, <1>2
<1>5. OpenOf(t) = OpenOf(s)
  BY <1>3, <1>4 DEF OpenOf
<1> QED
  BY <1>5 DEF t

-------------------------------------------------------------------------------
(***************************************************************************)
(* The two views of a state.                                               *)
(***************************************************************************)
LEMMA ScopesType ==
    ASSUME IInv
    PROVE  /\ scopes \in Seq(ScopeOf(Len(lists))) /\ scopes # << >>
           /\ Len(scopes) \in Nat /\ Len(scopes) >= 1
           /\ Nest(scopes, is_in_function_scope)
           /\ lists \in Seq(Seq(NodeRecord)) /\ is_in_function_scope \in BOOLEAN
<1>1. scopes \in Seq(ScopeOf(Len(lists))) /\ scopes # << >>
  BY DEF IInv, ContextOK, Typed
<1>2. Len(scopes) \in Nat \ {0}
  BY <1>1, EmptySeq
<1> QED
  BY <1>1, <1>2 DEF IInv, TypeOK, ContextOK

\* What the grammar asks of what is open is what the parser asks of its scopes.
LEMMA Views ==
    ASSUME IInv
    PROVE  /\ Open = << >> <=> top.type = "global"
           /\ \A c \in Grammar!Construct : Grammar!Innermost(c) <=> top.type = c
           /\ Grammar!InFunction <=> is_in_function_scope
           /\ Open = <<"function">> <=> is_in_function_scope /\ Len(scopes) = 2
           /\ top.type = "global" => Len(scopes) = 1 /\ ~is_in_function_scope
           /\ top.type = "function" => Len(scopes) = 2 /\ is_in_function_scope
           /\ is_in_function_scope => Len(scopes) >= 2
           /\ top.type = "global" <=> Len(scopes) = 1
<1>1. PICK N \in Nat : Len(scopes) = N + 1
  <2>1. Len(scopes) - 1 \in Nat /\ Len(scopes) = (Len(scopes) - 1) + 1
    BY ScopesType
  <2> QED
    BY <2>1
<1>2. Open = OpenOf(scopes)
  BY DEF Open, OpenOf
<1>3. /\ Open \in Seq(ScopeType) /\ Len(Open) = N
      /\ \A i \in 1 .. N : Open[i] = scopes[i + 1].type
  BY <1>1, <1>2, ScopesType, OpenType
<1>4. top = scopes[N + 1]
  BY <1>1 DEF top
<1>5. /\ scopes[1].type = "global"
      /\ \A i \in 2 .. N + 1 : scopes[i].type # "global" /\ (scopes[i].type = "function" => i = 2)
      /\ is_in_function_scope <=> N + 1 > 1 /\ scopes[2].type = "function"
  BY <1>1, ScopesType DEF Nest
<1>6. is_in_function_scope \in BOOLEAN /\ N \in Nat
  BY <1>1, ScopesType
<1>7. N = 0 => Open = << >>
  BY <1>3, EmptySeq
<1>8. CASE N = 0
  <2>1. Open = << >> /\ top.type = "global" /\ ~is_in_function_scope /\ Len(scopes) = 1
    BY <1>1, <1>4, <1>5, <1>7, <1>8
  <2>2. <<"function">> # << >>
    OBVIOUS
  <2> QED
    BY <2>1, <2>2 DEF Grammar!Construct, Grammar!Innermost, Grammar!InFunction
<1>9. CASE N >= 1
  <2>1. Open # << >> /\ Open[N] = top.type /\ Open[1] = scopes[2].type
    <3>1. N \in 1 .. N /\ 1 \in 1 .. N
      BY <1>6, <1>9
    <3>2. Open # << >>
      BY <1>3, <1>9, EmptySeq
    <3> QED
      BY <1>3, <1>4, <3>1, <3>2
  <2>2. /\ top.type # "global" /\ (top.type = "function" => N + 1 = 2)
        /\ is_in_function_scope <=> scopes[2].type = "function"
    <3>1. N + 1 \in 2 .. N + 1 /\ N + 1 > 1
      BY <1>6, <1>9
    <3> QED
      BY <1>4, <1>5, <3>1
  <2>3. Open = <<"function">> <=> N = 1 /\ scopes[2].type = "function"
    <3>1. ASSUME Open = <<"function">> PROVE N = 1 /\ scopes[2].type = "function"
      <4>1. Len(<<"function">>) = 1 /\ <<"function">>[1] = "function"
        OBVIOUS
      <4> QED
        BY <1>3, <2>1, <3>1, <4>1
    <3>2. ASSUME N = 1, scopes[2].type = "function" PROVE Open = <<"function">>
      <4>1. Open[1] = "function" /\ Len(Open) = 1
        BY <1>3, <2>1, <3>2
      <4> QED
        BY <1>3, <4>1
    <3> QED
      BY <3>1, <3>2
  <2>4. top.type = "function" => is_in_function_scope /\ Len(scopes) = 2
    <3>1. top.type = "function" => top = scopes[2]
      BY <1>1, <1>4, <1>6, <2>2
    <3>2. top.type = "function" => Len(scopes) = 2
      BY <1>1, <1>6, <2>2
    <3> QED
      BY <2>2, <3>1, <3>2
  <2>5. Len(scopes) >= 2 /\ Len(scopes) # 1 /\ (Len(scopes) = 2 <=> N = 1)
    BY <1>1, <1>6, <1>9
  <2>6. Grammar!InFunction <=> is_in_function_scope
    BY <2>1, <2>2 DEF Grammar!InFunction
  <2>7. ASSUME NEW c \in Grammar!Construct PROVE Grammar!Innermost(c) <=> top.type = c
    BY <1>3, <2>1 DEF Grammar!Innermost
  <2> QED
    BY <2>1, <2>2, <2>3, <2>4, <2>5, <2>6, <2>7
<1> QED
  BY <1>6, <1>8, <1>9

\* The list of the open function's body, and the one list of its scope's that is it.
LEMMA FunctionScope ==
    ASSUME IInv, is_in_function_scope
    PROVE  /\ scopes[2] \in ScopeOf(Len(lists)) /\ scopes[2].nodes \in 1 .. Len(lists)
           /\ FunctionBody \in Seq(NodeRecord)
           /\ top.nodes = scopes[2].nodes <=> Len(scopes) = 2
<1>1. Len(scopes) \in Nat /\ Len(scopes) >= 2
  BY ScopesType, Views
<1>2. 2 \in 1 .. Len(scopes) /\ Len(scopes) \in 1 .. Len(scopes)
  BY <1>1
<1>3. scopes[2] \in ScopeOf(Len(lists))
  BY <1>2, ScopesType, ElementOfSeq
<1>4. scopes[2].nodes \in 1 .. Len(lists)
  BY <1>3 DEF ScopeOf
<1>5. FunctionBody \in Seq(NodeRecord)
  BY <1>4, ScopesType, ElementOfSeq DEF FunctionBody
<1>6. top.nodes = scopes[2].nodes => Len(scopes) = 2
  BY <1>2, InvScopesNest DEF top, ScopesNest
<1> QED
  BY <1>3, <1>4, <1>5, <1>6 DEF top

\* The last item of the open function does not change with other lists.
LEMMA LastItemKept ==
    ASSUME IInv, is_in_function_scope' = is_in_function_scope,
           is_in_function_scope => scopes'[2].nodes = scopes[2].nodes
                                   /\ lists'[scopes[2].nodes] = lists[scopes[2].nodes]
    PROVE  LastItem' = LastItem
<1>1. is_in_function_scope \in BOOLEAN
  BY ScopesType
<1>2. CASE is_in_function_scope
  BY <1>2 DEF LastItem, FunctionBody
<1>3. CASE ~is_in_function_scope
  BY <1>3 DEF LastItem
<1> QED
  BY <1>1, <1>2, <1>3

\* A node that is placed is the last item when its scope is the function's own.
LEMMA LastItemPlaced ==
    ASSUME IInv, NEW type \in NodeType, NEW b \in Nat, NEW e \in Nat,
           NEW new \in Seq(Seq(NodeRecord)), Place(Node(type, b, e), new),
           is_in_function_scope' = is_in_function_scope,
           is_in_function_scope => scopes'[2] = scopes[2]
    PROVE  Grammar!Follows(IF type = "function_return" THEN "return" ELSE "other")
<1>1. /\ lists'[top.nodes] = Append(lists[top.nodes], Node(type, b, e))
      /\ \A i \in 1 .. Len(lists) : i # top.nodes => lists'[i] = lists[i]
  BY PlaceEffect
<1>2. CASE Open = <<"function">>
  <2>1. is_in_function_scope /\ top.nodes = scopes[2].nodes
    BY <1>2, Views, FunctionScope
  <2>2. FunctionBody' = Append(FunctionBody, Node(type, b, e))
    BY <1>1, <2>1 DEF FunctionBody
  <2>3. Node(type, b, e) \in NodeRecord /\ Node(type, b, e).type = type
    <3>1. Len(source) \in Nat
      BY DEF IInv, TypeOK
    <3> QED
      BY <3>1 DEF Node, NodeRecord
  <2>4. FunctionBody \in Seq(NodeRecord)
    BY <2>1, FunctionScope
  <2>5. FunctionBody' # << >> /\ FunctionBody'[Len(FunctionBody')].type = type
    <3> HIDE DEF Node
    <3>1. /\ Len(FunctionBody') = Len(FunctionBody) + 1 /\ Len(FunctionBody) \in Nat
          /\ FunctionBody'[Len(FunctionBody) + 1] = Node(type, b, e)
      BY <2>2, <2>3, <2>4, AppendProperties, LenProperties
    <3>2. Len(FunctionBody') # 0
      BY <3>1
    <3> QED
      BY <2>3, <3>1, <3>2, EmptySeq
  <2>6. LastItem' = IF type = "function_return" THEN "return" ELSE "other"
    BY <2>1, <2>5 DEF LastItem
  <2> QED
    BY <1>2, <2>6 DEF Grammar!Follows
<1>3. CASE Open # <<"function">>
  <2>1. is_in_function_scope => /\ scopes[2].nodes # top.nodes
                                /\ scopes[2].nodes \in 1 .. Len(lists)
    BY <1>3, Views, FunctionScope
  <2>2. LastItem' = LastItem
    BY <1>1, <2>1, LastItemKept
  <2> QED
    BY <1>3, <2>2 DEF Grammar!Follows
<1> QED
  BY <1>2, <1>3

-------------------------------------------------------------------------------
(***************************************************************************)
(* The handlers, one by one.                                               *)
(***************************************************************************)
\* What does not change when the parser's variables do not.
LEMMA SameViews ==
    /\ UNCHANGED scopes => Open' = Open
    /\ UNCHANGED functions => Defined' = Defined
    /\ UNCHANGED outcome => Verdict' = Verdict
    /\ UNCHANGED <<scopes, is_in_function_scope, lists>> => LastItem' = LastItem
BY DEF Open, Defined, Verdict, LastItem, FunctionBody

\* A line that the grammar does not understand.
LEMMA Refused ==
    ASSUME IInv, NEW l \in Lines, ~Grammar!Understood(l), NEW code \in Failure, Fail(code),
           UNCHANGED <<lists, functions>>
    PROVE  Grammar!Read(l)
<1>1. Verdict' = "refused"
  BY DEF Verdict, Fail, Failure
<1>2. Open' = Open /\ LastItem' = LastItem /\ Defined' = Defined
  BY SameViews DEF Fail, context
<1>3. Grammar!Refuse /\ Defined' \in {Defined, Defined \cup ({l.name} \cap Name)}
  BY <1>1, <1>2 DEF Grammar!Refuse
<1> QED
  BY <1>3 DEF Grammar!Read

LEMMA StatementImplements ==
    ASSUME IInv, NEW l \in Lines, handle_statement(l) PROVE Grammar!Read(l)
<1>1. /\ Place(Node("statement", 0, 0), << >>)
      /\ UNCHANGED <<outcome, functions, context>>
  BY DEF handle_statement, Proceed
<1>2. "statement" \in NodeType /\ << >> \in Seq(Seq(NodeRecord))
  BY DEF NodeType
<1>3. Grammar!Follows("other")
  BY <1>1, <1>2, LastItemPlaced DEF context
<1>4. Open' = Open /\ Defined' = Defined /\ Verdict' = Verdict
  BY <1>1, SameViews DEF context
<1>5. Grammar!Statement(l)
  BY <1>3, <1>4 DEF Grammar!Statement, handle_statement
<1> QED
  BY <1>5 DEF Grammar!Read

LEMMA UnknownImplements ==
    ASSUME IInv, NEW l \in Lines, handle_unknown(l) PROVE Grammar!Read(l)
<1>1. ~Grammar!Understood(l)
  BY DEF handle_unknown, Grammar!Understood
<1>2. "invalid_construct" \in Failure
  BY DEF Failure
<1> QED
  BY <1>1, <1>2, Refused DEF handle_unknown

LEMMA ReturnImplements ==
    ASSUME IInv, NEW l \in Lines, handle_return(l) PROVE Grammar!Read(l)
<1>1. l.kind = "return"
  BY DEF handle_return
<1>2. ASSUME NEW code \in Failure, Fail(code), ~is_in_function_scope \/ l.value # "number",
             UNCHANGED <<lists, functions>>
      PROVE  Grammar!Read(l)
  <2>1. ~Grammar!Understood(l)
    BY <1>1, <1>2, Views DEF Grammar!Understood
  <2> QED
    BY <1>2, <2>1, Refused
<1>3. CASE /\ is_in_function_scope /\ l.value = "number"
           /\ Place(Node("function_return", 0, 0), << >>)
           /\ UNCHANGED <<outcome, functions, context>>
  <2>1. "function_return" \in NodeType /\ << >> \in Seq(Seq(NodeRecord))
    BY DEF NodeType
  <2>2. Grammar!Follows("return")
    BY <1>3, <2>1, LastItemPlaced DEF context
  <2>3. Open' = Open /\ Defined' = Defined /\ Verdict' = Verdict
    BY <1>3, SameViews DEF context
  <2>4. Grammar!Return(l)
    BY <1>1, <1>3, <2>2, <2>3, Views DEF Grammar!Return
  <2> QED
    BY <2>4 DEF Grammar!Read
<1>4. /\ "return_in_invalid_scope" \in Failure
      /\ Reason(l, "return_expression_not_number_type") \in Failure
  BY DEF Failure, Reason
<1> QED
  BY <1>2, <1>3, <1>4 DEF handle_return, Proceed

\* A scope that is pushed does not disturb the ones below.
LEMMA PushKeeps ==
    ASSUME IInv, NEW m, m \in Nat, Len(lists) =< m, NEW x \in ScopeOf(m),
           scopes' = Append(scopes, x)
    PROVE  /\ Open' = Append(Open, x.type)
           /\ is_in_function_scope => scopes'[2] = scopes[2]
<1>1. ScopeOf(Len(lists)) \subseteq ScopeOf(m)
  BY ScopesType DEF ScopeOf
<1>2. scopes \in Seq(ScopeOf(m)) /\ scopes # << >>
  BY <1>1, ScopesType, SeqMonotonic
<1>3. OpenOf(Append(scopes, x)) = Append(OpenOf(scopes), x.type)
  BY <1>2, OpenAppend
<1>4. Open' = Append(Open, x.type)
  BY <1>3 DEF Open, OpenOf
<1>5. is_in_function_scope => 2 \in 1 .. Len(scopes)
  BY ScopesType, Views
<1> HIDE DEF IInv
<1>6. is_in_function_scope => scopes'[2] = scopes[2]
  BY <1>2, <1>5, AppendProperties
<1> QED
  BY <1>4, <1>6

LEMMA ConditionalHeaderImplements ==
    ASSUME IInv, NEW l \in Lines, handle_conditional_header(l) PROVE Grammar!Read(l)
<1>1. l.kind = "if"
  BY DEF handle_conditional_header
<1>2. CASE /\ l.value # "boolean"
           /\ Fail(Reason(l, "conditional_construct_condition_not_boolean_type"))
           /\ UNCHANGED <<lists, functions>>
  <2>1. Reason(l, "conditional_construct_condition_not_boolean_type") \in Failure
    BY DEF Failure, Reason
  <2>2. ~Grammar!Understood(l)
    BY <1>1, <1>2 DEF Grammar!Understood
  <2> QED
    BY <1>2, <2>1, <2>2, Refused
<1>3. CASE /\ l.value = "boolean"
           /\ Place(Node("conditional_construct", NewList(1), NewList(2)), << << >>, << >> >>)
           /\ scopes' = Append(scopes, [type |-> "conditional", nodes |-> NewList(1)])
           /\ UNCHANGED <<outcome, is_in_function_scope, functions>>
  <2>1. /\ Len(lists) \in Nat /\ NewList(1) = Len(lists) + 1 /\ NewList(2) = Len(lists) + 2
        /\ NewList(1) \in Nat /\ NewList(2) \in Nat
    BY TopType DEF NewList
  <2>2. "conditional_construct" \in NodeType /\ << << >>, << >> >> \in Seq(Seq(NodeRecord))
    BY DEF NodeType
  <2> DEFINE m == Len(lists) + 1
             x == [type |-> "conditional", nodes |-> NewList(1)]
  <2>3. m \in Nat /\ Len(lists) =< m /\ x \in ScopeOf(m) /\ x.type = "conditional"
    BY <2>1 DEF ScopeOf, ScopeType
  <2>4. /\ Open' = Append(Open, "conditional")
        /\ is_in_function_scope => scopes'[2] = scopes[2]
    <3>1. scopes' = Append(scopes, x)
      BY <1>3
    <3> HIDE DEF m, x
    <3>2. /\ Open' = Append(Open, x.type)
          /\ is_in_function_scope => scopes'[2] = scopes[2]
      BY <2>3, <3>1, PushKeeps
    <3> QED
      BY <2>3, <3>2
  <2>5. Grammar!Follows("other")
    BY <1>3, <2>1, <2>2, <2>4, LastItemPlaced
  <2>6. Defined' = Defined /\ Verdict' = Verdict
    BY <1>3, SameViews
  <2>7. Grammar!Header(l, "if", "conditional")
    BY <1>1, <1>3, <2>4, <2>5, <2>6 DEF Grammar!Header
  <2> QED
    BY <2>7 DEF Grammar!Read
<1> QED
  BY <1>2, <1>3 DEF handle_conditional_header, Proceed

LEMMA LoopHeaderImplements ==
    ASSUME IInv, NEW l \in Lines, handle_loop_header(l) PROVE Grammar!Read(l)
<1>1. l.kind = "while"
  BY DEF handle_loop_header
<1>2. CASE /\ l.value # "boolean" /\ Fail(Reason(l, "loop_condition_not_boolean_type"))
           /\ UNCHANGED <<lists, functions>>
  <2>1. Reason(l, "loop_condition_not_boolean_type") \in Failure
    BY DEF Failure, Reason
  <2>2. ~Grammar!Understood(l)
    BY <1>1, <1>2 DEF Grammar!Understood
  <2> QED
    BY <1>2, <2>1, <2>2, Refused
<1>3. CASE /\ l.value = "boolean"
           /\ Place(Node("loop", NewList(1), 0), << << >> >>)
           /\ scopes' = Append(scopes, [type |-> "loop", nodes |-> NewList(1)])
           /\ UNCHANGED <<outcome, is_in_function_scope, functions>>
  <2>1. Len(lists) \in Nat /\ NewList(1) = Len(lists) + 1 /\ NewList(1) \in Nat
    BY TopType DEF NewList
  <2>2. "loop" \in NodeType /\ << << >> >> \in Seq(Seq(NodeRecord))
    BY DEF NodeType
  <2> DEFINE m == Len(lists) + 1
             x == [type |-> "loop", nodes |-> NewList(1)]
  <2>3. m \in Nat /\ Len(lists) =< m /\ x \in ScopeOf(m) /\ x.type = "loop"
    BY <2>1 DEF ScopeOf, ScopeType
  <2>4. /\ Open' = Append(Open, "loop")
        /\ is_in_function_scope => scopes'[2] = scopes[2]
    <3>1. scopes' = Append(scopes, x)
      BY <1>3
    <3> HIDE DEF m, x
    <3>2. /\ Open' = Append(Open, x.type)
          /\ is_in_function_scope => scopes'[2] = scopes[2]
      BY <2>3, <3>1, PushKeeps
    <3> QED
      BY <2>3, <3>2
  <2>5. Grammar!Follows("other")
    BY <1>3, <2>1, <2>2, <2>4, LastItemPlaced
  <2>6. Defined' = Defined /\ Verdict' = Verdict
    BY <1>3, SameViews
  <2>7. Grammar!Header(l, "while", "loop")
    BY <1>1, <1>3, <2>4, <2>5, <2>6 DEF Grammar!Header
  <2> QED
    BY <2>7 DEF Grammar!Read
<1> QED
  BY <1>2, <1>3 DEF handle_loop_header, Proceed

\* Two facts about numbers.
LEMMA AtLeastTwo == ASSUME NEW n \in Nat, n >= 1, n # 1 PROVE \E N \in Nat : n = (N + 1) + 1
<1>1. n - 2 \in Nat /\ n = ((n - 2) + 1) + 1
  OBVIOUS
<1> QED
  BY <1>1

LEMMA MoreThanTwo == ASSUME NEW n \in Nat, n >= 2, n # 2 PROVE n > 2
  OBVIOUS

\* In a conditional or a loop of a function, the function's scope is a lower one.
LEMMA InnerScope ==
    ASSUME IInv, is_in_function_scope, top.type \in {"conditional", "loop"}
    PROVE  Len(scopes) \in Nat /\ Len(scopes) > 2
<1>1. Len(scopes) \in Nat /\ Len(scopes) >= 2
  BY ScopesType, Views
<1>2. Len(scopes) = 2 => top.type = "function"
  BY ScopesType DEF top, Nest
<1>3. Len(scopes) # 2
  BY <1>2
<1> QED
  BY <1>1, <1>3, MoreThanTwo

LEMMA ElseImplements ==
    ASSUME IInv, NEW l \in Lines, handle_conditional_else(l) PROVE Grammar!Read(l)
<1>1. l.kind = "else"
  BY DEF handle_conditional_else
<1>0. {"conditional", "loop", "function"} \subseteq Grammar!Construct
  BY DEF Grammar!Construct
<1>2. CASE top.type # "conditional" /\ Fail("mismatched_else") /\ UNCHANGED <<lists, functions>>
  <2>1. "mismatched_else" \in Failure
    BY DEF Failure
  <2>2. ~Grammar!Understood(l)
    BY <1>0, <1>1, <1>2, Views DEF Grammar!Understood
  <2> QED
    BY <1>2, <2>1, <2>2, Refused
<1>3. CASE /\ top.type = "conditional"
           /\ scopes' = [scopes EXCEPT ![Len(scopes)].nodes = conditionals[Len(conditionals)].else_body]
           /\ UNCHANGED <<outcome, is_in_function_scope, lists, functions>>
  <2>1. Open' = Open
    <3>1. OpenOf([scopes EXCEPT ![Len(scopes)].nodes = conditionals[Len(conditionals)].else_body])
            = OpenOf(scopes)
      BY ScopesType, OpenElse
    <3> QED
      BY <1>3, <3>1 DEF Open, OpenOf
  <2>2. is_in_function_scope => scopes'[2] = scopes[2]
    <3>1. is_in_function_scope => 2 \in DOMAIN scopes /\ Len(scopes) # 2
      BY <1>3, ScopesType, InnerScope, LenProperties
    <3> QED
      BY <1>3, <3>1
  <2>3. LastItem' = LastItem
    BY <1>3, <2>2, LastItemKept
  <2>4. Defined' = Defined /\ Verdict' = Verdict
    BY <1>3, SameViews
  <2>5. Grammar!Else(l)
    BY <1>0, <1>1, <1>3, <2>1, <2>3, <2>4, Views DEF Grammar!Else, Grammar!grammar
  <2> QED
    BY <2>5 DEF Grammar!Read
<1> QED
  BY <1>2, <1>3 DEF handle_conditional_else, Proceed

\* The footer of a conditional or a loop.
LEMMA PopImplements ==
    ASSUME IInv, NEW type \in {"conditional", "loop"}, top.type = type,
           scopes' = Popped(scopes),
           UNCHANGED <<outcome, is_in_function_scope, lists, functions>>,
           NEW l \in Lines, NEW kind, l.kind = kind
    PROVE  Grammar!Footer(l, kind, type)
<1>1. PICK N \in Nat : Len(scopes) = (N + 1) + 1
  <2>1. Len(scopes) \in Nat /\ Len(scopes) >= 1 /\ Len(scopes) # 1
    BY ScopesType, Views
  <2> QED
    BY <2>1, AtLeastTwo
<1>2. Open' = SubSeq(Open, 1, Len(Open) - 1)
  <2>1. OpenOf(Popped(scopes)) = SubSeq(OpenOf(scopes), 1, Len(OpenOf(scopes)) - 1)
    BY <1>1, ScopesType, OpenPopped
  <2> QED
    BY <2>1 DEF Open, OpenOf
<1>3. is_in_function_scope => scopes'[2] = scopes[2]
  <2>1. is_in_function_scope => N + 1 >= 2
    BY <1>1, InnerScope
  <2>2. \A i \in 1 .. N + 1 : Popped(scopes)[i] = scopes[i]
    <3>1. \A i \in 1 .. N + 1 : scopes[i] \in ScopeOf(Len(lists))
      BY <1>1, ScopesType, ElementOfSeq
    <3>2. 1 \in Int /\ N + 1 \in Int /\ Popped(scopes) = SubSeq(scopes, 1, N + 1)
      BY <1>1 DEF Popped
    <3>3. \A i \in 1 .. (N + 1) - 1 + 1 : SubSeq(scopes, 1, N + 1)[i] = scopes[1 + i - 1]
      BY <3>1, <3>2, SubSeqProperties
    <3> QED
      BY <3>2, <3>3
  <2>3. N + 1 >= 2 => 2 \in 1 .. N + 1
    OBVIOUS
  <2> QED
    BY <2>1, <2>2, <2>3
<1>4. LastItem' = LastItem
  BY <1>3, LastItemKept
<1>5. Defined' = Defined /\ Verdict' = Verdict
  BY SameViews
<1>6. Grammar!Innermost(type)
  BY Views DEF Grammar!Construct
<1> QED
  BY <1>2, <1>4, <1>5, <1>6 DEF Grammar!Footer

LEMMA ConditionalFooterImplements ==
    ASSUME IInv, NEW l \in Lines, handle_conditional_footer(l) PROVE Grammar!Read(l)
<1>1. l.kind = "endif"
  BY DEF handle_conditional_footer
<1>2. CASE /\ top.type # "conditional" /\ Fail("mismatched_header_footer_type")
           /\ UNCHANGED <<lists, functions>>
  <2>1. "mismatched_header_footer_type" \in Failure
    BY DEF Failure
  <2>2. ~Grammar!Understood(l)
    BY <1>1, <1>2, Views DEF Grammar!Understood, Grammar!Construct
  <2> QED
    BY <1>2, <2>1, <2>2, Refused
<1>3. CASE /\ top.type = "conditional" /\ scopes' = Popped(scopes)
           /\ UNCHANGED <<outcome, is_in_function_scope, lists, functions>>
  <2>1. Grammar!Footer(l, "endif", "conditional")
    BY <1>1, <1>3, PopImplements
  <2> QED
    BY <2>1 DEF Grammar!Read
<1> QED
  BY <1>2, <1>3 DEF handle_conditional_footer, Proceed

LEMMA LoopFooterImplements ==
    ASSUME IInv, NEW l \in Lines, handle_loop_footer(l) PROVE Grammar!Read(l)
<1>1. l.kind = "endwhile"
  BY DEF handle_loop_footer
<1>2. CASE /\ top.type # "loop" /\ Fail("mismatched_header_footer_type")
           /\ UNCHANGED <<lists, functions>>
  <2>1. "mismatched_header_footer_type" \in Failure
    BY DEF Failure
  <2>2. ~Grammar!Understood(l)
    BY <1>1, <1>2, Views DEF Grammar!Understood, Grammar!Construct
  <2> QED
    BY <1>2, <2>1, <2>2, Refused
<1>3. CASE /\ top.type = "loop" /\ scopes' = Popped(scopes)
           /\ UNCHANGED <<outcome, is_in_function_scope, lists, functions>>
  <2>1. Grammar!Footer(l, "endwhile", "loop")
    BY <1>1, <1>3, PopImplements
  <2> QED
    BY <2>1 DEF Grammar!Read
<1> QED
  BY <1>2, <1>3 DEF handle_loop_footer, Proceed

LEMMA FunctionFooterImplements ==
    ASSUME IInv, NEW l \in Lines, handle_function_footer(l) PROVE Grammar!Read(l)
<1>1. l.kind = "endfn"
  BY DEF handle_function_footer
<1>2. CASE /\ top.type # "function" /\ Fail("mismatched_endfn") /\ UNCHANGED <<lists, functions>>
  <2>1. "mismatched_endfn" \in Failure
    BY DEF Failure
  <2>2. ~Grammar!Understood(l)
    BY <1>1, <1>2, Views DEF Grammar!Understood, Grammar!Construct
  <2> QED
    BY <1>2, <2>1, <2>2, Refused
<1>3. ASSUME top.type = "function"
      PROVE  /\ Grammar!Innermost("function") /\ is_in_function_scope /\ Len(scopes) = 2
             /\ lists[top.nodes] = FunctionBody
    BY <1>3, Views DEF Grammar!Construct, top, FunctionBody
<1>4. CASE /\ top.type = "function" /\ lists[top.nodes] = << >> /\ Fail("crashed")
           /\ UNCHANGED <<lists, functions>>
  <2>1. LastItem = "nothing"
    BY <1>3, <1>4 DEF LastItem
  <2>2. Verdict' = "undefined"
    BY <1>4 DEF Fail, Verdict
  <2>3. Open' = Open /\ LastItem' = LastItem /\ Defined' = Defined
    BY <1>4, SameViews DEF Fail, context
  <2>4. Grammar!EndFunction(l)
    BY <1>1, <1>3, <1>4, <2>1, <2>2, <2>3 DEF Grammar!EndFunction
  <2> QED
    BY <2>4 DEF Grammar!Read
<1>5. CASE /\ top.type = "function" /\ lists[top.nodes] # << >>
           /\ lists[top.nodes][Len(lists[top.nodes])].type # "function_return"
           /\ Fail("missing_return") /\ UNCHANGED <<lists, functions>>
  <2>1. LastItem = "other"
    BY <1>3, <1>5 DEF LastItem
  <2>2. "missing_return" \in Failure
    BY DEF Failure
  <2>3. ~Grammar!Understood(l)
    BY <1>1, <2>1 DEF Grammar!Understood
  <2> QED
    BY <1>5, <2>2, <2>3, Refused
<1>6. CASE /\ top.type = "function" /\ lists[top.nodes] # << >>
           /\ lists[top.nodes][Len(lists[top.nodes])].type = "function_return"
           /\ scopes' = Popped(scopes) /\ is_in_function_scope' = FALSE
           /\ UNCHANGED <<outcome, lists, functions>>
  <2>1. LastItem = "return" /\ LastItem' = "nothing"
    BY <1>3, <1>6 DEF LastItem
  <2>2. Open' = << >>
    <3>1. Len(Popped(scopes)) = 1
      <4>1. \A i \in 1 .. 1 : scopes[i] \in ScopeOf(Len(lists))
        BY <1>3, <1>6, ScopesType, ElementOfSeq
      <4>2. Len(SubSeq(scopes, 1, 1)) = IF 1 =< 1 THEN 1 - 1 + 1 ELSE 0
        BY <4>1, SubSeqProperties
      <4>3. Len(scopes) = 2
        BY <1>3, <1>6
      <4>4. Len(scopes) - 1 = 1
        BY <4>3
      <4>5. Popped(scopes) = SubSeq(scopes, 1, 1)
        BY <4>4 DEF Popped
      <4> QED
        BY <4>2, <4>5
    <3>2. Open' = [i \in 1 .. 0 |-> scopes'[i + 1].type]
      BY <1>6, <3>1 DEF Open
    <3> QED
      BY <3>2
  <2>3. Defined' = Defined /\ Verdict' = Verdict
    BY <1>6, SameViews
  <2>4. Grammar!EndFunction(l)
    BY <1>1, <1>3, <1>6, <2>1, <2>2, <2>3 DEF Grammar!EndFunction
  <2> QED
    BY <2>4 DEF Grammar!Read
<1> QED
  BY <1>2, <1>4, <1>5, <1>6 DEF handle_function_footer, Proceed

\* The insertion of a function defines its name, and outside of functions nothing else.
LEMMA DefinedByDefine ==
    ASSUME IInv, NEW name \in Name, NEW body \in Seq(NodeRecord), Define(name, body)
    PROVE  Defined' = Defined \cup {name}
<1>1. functions' = [functions EXCEPT ![name] = Len(lists) + 1]
  BY DefineEffect
<1>2. Len(lists) + 1 # 0
  BY TopType
<1>3. functions \in [Name -> {0} \cup ListIndex]
  BY DEF IInv, TypeOK
<1> QED
  BY <1>1, <1>2, <1>3 DEF Defined

LEMMA NewLast == ASSUME NEW S, NEW s \in Seq(S), NEW x \in S
                 PROVE  Append(s, x)[Len(s) + 1] = x
  BY AppendProperties

LEMMA FunctionImplements ==
    ASSUME IInv, NEW l \in Lines, handle_function_defintion(l) PROVE Grammar!Read(l)
<1>1. l.kind = "fn" /\ << >> \in Seq(NodeRecord)
  BY DEF handle_function_defintion
<1>2. ASSUME NEW code \in Failure, Fail(code), UNCHANGED <<lists, functions>>,
             \/ ~GlobalScopeOnly \/ l.name = NoName
             \/ l.name \in Name /\ functions[l.name] # 0
      PROVE  Grammar!Read(l)
  <2>1. ~GlobalScopeOnly => Open # << >>
    BY Views DEF GlobalScopeOnly
  <2>2. l.name = NoName => l.name \notin Name
    BY LinesAssumption
  <2>3. l.name \in Name /\ functions[l.name] # 0 => l.name \in Defined
    BY DEF Defined
  <2>4. ~Grammar!Understood(l)
    BY <1>1, <1>2, <2>1, <2>2, <2>3 DEF Grammar!Understood
  <2> QED
    BY <1>2, <2>4, Refused
<1>3. ASSUME GlobalScopeOnly, l.name \in Name, functions[l.name] = 0
      PROVE  /\ Open = << >> /\ ~is_in_function_scope /\ Len(scopes) = 1
             /\ l.name \in Name \ Defined /\ LastItem = "nothing"
  <2>1. Open = << >> /\ ~is_in_function_scope /\ Len(scopes) = 1
    BY <1>3, Views DEF GlobalScopeOnly
  <2>2. l.name \notin Defined
    BY <1>3 DEF Defined
  <2> QED
    BY <1>3, <2>1, <2>2 DEF LastItem
<1>4. CASE /\ GlobalScopeOnly /\ l.name \in Name /\ functions[l.name] = 0
           /\ l.value = "absent" /\ Define(l.name, << >>)
           /\ scopes' = Append(scopes, [type |-> "function", nodes |-> NewList(1)])
           /\ is_in_function_scope' = TRUE
           /\ UNCHANGED outcome
  <2> DEFINE m == Len(lists) + 1
             x == [type |-> "function", nodes |-> m]
  <2>1. m \in Nat /\ Len(lists) =< m /\ x \in ScopeOf(m) /\ x.type = "function" /\ x.nodes = m
    BY TopType DEF ScopeOf, ScopeType
  <2>2. lists'[m] = << >>
    BY <1>1, <1>4, DefineEffect
  <2>3. scopes' = Append(scopes, x)
    BY <1>4 DEF NewList
  <2> HIDE DEF m, x
  <2>4. Open' = <<"function">>
    <3>1. Open' = Append(Open, x.type)
      BY <2>1, <2>3, PushKeeps
    <3>2. Open = << >> /\ Append(<< >>, "function") = <<"function">>
      BY <1>3, <1>4
    <3> QED
      BY <2>1, <3>1, <3>2
  <2>5. LastItem' = "nothing"
    <3>1. scopes'[2] = x
      <4>1. scopes \in Seq(ScopeOf(m)) /\ Len(scopes) = 1
        <5>1. ScopeOf(Len(lists)) \subseteq ScopeOf(m)
          BY <2>1, ScopesType DEF ScopeOf
        <5> QED
          BY <1>3, <1>4, <5>1, ScopesType, SeqMonotonic
      <4>2. Append(scopes, x)[Len(scopes) + 1] = x
        BY <2>1, <4>1, NewLast, Zenon
      <4> QED
        BY <2>3, <4>1, <4>2
    <3>2. FunctionBody' = << >>
      BY <2>1, <2>2, <3>1 DEF FunctionBody
    <3> QED
      BY <3>2 DEF LastItem
  <2>6. Defined' = Defined \cup {l.name} /\ Verdict' = Verdict
    BY <1>1, <1>4, DefinedByDefine, SameViews
  <2>7. Grammar!BeginFunction(l)
    BY <1>1, <1>3, <1>4, <2>4, <2>5, <2>6 DEF Grammar!BeginFunction, Grammar!NewFunction
  <2> QED
    BY <2>7 DEF Grammar!Read
<1>5. CASE /\ GlobalScopeOnly /\ l.name \in Name /\ functions[l.name] = 0
           /\ l.value \notin {"absent", "number"} /\ Define(l.name, << >>)
           /\ Fail(Reason(l, "simple_function_value_not_number_type"))
  <2>1. ~Grammar!Understood(l)
    BY <1>1, <1>5 DEF Grammar!Understood
  <2>2. Verdict' = "refused"
    BY <1>5 DEF Verdict, Fail, Failure, Reason
  <2>3. Open' = Open /\ is_in_function_scope' = is_in_function_scope
    BY <1>5, SameViews DEF Fail, context
  <2>4. LastItem' = LastItem
    BY <1>3, <1>5, <2>3, LastItemKept
  <2>5. Defined' = Defined \cup ({l.name} \cap Name)
    <3>1. Defined' = Defined \cup {l.name}
      BY <1>1, <1>5, DefinedByDefine
    <3> QED
      BY <1>5, <3>1
  <2> QED
    BY <2>1, <2>2, <2>3, <2>4, <2>5 DEF Grammar!Read, Grammar!Refuse
<1>6. CASE /\ GlobalScopeOnly /\ l.name \in Name /\ functions[l.name] = 0
           /\ l.value = "number" /\ Define(l.name, <<Node("function_return", 0, 0)>>)
           /\ UNCHANGED <<outcome, context>>
  <2>1. <<Node("function_return", 0, 0)>> \in Seq(NodeRecord)
    <3>1. Len(source) \in Nat /\ "function_return" \in NodeType
      BY DEF IInv, TypeOK, NodeType
    <3>2. Node("function_return", 0, 0) \in NodeRecord
      BY <3>1 DEF Node, NodeRecord
    <3> QED
      BY <3>2
  <2>2. Defined' = Defined \cup {l.name}
    BY <1>6, <2>1, DefinedByDefine
  <2>3. Open' = Open /\ Verdict' = Verdict /\ is_in_function_scope' = is_in_function_scope
    BY <1>6, SameViews DEF context
  <2>4. LastItem' = LastItem
    BY <1>3, <1>6, <2>3, LastItemKept
  <2>5. Grammar!OneLineFunction(l)
    BY <1>1, <1>3, <1>6, <2>2, <2>3, <2>4 DEF Grammar!OneLineFunction, Grammar!NewFunction
  <2> QED
    BY <2>5 DEF Grammar!Read
<1>7. /\ "invalid_function_definition" \in Failure /\ "duplicate_function" \in Failure
      /\ "invalid_function_argument_list" \in Failure
  BY DEF Failure
<1> QED
  BY <1>2, <1>4, <1>5, <1>6, <1>7 DEF handle_function_defintion, Proceed

-------------------------------------------------------------------------------
LEMMA InitImplements == Init => Grammar!Init
<1> SUFFICES ASSUME Init PROVE Grammar!Init
  OBVIOUS
<1>1. Open = << >>
  <2>1. Len(scopes) = 1
    BY DEF Init
  <2>2. Open = [i \in 1 .. 0 |-> scopes[i + 1].type]
    BY <2>1 DEF Open
  <2> QED
    BY <2>2
<1>2. LastItem = "nothing" /\ Defined = {} /\ Verdict = "reading"
  BY DEF Init, LastItem, Defined, Verdict
<1> QED
  BY <1>1, <1>2 DEF Grammar!Init

LEMMA LineImplements == ASSUME IInv, NEW l \in Lines, parse_line(l) PROVE Grammar!Read(l)
BY StatementImplements, UnknownImplements, ReturnImplements, ConditionalHeaderImplements,
   ElseImplements, ConditionalFooterImplements, LoopHeaderImplements, LoopFooterImplements,
   FunctionImplements, FunctionFooterImplements
   DEF parse_line

LEMMA NextImplements == IInv /\ [Next]_vars => [Grammar!Next]_(Grammar!grammar)
<1> SUFFICES ASSUME IInv, [Next]_vars PROVE [Grammar!Next]_(Grammar!grammar)
  OBVIOUS
<1>1. outcome = "reading" => Verdict = "reading"
  BY DEF Verdict
<1>2. ASSUME NEW l \in Lines, parse_line(l) PROVE Grammar!Next
  BY <1>1, <1>2, LineImplements DEF Grammar!Next, parse_line
<1>3. CASE finish
  <2>1. Open = << >> <=> Len(scopes) = 1
    BY Views
  <2>2. Verdict' = IF Open = << >> THEN "accepted" ELSE "refused"
    BY <1>3, <2>1 DEF finish, Verdict
  <2>3. Open' = Open /\ LastItem' = LastItem /\ Defined' = Defined
    BY <1>3, SameViews DEF finish, context
  <2>4. Grammar!End
    BY <2>2, <2>3 DEF Grammar!End
  <2> QED
    BY <1>1, <1>3, <2>4 DEF Grammar!Next, finish
<1>4. CASE UNCHANGED vars
  BY <1>4, SameViews DEF vars, Grammar!grammar
<1> QED
  BY <1>2, <1>3, <1>4 DEF Next

\* For every set of lines, however many are read, the parser accepts what the grammar
\* accepts, refuses what it refuses, and defines the functions that it defines.
THEOREM Refinement == Spec => ImplementsGrammar
<1>1. Init => Grammar!Init
  BY InitImplements
<1>2. IInv /\ [Next]_vars => [Grammar!Next]_(Grammar!grammar)
  BY NextImplements
<1> QED
  BY <1>1, <1>2, Invariance, PTL DEF Spec, ImplementsGrammar, Grammar!Spec

-------------------------------------------------------------------------------
(***************************************************************************)
(* The AST is the text.  The operators of AstIsText are restated for any   *)
(* text s, lists L and functions f, so that those before and after a line  *)
(* can be compared.                                                        *)
(***************************************************************************)
DepthIn(s, k) == Cardinality({j \in 1 .. k - 1 : Opens(s[j])})
                 - Cardinality({j \in 1 .. k - 1 : Closes(s[j])})

\* line j is the header of the construct that line k is in
IsHeader(s, k, j) == /\ Opens(s[j]) /\ DepthIn(s, j) = DepthIn(s, k) - 1
                     /\ \A m \in j + 1 .. k - 1 : DepthIn(s, m) >= DepthIn(s, k)
HeaderIn(s, k) == CHOOSE j \in 1 .. k - 1 : IsHeader(s, k, j)

\* an else of depth d comes between lines h and k
Late(s, h, k, d) == \E j \in h + 1 .. k - 1 : s[j].kind = "else" /\ DepthIn(s, j) = d

Positions(L)   == UNION {{i} \X (1 .. Len(L[i])) : i \in 1 .. Len(L)}
PlacesIn(L, k) == {p \in Positions(L) : L[p[1]][p[2]].line = k}
NodeIn(L, k)   == LET p == CHOOSE q \in PlacesIn(L, k) : TRUE IN L[p[1]][p[2]]

\* the body of the construct with header h that is open: the second one after an else
BodyIn(s, L, f, h, late) == IF s[h].kind = "fn" THEN f[s[h].name]
                            ELSE IF s[h].kind = "if" /\ late THEN NodeIn(L, h).else_body
                            ELSE NodeIn(L, h).body
ListIn(s, L, f, k) ==
    IF s[k].kind = "fn" THEN f[s[k].name]
    ELSE IF DepthIn(s, k) = 0 THEN 1
    ELSE BodyIn(s, L, f, HeaderIn(s, k), Late(s, HeaderIn(s, k), k, DepthIn(s, k)))

\* the nodes of a list are in the order of their lines
Ordered(L) == \A i \in 1 .. Len(L) : \A m, n \in 1 .. Len(L[i]) : m < n => L[i][m].line < L[i][n].line

\* Each of the scopes c above the first has a header H, one depth below the next one's,
\* and nothing has closed it; every line that is not at the top has a header.
Shape(s, c, H) ==
    /\ DepthIn(s, Len(s) + 1) = Len(c) - 1
    /\ \A i \in 2 .. Len(c) : /\ H[i] \in 1 .. Len(s) /\ Opens(s[H[i]]) /\ DepthIn(s, H[i]) = i - 2
                              /\ \A m \in H[i] + 1 .. Len(s) : DepthIn(s, m) >= i - 1
    /\ \A k \in 1 .. Len(s) : DepthIn(s, k) # 0 => \E j \in 1 .. k - 1 : IsHeader(s, k, j)

\* Functions that the text defines are defined, and its lines have their nodes where they belong.
Text(s, L, f) ==
    /\ \A k \in 1 .. Len(s) : s[k].kind = "fn" => s[k].name \in Name /\ f[s[k].name] # 0
    /\ \A p \in Positions(L) : L[p[1]][p[2]].line \in 1 .. Len(s)
    /\ \A k \in 1 .. Len(s) :
         MakesNode(s[k]) => \E n : PlacesIn(L, k) = {<<ListIn(s, L, f, k), n>>}
    /\ Ordered(L)

\* Scope i refers to the body of its header's construct that is being read, and its
\* conditional knows the other body, which an else will move it to.
Room(s, L, f, c, d, H, i) ==
    /\ c[i].type = "conditional" <=> s[H[i]].kind = "if"
    /\ c[i].nodes = BodyIn(s, L, f, H[i], Late(s, H[i], Len(s) + 1, i - 1))
    /\ c[i].type = "conditional" => d[RankOf(c, i)].else_body = NodeIn(L, H[i]).else_body

Rooms(s, L, f, c, d, H) == \A i \in 2 .. Len(c) : Room(s, L, f, c, d, H, i)

-------------------------------------------------------------------------------
(***************************************************************************)
(* Depths and headers.                                                     *)
(***************************************************************************)
\* A subset of an interval that starts at 1 is counted by a natural number.
LEMMA CountType == ASSUME NEW n \in Int, NEW C \in SUBSET (1 .. n)
                   PROVE  IsFiniteSet(C) /\ Cardinality(C) \in Nat
<1>1. IsFiniteSet(1 .. n)
  BY FS_Interval
<1>2. IsFiniteSet(C)
  BY <1>1, FS_Subset
<1> QED
  BY <1>2, FS_CardinalityType

\* One more position is counted, or not.
LEMMA CountStep == ASSUME NEW n \in Nat, NEW C \in SUBSET (1 .. n - 1), NEW D, NEW in \in BOOLEAN,
                          D = C \cup (IF in THEN {n} ELSE {})
                   PROVE  Cardinality(D) = Cardinality(C) + (IF in THEN 1 ELSE 0)
<1>1. IsFiniteSet(C) /\ Cardinality(C) \in Nat
  <2>1. n - 1 \in Int
    OBVIOUS
  <2> QED
    BY <2>1, CountType
<1>2. CASE in
  <2>1. n \notin C /\ D = C \cup {n}
    BY <1>2
  <2> QED
    BY <1>1, <1>2, <2>1, FS_AddElement
<1>3. CASE ~in
  BY <1>1, <1>3
<1> QED
  BY <1>2, <1>3

\* Depths change by one at a header and at a footer.
LEMMA DepthStep ==
    ASSUME NEW s, NEW k \in Nat \ {0}
    PROVE  /\ DepthIn(s, k) \in Int
           /\ DepthIn(s, k + 1) = DepthIn(s, k) + (IF Opens(s[k]) THEN 1 ELSE 0)
                                                - (IF Closes(s[k]) THEN 1 ELSE 0)
<1> DEFINE O(n) == {j \in 1 .. n - 1 : Opens(s[j])}
           C(n) == {j \in 1 .. n - 1 : Closes(s[j])}
           o == Opens(s[k])
           c == Closes(s[k])
<1>1. o \in BOOLEAN /\ c \in BOOLEAN
  BY DEF Opens, Closes
<1>2. (k + 1) - 1 = k /\ k \in Nat /\ k - 1 \in Int
  OBVIOUS
<1>3. O(k) \in SUBSET (1 .. k - 1) /\ C(k) \in SUBSET (1 .. k - 1)
  OBVIOUS
<1>4. O(k + 1) = O(k) \cup (IF o THEN {k} ELSE {})
  BY <1>2
<1>5. C(k + 1) = C(k) \cup (IF c THEN {k} ELSE {})
  BY <1>2
<1>6. DepthIn(s, k) = Cardinality(O(k)) - Cardinality(C(k))
  BY DEF DepthIn
<1>7. DepthIn(s, k + 1) = Cardinality(O(k + 1)) - Cardinality(C(k + 1))
  BY DEF DepthIn
<1> HIDE DEF O, C, o, c
<1>8. Cardinality(O(k)) \in Nat /\ Cardinality(C(k)) \in Nat
  BY <1>2, <1>3, CountType
<1>9. Cardinality(O(k + 1)) = Cardinality(O(k)) + (IF o THEN 1 ELSE 0)
  BY <1>1, <1>2, <1>3, <1>4, CountStep
<1>10. Cardinality(C(k + 1)) = Cardinality(C(k)) + (IF c THEN 1 ELSE 0)
  BY <1>1, <1>2, <1>3, <1>5, CountStep
<1>11. DepthIn(s, k + 1) = DepthIn(s, k) + (IF o THEN 1 ELSE 0) - (IF c THEN 1 ELSE 0)
  BY <1>6, <1>7, <1>8, <1>9, <1>10
<1> QED
  BY <1>6, <1>8, <1>11 DEF o, c

\* The depth of a line depends on the lines before it only.
LEMMA DepthAgrees ==
    ASSUME NEW s, NEW t, NEW k \in Int, \A j \in 1 .. k - 1 : t[j] = s[j]
    PROVE  DepthIn(t, k) = DepthIn(s, k)
<1>1. {j \in 1 .. k - 1 : Opens(t[j])} = {j \in 1 .. k - 1 : Opens(s[j])}
  OBVIOUS
<1>2. {j \in 1 .. k - 1 : Closes(t[j])} = {j \in 1 .. k - 1 : Closes(s[j])}
  OBVIOUS
<1> QED
  BY <1>1, <1>2 DEF DepthIn

\* So does what the header of a line is, and whether an else comes between the two.
LEMMA HeaderAgrees ==
    ASSUME NEW s, NEW t, NEW k \in Int, \A j \in 1 .. k - 1 : t[j] = s[j]
    PROVE  /\ \A j \in 1 .. k - 1 : IsHeader(t, k, j) <=> IsHeader(s, k, j)
           /\ HeaderIn(t, k) = HeaderIn(s, k)
           /\ \A d : \A h \in Nat : Late(t, h, k, d) = Late(s, h, k, d)
<1>1. \A j \in 1 .. k : DepthIn(t, j) = DepthIn(s, j)
  <2>1. ASSUME NEW j \in 1 .. k PROVE DepthIn(t, j) = DepthIn(s, j)
    <3>1. \A i \in 1 .. j - 1 : t[i] = s[i]
      OBVIOUS
    <3> QED
      BY <3>1, DepthAgrees
  <2> QED
    BY <2>1
<1>2. DepthIn(t, k) = DepthIn(s, k)
  BY DepthAgrees
<1>3. \A j \in 1 .. k - 1 : IsHeader(t, k, j) <=> IsHeader(s, k, j)
  BY <1>1, <1>2 DEF IsHeader
<1>4. ASSUME NEW d, NEW h \in Nat PROVE Late(t, h, k, d) = Late(s, h, k, d)
  <2>1. Late(t, h, k, d) <=> Late(s, h, k, d)
    BY <1>1 DEF Late
  <2>2. Late(t, h, k, d) \in BOOLEAN /\ Late(s, h, k, d) \in BOOLEAN
    BY DEF Late
  <2> QED
    BY <2>1, <2>2
<1>5. HeaderIn(t, k) = HeaderIn(s, k)
  <2>1. {j \in 1 .. k - 1 : IsHeader(t, k, j)} = {j \in 1 .. k - 1 : IsHeader(s, k, j)}
    BY <1>3
  <2>2. \A u : HeaderIn(u, k) = CHOOSE j : j \in {i \in 1 .. k - 1 : IsHeader(u, k, i)}
    BY DEF HeaderIn
  <2> QED
    BY <2>1, <2>2
<1> QED
  BY <1>3, <1>4, <1>5

\* A line has one header at most.
LEMMA HeaderUnique ==
    ASSUME NEW s, NEW k \in Int, NEW j \in 1 .. k - 1, IsHeader(s, k, j), DepthIn(s, k) \in Int
    PROVE  HeaderIn(s, k) = j
<1> DEFINE h == HeaderIn(s, k)
<1>1. h \in 1 .. k - 1 /\ IsHeader(s, k, h)
  BY DEF HeaderIn
<1> HIDE DEF h
<1>2. ~ h < j
  BY <1>1 DEF IsHeader
<1>3. ~ j < h
  BY <1>1 DEF IsHeader
<1>4. h = j
  BY <1>1, <1>2, <1>3
<1> QED
  BY <1>4 DEF h

-------------------------------------------------------------------------------
(***************************************************************************)
(* Positions.  The lists L grow to M by the nodes at the positions Q: one  *)
(* node at most, of line k and behind the others of its list.              *)
(***************************************************************************)
Grows(L, M, Q, k) ==
    /\ Positions(M) = Positions(L) \cup Q
    /\ \A p \in Positions(L) : M[p[1]][p[2]] = L[p[1]][p[2]]
    /\ \A p \in Q : /\ M[p[1]][p[2]].line = k
                    /\ \A r \in Positions(L) : r[1] = p[1] => r[2] < p[2]
    /\ \A p, r \in Q : p = r

\* A position is the index of a list and an index into it.
LEMMA PositionType ==
    ASSUME NEW L
    PROVE  /\ \A i, m : <<i, m>> \in Positions(L) <=> i \in 1 .. Len(L) /\ m \in 1 .. Len(L[i])
           /\ \A p \in Positions(L) : /\ p = <<p[1], p[2]>>
                                      /\ p[1] \in 1 .. Len(L) /\ p[2] \in 1 .. Len(L[p[1]])
<1>1. ASSUME NEW p \in Positions(L)
      PROVE  \E i \in 1 .. Len(L) : p \in {i} \X (1 .. Len(L[i]))
  BY DEF Positions
<1>2. ASSUME NEW i \in 1 .. Len(L), NEW p \in {i} \X (1 .. Len(L[i]))
      PROVE  p \in Positions(L)
  BY DEF Positions
<1> QED
  BY <1>1, <1>2

\* The node of a line that has one place.
LEMMA NodeAt == ASSUME NEW L, NEW k, NEW q, PlacesIn(L, k) = {q}
                PROVE  NodeIn(L, k) = L[q[1]][q[2]]
<1>1. (CHOOSE p \in PlacesIn(L, k) : TRUE) = q
  OBVIOUS
<1> QED
  BY <1>1 DEF NodeIn

\* The nodes of the other lines stay, and where they are.
LEMMA PlacesKept ==
    ASSUME NEW L, NEW M, NEW Q, NEW k, Grows(L, M, Q, k), NEW j, j # k
    PROVE  /\ PlacesIn(M, j) = PlacesIn(L, j)
           /\ PlacesIn(L, j) # {} => NodeIn(M, j) = NodeIn(L, j)
<1>1. PlacesIn(M, j) = PlacesIn(L, j)
  BY DEF Grows, PlacesIn
<1>2. ASSUME PlacesIn(L, j) # {} PROVE NodeIn(M, j) = NodeIn(L, j)
  <2> DEFINE p == CHOOSE q \in PlacesIn(L, j) : TRUE
  <2>1. p \in PlacesIn(L, j)
    BY <1>2
  <2>2. NodeIn(L, j) = L[p[1]][p[2]]
    BY DEF NodeIn
  <2>3. NodeIn(M, j) = M[p[1]][p[2]]
    BY <1>1 DEF NodeIn
  <2> HIDE DEF p
  <2>4. p \in Positions(L)
    BY <2>1 DEF PlacesIn
  <2> QED
    BY <2>2, <2>3, <2>4 DEF Grows
<1> QED
  BY <1>1, <1>2

\* The new line has the new places.
LEMMA PlacesNew ==
    ASSUME NEW L, NEW M, NEW Q, NEW k, Grows(L, M, Q, k),
           \A p \in Positions(L) : L[p[1]][p[2]].line # k
    PROVE  PlacesIn(M, k) = Q
BY DEF Grows, PlacesIn

\* The nodes of a list stay in the order of their lines.
LEMMA OrderKept ==
    ASSUME NEW L, NEW M, NEW Q, NEW k \in Nat, Grows(L, M, Q, k), Ordered(L),
           \A p \in Positions(L) : L[p[1]][p[2]].line \in 1 .. k - 1
    PROVE  Ordered(M)
<1> SUFFICES ASSUME NEW i \in 1 .. Len(M), NEW m \in 1 .. Len(M[i]), NEW n \in 1 .. Len(M[i]), m < n
             PROVE  M[i][m].line < M[i][n].line
  BY DEF Ordered
<1> DEFINE p == <<i, m>>
           r == <<i, n>>
<1>0. p[1] = i /\ p[2] = m /\ r[1] = i /\ r[2] = n
  OBVIOUS
<1>1. p \in Positions(M) /\ r \in Positions(M)
  BY PositionType
<1>2. ~(p \in Q /\ r \in Q)
  <2>1. p # r
    OBVIOUS
  <2> QED
    BY <2>1 DEF Grows
<1>3. ASSUME p \in Q, r \in Positions(L) PROVE FALSE
  <2>1. r[2] < p[2]
    BY <1>0, <1>3 DEF Grows
  <2> QED
    BY <1>0, <2>1
<1>4. CASE p \in Positions(L) /\ r \in Q
  <2>1. M[i][n].line = k
    BY <1>0, <1>4 DEF Grows
  <2>2. M[i][m].line \in 1 .. k - 1
    BY <1>0, <1>4 DEF Grows
  <2> QED
    BY <2>1, <2>2
<1>5. CASE p \in Positions(L) /\ r \in Positions(L)
  <2>1. M[i][n] = L[i][n] /\ M[i][m] = L[i][m]
    BY <1>0, <1>5 DEF Grows
  <2>2. i \in 1 .. Len(L) /\ m \in 1 .. Len(L[i]) /\ n \in 1 .. Len(L[i])
    BY <1>5, PositionType
  <2>3. L[i][m].line < L[i][n].line
    BY <2>2 DEF Ordered
  <2> QED
    BY <2>1, <2>3
<1>6. /\ p \in Positions(L) \/ p \in Q
      /\ r \in Positions(L) \/ r \in Q
  BY <1>1 DEF Grows
<1> QED
  BY <1>2, <1>3, <1>4, <1>5, <1>6

\* Positions are added when the pairs that they are are.
LEMMA PositionsAdd ==
    ASSUME NEW L, NEW M, NEW Q, \A p \in Q : p = <<p[1], p[2]>>,
           \A i, m : <<i, m>> \in Positions(M) <=> <<i, m>> \in Positions(L) \/ <<i, m>> \in Q
    PROVE  Positions(M) = Positions(L) \cup Q
<1>1. \A p \in Positions(M) : p = <<p[1], p[2]>>
  BY PositionType
<1>2. \A p \in Positions(L) : p = <<p[1], p[2]>>
  BY PositionType
<1> QED
  BY <1>1, <1>2

\* A node that is placed, with new lists behind the others.
IsPlaced(R, L, M, e, a, x, k) ==
    /\ L \in Seq(Seq(R)) /\ M \in Seq(Seq(R)) /\ e \in Nat
    /\ a \in 1 .. Len(L) /\ x \in R /\ x.line = k
    /\ Len(M) = Len(L) + e /\ M[a] = Append(L[a], x)
    /\ \A i \in 1 .. Len(L) : i # a => M[i] = L[i]
    /\ \A i \in 1 .. e : M[Len(L) + i] = << >>

LEMMA GrowsByPlace ==
    ASSUME NEW R, NEW L, NEW M, NEW e, NEW a, NEW x, NEW k, IsPlaced(R, L, M, e, a, x, k)
    PROVE  /\ Grows(L, M, {<<a, Len(L[a]) + 1>>}, k)
           /\ M[a][Len(L[a]) + 1] = x
<1> DEFINE b == Len(L[a]) + 1
           q == <<a, b>>
<1>P. /\ L \in Seq(Seq(R)) /\ M \in Seq(Seq(R)) /\ e \in Nat
      /\ a \in 1 .. Len(L) /\ x \in R /\ x.line = k
      /\ Len(M) = Len(L) + e /\ M[a] = Append(L[a], x)
      /\ \A i \in 1 .. Len(L) : i # a => M[i] = L[i]
      /\ \A i \in 1 .. e : M[Len(L) + i] = << >>
  BY DEF IsPlaced
<1>0. q[1] = a /\ q[2] = b
  OBVIOUS
<1>1. Len(L) \in Nat /\ L[a] \in Seq(R)
  BY <1>P
<1>2. Len(L[a]) \in Nat
  BY <1>1
<1>3. Len(M[a]) = b /\ M[a][b] = x /\ \A i \in 1 .. Len(L[a]) : M[a][i] = L[a][i]
  BY <1>P, <1>1, AppendProperties
<1> HIDE DEF b, q
<1>4. ASSUME NEW i, NEW m PROVE <<i, m>> \in Positions(M) <=> <<i, m>> \in Positions(L) \/ <<i, m>> = q
  <2>1. /\ <<i, m>> \in Positions(M) <=> i \in 1 .. Len(M) /\ m \in 1 .. Len(M[i])
        /\ <<i, m>> \in Positions(L) <=> i \in 1 .. Len(L) /\ m \in 1 .. Len(L[i])
    BY PositionType
  <2>2. <<i, m>> = q <=> i = a /\ m = b
    BY DEF q
  <2>3. CASE i = a
    <3>1. m \in 1 .. b <=> m \in 1 .. Len(L[a]) \/ m = b
      BY <1>2 DEF b
    <3>2. a \in 1 .. Len(M)
      BY <1>P, <1>1
    <3> QED
      BY <1>P, <1>3, <2>1, <2>2, <2>3, <3>1, <3>2
  <2>4. CASE i \in 1 .. Len(L) /\ i # a
    <3>1. i \in 1 .. Len(M) /\ M[i] = L[i]
      BY <1>P, <1>1, <2>4
    <3> QED
      BY <2>1, <2>2, <2>4, <3>1
  <2>5. CASE i \in 1 .. Len(M) /\ i \notin 1 .. Len(L)
    <3>1. i - Len(L) \in 1 .. e /\ i = Len(L) + (i - Len(L))
      BY <1>P, <1>1, <2>5
    <3>2. M[i] = << >>
      BY <1>P, <3>1
    <3>3. m \notin 1 .. Len(M[i])
      BY <3>2
    <3> QED
      BY <1>P, <2>1, <2>2, <2>5, <3>3
  <2>6. CASE i \notin 1 .. Len(M) /\ i \notin 1 .. Len(L)
    BY <1>P, <2>1, <2>2, <2>6
  <2> QED
    BY <2>3, <2>4, <2>5, <2>6
<1>5. Positions(M) = Positions(L) \cup {q}
  <2>1. \A p \in {q} : p = <<p[1], p[2]>>
    BY <1>0 DEF q
  <2>2. \A i, m : <<i, m>> \in Positions(M) <=> <<i, m>> \in Positions(L) \/ <<i, m>> \in {q}
    BY <1>4, Zenon
  <2> QED
    BY <2>1, <2>2, PositionsAdd, Zenon
<1>6. ASSUME NEW p \in Positions(L) PROVE M[p[1]][p[2]] = L[p[1]][p[2]]
  <2>1. p[1] \in 1 .. Len(L) /\ p[2] \in 1 .. Len(L[p[1]])
    BY PositionType, Zenon
  <2>2. CASE p[1] = a
    <3>1. p[2] \in 1 .. Len(L[a])
      BY <2>1, <2>2, Zenon
    <3>2. M[a][p[2]] = L[a][p[2]]
      BY <1>3, <3>1, Zenon
    <3> QED
      BY <2>2, <3>2, Zenon
  <2>3. CASE p[1] # a
    BY <1>P, <2>1, <2>3, Zenon
  <2> QED
    BY <2>2, <2>3
<1>7. ASSUME NEW r \in Positions(L), r[1] = a PROVE r[2] < b
  <2>1. r[2] \in 1 .. Len(L[a])
    BY <1>7, PositionType, Zenon
  <2>2. \A w \in Nat : \A y \in 1 .. w : y < w + 1
    OBVIOUS
  <2> QED
    BY <1>2, <2>1, <2>2, Zenon DEF b
<1>8. M[q[1]][q[2]].line = k
  BY <1>P, <1>0, <1>3
<1>9. Grows(L, M, {q}, k)
  BY <1>0, <1>5, <1>6, <1>7, <1>8 DEF Grows
<1> QED
  BY <1>3, <1>9 DEF b, q

\* A list that is added, with the node of line k or with none.
LEMMA GrowsByList ==
    ASSUME NEW R, NEW L \in Seq(Seq(R)), NEW M, NEW k, NEW Q,
           Len(M) = Len(L) + 1, \A i \in 1 .. Len(L) : M[i] = L[i],
           \/ M[Len(L) + 1] = << >> /\ Q = {}
           \/ \E x \in R : M[Len(L) + 1] = <<x>> /\ x.line = k /\ Q = {<<Len(L) + 1, 1>>}
    PROVE  Grows(L, M, Q, k)
<1> DEFINE a == Len(L) + 1
<1>1. Len(L) \in Nat /\ a \notin 1 .. Len(L)
  OBVIOUS
<1>2. \A i : i \in 1 .. Len(M) <=> i \in 1 .. Len(L) \/ i = a
  BY <1>1
<1>3. \A m : m \in 1 .. Len(M[a]) <=> <<a, m>> \in Q
  <2>1. CASE M[a] = << >> /\ Q = {}
    BY <2>1
  <2>2. CASE \E x \in R : M[a] = <<x>> /\ Q = {<<a, 1>>}
    <3>1. Len(M[a]) = 1
      BY <2>2
    <3>2. \A m : m \in 1 .. 1 <=> m = 1
      OBVIOUS
    <3>3. \A m : <<a, m>> \in Q <=> m = 1
      BY <2>2
    <3> QED
      BY <3>1, <3>2, <3>3
  <2> QED
    BY <2>1, <2>2
<1>4. \A p \in Q : p = <<a, 1>> /\ M[a][1].line = k
  OBVIOUS
<1> HIDE DEF a
<1>5. ASSUME NEW i, NEW m
      PROVE  <<i, m>> \in Positions(M) <=> <<i, m>> \in Positions(L) \/ <<i, m>> \in Q
  <2>1. /\ <<i, m>> \in Positions(M) <=> i \in 1 .. Len(M) /\ m \in 1 .. Len(M[i])
        /\ <<i, m>> \in Positions(L) <=> i \in 1 .. Len(L) /\ m \in 1 .. Len(L[i])
    BY PositionType
  <2>2. <<i, m>> \in Q => i = a
    BY <1>4
  <2>3. CASE i = a
    BY <1>1, <1>2, <1>3, <2>1, <2>3
  <2>4. CASE i # a
    BY <1>2, <2>1, <2>2, <2>4
  <2> QED
    BY <2>3, <2>4
<1>6. Positions(M) = Positions(L) \cup Q
  <2>1. \A p \in Q : p = <<p[1], p[2]>>
    BY <1>4
  <2> QED
    BY <1>5, <2>1, PositionsAdd, Zenon
<1>7. ASSUME NEW p \in Positions(L) PROVE p[1] # a /\ M[p[1]][p[2]] = L[p[1]][p[2]]
  <2>1. p[1] \in 1 .. Len(L)
    BY PositionType
  <2> QED
    BY <1>1, <2>1
<1>8. ASSUME NEW p \in Q PROVE p[1] = a /\ M[p[1]][p[2]].line = k
  BY <1>4
<1> QED
  BY <1>4, <1>6, <1>7, <1>8 DEF Grows

-------------------------------------------------------------------------------
(***************************************************************************)
(* Line n + 1 is read: the text s becomes t, the lists L grow to M, and    *)
(* the functions f become g.                                               *)
(***************************************************************************)
Reads(s, t, L, M, f, g, Q, n) ==
    /\ n \in Nat /\ Len(s) = n /\ Len(t) = n + 1
    /\ \A j \in 1 .. n : t[j] = s[j]
    /\ Grows(L, M, Q, n + 1)
    /\ \A x \in Name : f[x] # 0 => g[x] = f[x]

\* A construct keeps its bodies.
LEMMA BodyKept ==
    ASSUME NEW s, NEW t, NEW L, NEW M, NEW f, NEW g, NEW Q, NEW n, Reads(s, t, L, M, f, g, Q, n),
           Text(s, L, f), NEW h \in 1 .. n, Opens(s[h])
    PROVE  /\ \A late : BodyIn(t, M, g, h, late) = BodyIn(s, L, f, h, late)
           /\ s[h].kind # "fn" => NodeIn(M, h) = NodeIn(L, h)
<1>1. t[h] = s[h] /\ n \in Nat /\ Len(s) = n /\ h # n + 1
  BY DEF Reads
<1>2. CASE s[h].kind = "fn"
  <2>1. s[h].name \in Name /\ f[s[h].name] # 0
    BY <1>1, <1>2 DEF Text
  <2>2. g[s[h].name] = f[s[h].name]
    BY <2>1 DEF Reads
  <2> QED
    BY <1>1, <1>2, <2>2 DEF BodyIn
<1>3. CASE s[h].kind # "fn"
  <2>1. MakesNode(s[h])
    BY <1>3 DEF Opens, MakesNode
  <2>2. PlacesIn(L, h) # {}
    BY <1>1, <2>1 DEF Text
  <2>3. Grows(L, M, Q, n + 1)
    BY DEF Reads
  <2>4. NodeIn(M, h) = NodeIn(L, h)
    BY <1>1, <2>2, <2>3, PlacesKept
  <2> QED
    BY <1>1, <1>3, <2>4 DEF BodyIn
<1> QED
  BY <1>2, <1>3

\* A line keeps its list.
LEMMA ListKept ==
    ASSUME NEW s, NEW t, NEW L, NEW M, NEW f, NEW g, NEW Q, NEW n, Reads(s, t, L, M, f, g, Q, n),
           Text(s, L, f), NEW k \in 1 .. n,
           DepthIn(s, k) # 0 => \E j \in 1 .. k - 1 : IsHeader(s, k, j)
    PROVE  ListIn(t, M, g, k) = ListIn(s, L, f, k)
<1>1. n \in Nat /\ Len(s) = n /\ t[k] = s[k] /\ k \in Int
  BY DEF Reads
<1>2. \A j \in 1 .. k - 1 : t[j] = s[j]
  BY <1>1 DEF Reads
<1>3. DepthIn(t, k) = DepthIn(s, k)
  BY <1>1, <1>2, DepthAgrees
<1>4. CASE s[k].kind = "fn"
  <2>1. s[k].name \in Name /\ f[s[k].name] # 0
    BY <1>1, <1>4 DEF Text
  <2>2. g[s[k].name] = f[s[k].name]
    BY <2>1 DEF Reads
  <2> QED
    BY <1>1, <1>4, <2>2 DEF ListIn
<1>5. CASE s[k].kind # "fn" /\ DepthIn(s, k) = 0
  BY <1>1, <1>3, <1>5 DEF ListIn
<1>6. CASE s[k].kind # "fn" /\ DepthIn(s, k) # 0
  <2> DEFINE h == HeaderIn(s, k)
             late == Late(s, h, k, DepthIn(s, k))
  <2>1. h \in 1 .. k - 1 /\ IsHeader(s, k, h)
    BY <1>6 DEF HeaderIn
  <2>2. h \in 1 .. n /\ h \in Nat /\ Opens(s[h])
    BY <1>1, <2>1 DEF IsHeader
  <2>3. ListIn(s, L, f, k) = BodyIn(s, L, f, h, late)
    BY <1>6 DEF ListIn
  <2>4. ListIn(t, M, g, k) = BodyIn(t, M, g, HeaderIn(t, k), Late(t, HeaderIn(t, k), k, DepthIn(s, k)))
    BY <1>1, <1>3, <1>6 DEF ListIn
  <2> HIDE DEF h, late
  <2>5. HeaderIn(t, k) = h
    BY <1>1, <1>2, HeaderAgrees DEF h
  <2>6. Late(t, h, k, DepthIn(s, k)) = late
    BY <1>1, <1>2, <2>2, HeaderAgrees DEF late
  <2>7. BodyIn(t, M, g, h, late) = BodyIn(s, L, f, h, late)
    BY <2>2, BodyKept
  <2> QED
    BY <2>3, <2>4, <2>5, <2>6, <2>7
<1> QED
  BY <1>4, <1>5, <1>6

\* Q is one position, in list a.
IsPlace(Q, a, m) == Q = {<<a, m>>}

\* The text stays the AST when the new line, if it makes a node, has the new place.
LEMMA TextKept ==
    ASSUME NEW s, NEW t, NEW L, NEW M, NEW f, NEW g, NEW Q, NEW n, Reads(s, t, L, M, f, g, Q, n),
           Text(s, L, f), NEW c, NEW H, Shape(s, c, H),
           t[n + 1].kind = "fn" => t[n + 1].name \in Name /\ g[t[n + 1].name] # 0,
           MakesNode(t[n + 1]) => \E m : IsPlace(Q, ListIn(t, M, g, n + 1), m)
    PROVE  Text(t, M, g)
<1>1. n \in Nat /\ Len(s) = n /\ Len(t) = n + 1 /\ Grows(L, M, Q, n + 1)
  BY DEF Reads
<1>2. \A k \in 1 .. Len(t) : k \in 1 .. n \/ k = n + 1
  BY <1>1
<1>3. ASSUME NEW k \in 1 .. n, s[k].kind = "fn"
      PROVE  s[k].name \in Name /\ g[s[k].name] # 0
  <2>1. s[k].name \in Name /\ f[s[k].name] # 0
    BY <1>1, <1>3 DEF Text
  <2> QED
    BY <2>1 DEF Reads
<1>4. \A k \in 1 .. Len(t) : t[k].kind = "fn" => t[k].name \in Name /\ g[t[k].name] # 0
  <2>1. \A k \in 1 .. n : t[k] = s[k]
    BY DEF Reads
  <2> QED
    BY <1>2, <1>3, <2>1
<1>5. \A p \in Positions(L) : L[p[1]][p[2]].line \in 1 .. n
  BY <1>1 DEF Text
<1>6. \A p \in Positions(M) : M[p[1]][p[2]].line \in 1 .. Len(t)
  <2>1. \A j \in 1 .. n : j \in 1 .. Len(t)
    BY <1>1
  <2>2. n + 1 \in 1 .. Len(t)
    BY <1>1
  <2> QED
    BY <1>1, <1>5, <2>1, <2>2 DEF Grows
<1>7. ASSUME NEW k \in 1 .. n, MakesNode(s[k])
      PROVE  \E m : PlacesIn(M, k) = {<<ListIn(t, M, g, k), m>>}
  <2>1. PICK m : PlacesIn(L, k) = {<<ListIn(s, L, f, k), m>>}
    BY <1>1, <1>7 DEF Text
  <2>2. k # n + 1
    BY <1>1
  <2>3. PlacesIn(M, k) = PlacesIn(L, k)
    BY <1>1, <2>2, PlacesKept
  <2>4. DepthIn(s, k) # 0 => \E j \in 1 .. k - 1 : IsHeader(s, k, j)
    BY <1>1 DEF Shape
  <2>5. ListIn(t, M, g, k) = ListIn(s, L, f, k)
    BY <2>4, ListKept
  <2> QED
    BY <2>1, <2>3, <2>5
<1>8. PlacesIn(M, n + 1) = Q
  <2>1. \A j \in 1 .. n : j # n + 1
    BY <1>1
  <2>2. \A p \in Positions(L) : L[p[1]][p[2]].line # n + 1
    BY <1>5, <2>1
  <2> QED
    BY <1>1, <2>2, PlacesNew
<1>9. \A k \in 1 .. Len(t) : MakesNode(t[k]) => \E m : PlacesIn(M, k) = {<<ListIn(t, M, g, k), m>>}
  <2>1. \A k \in 1 .. n : t[k] = s[k]
    BY DEF Reads
  <2>2. MakesNode(t[n + 1]) => \E m : Q = {<<ListIn(t, M, g, n + 1), m>>}
    BY DEF IsPlace
  <2> QED
    BY <1>2, <1>7, <1>8, <2>1, <2>2
<1>10. Ordered(M)
  <2>1. n + 1 \in Nat /\ (n + 1) - 1 = n
    BY <1>1
  <2>2. Ordered(L)
    BY DEF Text
  <2> QED
    BY <1>1, <1>5, <2>1, <2>2, OrderKept
<1> QED
  BY <1>4, <1>6, <1>9, <1>10 DEF Text

LEMMA NotOne == ASSUME NEW x \in Nat \ {0}, x # 1
                PROVE  x \in 2 .. x /\ x - 1 \in Int /\ x - 1 # 0
OBVIOUS

\* Every line has a header unless its depth is 0; that of the new line is the innermost scope's.
LEMMA HeadersKept ==
    ASSUME NEW s, NEW t, NEW L, NEW M, NEW f, NEW g, NEW Q, NEW n, Reads(s, t, L, M, f, g, Q, n),
           NEW c, NEW H, Len(c) \in Nat \ {0}, Shape(s, c, H)
    PROVE  /\ \A k \in 1 .. n + 1 : DepthIn(t, k) = DepthIn(s, k)
           /\ DepthIn(t, n + 1) = Len(c) - 1
           /\ Len(c) # 1 => H[Len(c)] \in 1 .. n /\ IsHeader(t, n + 1, H[Len(c)])
           /\ \A k \in 1 .. n + 1 : DepthIn(t, k) # 0 => \E j \in 1 .. k - 1 : IsHeader(t, k, j)
<1>1. n \in Nat /\ Len(s) = n
  BY DEF Reads
<1>2. ASSUME NEW k \in 1 .. n + 1 PROVE k \in Int /\ \A j \in 1 .. k - 1 : t[j] = s[j]
  BY <1>1 DEF Reads
<1>3. \A k \in 1 .. n + 1 : DepthIn(t, k) = DepthIn(s, k)
  BY <1>2, DepthAgrees
<1>4. DepthIn(t, n + 1) = Len(c) - 1
  <2>1. n + 1 \in 1 .. n + 1
    BY <1>1
  <2> QED
    BY <1>1, <1>3, <2>1 DEF Shape
<1>5. ASSUME Len(c) # 1 PROVE H[Len(c)] \in 1 .. n /\ IsHeader(t, n + 1, H[Len(c)])
  <2> DEFINE h == H[Len(c)]
  <2>1. Len(c) \in 2 .. Len(c)
    BY <1>5, NotOne, Zenon
  <2>2. /\ h \in 1 .. n /\ Opens(s[h]) /\ DepthIn(s, h) = Len(c) - 2
        /\ \A m \in h + 1 .. n : DepthIn(s, m) >= Len(c) - 1
    BY <1>1, <2>1 DEF Shape
  <2> HIDE DEF h
  <2>3. t[h] = s[h] /\ DepthIn(t, h) = (Len(c) - 1) - 1
    BY <1>1, <1>3, <2>2 DEF Reads
  <2>4. \A m \in h + 1 .. (n + 1) - 1 : DepthIn(t, m) >= Len(c) - 1
    BY <1>1, <1>3, <2>2
  <2>5. IsHeader(t, n + 1, h)
    BY <1>4, <2>2, <2>3, <2>4 DEF IsHeader
  <2> QED
    BY <2>2, <2>5 DEF h
<1>6. ASSUME NEW k \in 1 .. n + 1, DepthIn(t, k) # 0
      PROVE  \E j \in 1 .. k - 1 : IsHeader(t, k, j)
  <2>1. CASE k = n + 1
    <3>1. (n + 1) - 1 = n
      BY <1>1
    <3>2. Len(c) # 1
      <4>1. SUFFICES ASSUME Len(c) = 1 PROVE FALSE
        OBVIOUS
      <4>2. DepthIn(t, n + 1) = 1 - 1
        BY <1>4, <4>1, Zenon
      <4> QED
        BY <1>6, <2>1, <4>2
    <3> QED
      BY <1>5, <2>1, <3>1, <3>2
  <2>2. CASE k \in 1 .. n
    <3>1. PICK j \in 1 .. k - 1 : IsHeader(s, k, j)
      BY <1>1, <1>3, <1>6, <2>2 DEF Shape
    <3>2. IsHeader(t, k, j)
      BY <1>2, <3>1, HeaderAgrees
    <3> QED
      BY <3>2
  <2> QED
    BY <1>1, <2>1, <2>2
<1> QED
  BY <1>3, <1>4, <1>5, <1>6

\* The list of the new line is the one that the innermost scope refers to.
LEMMA NewPlace ==
    ASSUME NEW s, NEW t, NEW L, NEW M, NEW f, NEW g, NEW Q, NEW n, Reads(s, t, L, M, f, g, Q, n),
           NEW c, NEW d, NEW H, Len(c) \in Nat \ {0}, c[1].nodes = 1,
           Shape(s, c, H), Text(s, L, f), Rooms(s, L, f, c, d, H), t[n + 1].kind # "fn"
    PROVE  ListIn(t, M, g, n + 1) = c[Len(c)].nodes
<1>1. n \in Nat /\ Len(s) = n /\ n + 1 \in Int
  BY DEF Reads
<1>2. DepthIn(t, n + 1) = Len(c) - 1
  BY HeadersKept
<1>3. CASE Len(c) = 1
  <2>1. DepthIn(t, n + 1) = 0
    BY <1>2, <1>3
  <2> QED
    BY <1>3, <2>1 DEF ListIn
<1>4. CASE Len(c) # 1
  <2> DEFINE h == H[Len(c)]
             i == Len(c)
  <2>1. h \in 1 .. n /\ IsHeader(t, n + 1, h)
    BY <1>4, HeadersKept
  <2>2. i \in 2 .. Len(c) /\ i - 1 # 0 /\ i - 1 \in Int
    BY <1>4, NotOne, Zenon
  <2>3. c[i].nodes = BodyIn(s, L, f, h, Late(s, h, n + 1, i - 1))
    BY <1>1, <2>2 DEF Rooms, Room
  <2> HIDE DEF h
  <2>4. HeaderIn(t, n + 1) = h
    <3>1. h \in 1 .. (n + 1) - 1 /\ DepthIn(t, n + 1) \in Int
      BY <1>1, <1>2, <2>1, <2>2
    <3> QED
      BY <1>1, <2>1, <3>1, HeaderUnique
  <2>5. Late(t, h, n + 1, i - 1) = Late(s, h, n + 1, i - 1)
    <3>1. h \in Nat /\ \A j \in 1 .. (n + 1) - 1 : t[j] = s[j]
      BY <1>1, <2>1 DEF Reads
    <3> QED
      BY <1>1, <3>1, HeaderAgrees
  <2>6. ListIn(t, M, g, n + 1) = BodyIn(t, M, g, h, Late(t, h, n + 1, i - 1))
    BY <1>2, <2>2, <2>4 DEF ListIn
  <2>7. Opens(s[h])
    BY <1>1, <2>1 DEF IsHeader, Reads
  <2>8. \A late : BodyIn(t, M, g, h, late) = BodyIn(s, L, f, h, late)
    BY <2>1, <2>7, BodyKept
  <2> QED
    BY <2>3, <2>5, <2>6, <2>8
<1> QED
  BY <1>3, <1>4

\* The scopes after the new line, which may have opened one or closed the innermost.
LEMMA ShapeStep ==
    ASSUME NEW s, NEW t, NEW L, NEW M, NEW f, NEW g, NEW Q, NEW n, Reads(s, t, L, M, f, g, Q, n),
           NEW c, NEW H, Len(c) \in Nat \ {0}, Shape(s, c, H),
           NEW e, NEW I, Len(e) \in Nat,
           Len(e) = Len(c) + (IF Opens(t[n + 1]) THEN 1 ELSE 0) - (IF Closes(t[n + 1]) THEN 1 ELSE 0),
           \A i \in 2 .. Len(e) : \/ i \in 2 .. Len(c) /\ I[i] = H[i]
                                  \/ i = Len(c) + 1 /\ I[i] = n + 1 /\ Opens(t[n + 1])
    PROVE  Shape(t, e, I)
<1>1. n \in Nat /\ Len(s) = n /\ Len(t) = n + 1
  BY DEF Reads
<1>2. /\ \A k \in 1 .. n + 1 : DepthIn(t, k) = DepthIn(s, k)
      /\ DepthIn(t, n + 1) = Len(c) - 1
      /\ \A k \in 1 .. n + 1 : DepthIn(t, k) # 0 => \E j \in 1 .. k - 1 : IsHeader(t, k, j)
  BY HeadersKept
<1>3. DepthIn(t, Len(t) + 1) = Len(e) - 1
  <2>1. n + 1 \in Nat \ {0}
    BY <1>1
  <2>2. DepthIn(t, (n + 1) + 1) = DepthIn(t, n + 1) + (IF Opens(t[n + 1]) THEN 1 ELSE 0)
                                                    - (IF Closes(t[n + 1]) THEN 1 ELSE 0)
    BY <2>1, DepthStep
  <2> DEFINE o == IF Opens(t[n + 1]) THEN 1 ELSE 0
             z == IF Closes(t[n + 1]) THEN 1 ELSE 0
             a == Len(c)
             b == Len(e)
  <2>3. o \in Int /\ z \in Int /\ a \in Int /\ b = a + o - z
    OBVIOUS
  <2>4. DepthIn(t, (n + 1) + 1) = (a - 1) + o - z
    BY <1>2, <2>2, Zenon
  <2>5. DepthIn(t, (n + 1) + 1) = DepthIn(t, Len(t) + 1)
    BY <1>1, Zenon
  <2> HIDE DEF o, z, a, b
  <2>6. DepthIn(t, (n + 1) + 1) = b - 1
    BY <2>3, <2>4
  <2> QED
    BY <2>5, <2>6, Zenon DEF b
<1>4. ASSUME NEW i \in 2 .. Len(e)
      PROVE  /\ I[i] \in 1 .. n + 1 /\ Opens(t[I[i]]) /\ DepthIn(t, I[i]) = i - 2
             /\ \A m \in I[i] + 1 .. n + 1 : DepthIn(t, m) >= i - 1
  <2>1. CASE i \in 2 .. Len(c) /\ I[i] = H[i]
    <3> DEFINE h == H[i]
    <3>1. /\ h \in 1 .. n /\ Opens(s[h]) /\ DepthIn(s, h) = i - 2
          /\ \A m \in h + 1 .. n : DepthIn(s, m) >= i - 1
      BY <1>1, <2>1 DEF Shape
    <3> HIDE DEF h
    <3>2. t[h] = s[h] /\ h \in 1 .. n + 1
      BY <1>1, <3>1 DEF Reads
    <3>3. DepthIn(t, n + 1) >= i - 1
      BY <1>2, <2>1
    <3>4. ASSUME NEW m \in h + 1 .. n + 1 PROVE DepthIn(t, m) >= i - 1
      <4>1. m = n + 1 \/ (m \in h + 1 .. n /\ m \in 1 .. n + 1)
        BY <1>1, <3>1
      <4> QED
        BY <1>2, <3>1, <3>3, <4>1
    <3>5. I[i] = h
      BY <2>1 DEF h
    <3> QED
      BY <1>2, <3>1, <3>2, <3>4, <3>5
  <2>2. CASE i = Len(c) + 1 /\ I[i] = n + 1 /\ Opens(t[n + 1])
    <3>1. n + 1 \in 1 .. n + 1 /\ (n + 1) + 1 .. n + 1 = {}
      BY <1>1
    <3>2. DepthIn(t, n + 1) = i - 2
      BY <1>2, <2>2
    <3> QED
      BY <2>2, <3>1, <3>2
  <2> QED
    BY <2>1, <2>2
<1> QED
  BY <1>1, <1>2, <1>3, <1>4 DEF Shape

\* An else of the new line's depth comes between, or came before.
LEMMA LateStep ==
    ASSUME NEW s, NEW t, NEW L, NEW M, NEW f, NEW g, NEW Q, NEW n, Reads(s, t, L, M, f, g, Q, n),
           NEW h \in 1 .. n, NEW d
    PROVE  Late(t, h, Len(t) + 1, d) <=> \/ Late(s, h, n + 1, d)
                                         \/ t[n + 1].kind = "else" /\ DepthIn(t, n + 1) = d
<1>1. n \in Nat /\ Len(t) = n + 1 /\ ((n + 1) + 1) - 1 = n + 1 /\ (n + 1) - 1 = n
  BY DEF Reads
<1>2. Late(s, h, n + 1, d) <=> \E j \in h + 1 .. n : t[j].kind = "else" /\ DepthIn(t, j) = d
  <2>1. ASSUME NEW j \in h + 1 .. n PROVE t[j] = s[j] /\ DepthIn(t, j) = DepthIn(s, j)
    <3>1. j \in 1 .. n /\ j \in Int /\ \A i \in 1 .. j - 1 : i \in 1 .. n
      BY <1>1
    <3>2. \A i \in 1 .. n : t[i] = s[i]
      BY DEF Reads
    <3> QED
      BY <3>1, <3>2, DepthAgrees
  <2> QED
    BY <1>1, <2>1 DEF Late
<1>3. \A j : j \in h + 1 .. n + 1 <=> j \in h + 1 .. n \/ j = n + 1
  BY <1>1
<1>4. Late(t, h, Len(t) + 1, d) <=> \E j \in h + 1 .. n + 1 : t[j].kind = "else" /\ DepthIn(t, j) = d
  BY <1>1 DEF Late
<1> QED
  BY <1>2, <1>3, <1>4

\* A scope keeps its body unless the new line is its else.
LEMMA RoomKept ==
    ASSUME NEW s, NEW t, NEW L, NEW M, NEW f, NEW g, NEW Q, NEW n, Reads(s, t, L, M, f, g, Q, n),
           NEW c, NEW d, NEW H, Len(c) \in Nat \ {0}, Shape(s, c, H), Text(s, L, f),
           NEW i \in 2 .. Len(c), Room(s, L, f, c, d, H, i),
           NEW e, NEW b, NEW I, I[i] = H[i], e[i] = c[i],
           t[n + 1].kind = "else" => i # Len(c),
           c[i].type = "conditional" => b[RankOf(e, i)].else_body = d[RankOf(c, i)].else_body
    PROVE  Room(t, M, g, e, b, I, i)
<1> DEFINE h == H[i]
<1>1. n \in Nat /\ Len(s) = n
  BY DEF Reads
<1>2. h \in 1 .. n /\ Opens(s[h])
  BY <1>1 DEF Shape
<1>3. /\ c[i].type = "conditional" <=> s[h].kind = "if"
      /\ c[i].nodes = BodyIn(s, L, f, h, Late(s, h, n + 1, i - 1))
      /\ c[i].type = "conditional" => d[RankOf(c, i)].else_body = NodeIn(L, h).else_body
  BY <1>1 DEF Room
<1>4. I[i] = h
  OBVIOUS
<1> HIDE DEF h
<1>5. t[h] = s[h]
  BY <1>2 DEF Reads
<1>6. /\ \A late : BodyIn(t, M, g, h, late) = BodyIn(s, L, f, h, late)
      /\ s[h].kind # "fn" => NodeIn(M, h) = NodeIn(L, h)
  BY <1>2, BodyKept
<1>7. Late(t, h, Len(t) + 1, i - 1) = Late(s, h, n + 1, i - 1)
  <2>1. DepthIn(t, n + 1) = Len(c) - 1
    BY HeadersKept
  <2>2. i # Len(c) => DepthIn(t, n + 1) # i - 1
    BY <2>1
  <2>3. Late(t, h, Len(t) + 1, i - 1) <=> Late(s, h, n + 1, i - 1)
    BY <1>2, <2>2, LateStep
  <2>4. Late(t, h, Len(t) + 1, i - 1) \in BOOLEAN /\ Late(s, h, n + 1, i - 1) \in BOOLEAN
    BY DEF Late
  <2> QED
    BY <2>3, <2>4
<1>8. c[i].type = "conditional" => b[RankOf(e, i)].else_body = NodeIn(M, h).else_body
  BY <1>3, <1>6
<1>9. c[i].nodes = BodyIn(t, M, g, h, Late(t, h, Len(t) + 1, i - 1))
  BY <1>3, <1>6, <1>7
<1> QED
  BY <1>3, <1>4, <1>5, <1>8, <1>9 DEF Room

\* An else moves the scope of its conditional to the other body.
LEMMA RoomElse ==
    ASSUME NEW s, NEW t, NEW L, NEW M, NEW f, NEW g, NEW Q, NEW n, Reads(s, t, L, M, f, g, Q, n),
           NEW c, NEW d, NEW H, Len(c) \in Nat \ {0}, Shape(s, c, H), Text(s, L, f),
           NEW i \in 2 .. Len(c), i = Len(c), Room(s, L, f, c, d, H, i),
           t[n + 1].kind = "else", c[i].type = "conditional",
           NEW e, e[i].type = "conditional", e[i].nodes = d[RankOf(c, i)].else_body,
           RankOf(e, i) = RankOf(c, i)
    PROVE  Room(t, M, g, e, d, H, i)
<1> DEFINE h == H[i]
<1>1. n \in Nat /\ Len(s) = n
  BY DEF Reads
<1>2. h \in 1 .. n /\ Opens(s[h])
  BY <1>1 DEF Shape
<1>3. s[h].kind = "if" /\ d[RankOf(c, i)].else_body = NodeIn(L, h).else_body
  BY DEF Room
<1> HIDE DEF h
<1>4. t[h] = s[h]
  BY <1>2 DEF Reads
<1>5. NodeIn(M, h) = NodeIn(L, h)
  <2>1. s[h].kind # "fn"
    BY <1>3
  <2> QED
    BY <1>2, <2>1, BodyKept
<1>6. Late(t, h, Len(t) + 1, i - 1)
  <2>1. DepthIn(t, n + 1) = i - 1
    BY HeadersKept
  <2> QED
    BY <1>2, <2>1, LateStep
<1>7. BodyIn(t, M, g, h, Late(t, h, Len(t) + 1, i - 1)) = NodeIn(M, h).else_body
  BY <1>3, <1>4, <1>6 DEF BodyIn
<1>8. /\ e[i].type = "conditional" <=> t[h].kind = "if"
      /\ e[i].nodes = BodyIn(t, M, g, h, Late(t, h, Len(t) + 1, i - 1))
      /\ e[i].type = "conditional" => d[RankOf(e, i)].else_body = NodeIn(M, h).else_body
  BY <1>3, <1>4, <1>5, <1>7
<1> QED
  BY <1>8 DEF Room, h

\* The first line of a body is no else.
LEMMA RoomNew ==
    ASSUME NEW t, NEW M, NEW g, NEW n \in Nat, Len(t) = n + 1,
           NEW e, NEW b, NEW I, NEW i, I[i] = n + 1,
           e[i].type = "conditional" <=> t[n + 1].kind = "if",
           \/ t[n + 1].kind = "fn" /\ e[i].nodes = g[t[n + 1].name]
           \/ t[n + 1].kind # "fn" /\ e[i].nodes = NodeIn(M, n + 1).body,
           e[i].type = "conditional" => b[RankOf(e, i)].else_body = NodeIn(M, n + 1).else_body
    PROVE  Room(t, M, g, e, b, I, i)
<1>1. (n + 1) + 1 .. (Len(t) + 1) - 1 = {}
  OBVIOUS
<1>2. ~Late(t, n + 1, Len(t) + 1, i - 1)
  BY <1>1 DEF Late
<1>3. e[i].nodes = BodyIn(t, M, g, n + 1, Late(t, n + 1, Len(t) + 1, i - 1))
  BY <1>2 DEF BodyIn
<1> QED
  BY <1>3 DEF Room

-------------------------------------------------------------------------------
(***************************************************************************)
(* What a line does to the scopes: nothing, open one, close the innermost  *)
(* or move it to the other body of its conditional.                        *)
(***************************************************************************)
\* Line n + 1 is read, in scopes c with conditionals d that have the headers H.
Follows(s, t, L, M, f, g, Q, n, c, d, H) ==
    /\ Reads(s, t, L, M, f, g, Q, n)
    /\ Len(c) \in Nat \ {0} /\ c[1].nodes = 1 /\ Len(d) = RankOf(c, Len(c))
    /\ Shape(s, c, H) /\ Text(s, L, f) /\ Rooms(s, L, f, c, d, H)

\* What becomes of N scopes c and their conditionals d.
Opened(t, M, g, n, c, d, N, e, b) ==
    /\ Len(c) = N /\ Len(e) = N + 1 /\ \A i \in 1 .. N : e[i] = c[i]
    /\ \A i \in 1 .. Len(d) : b[i] = d[i]
    /\ e[N + 1].type = "conditional" <=> t[n + 1].kind = "if"
    /\ \/ t[n + 1].kind = "fn" /\ e[N + 1].nodes = g[t[n + 1].name]
       \/ t[n + 1].kind # "fn" /\ e[N + 1].nodes = NodeIn(M, n + 1).body
    /\ e[N + 1].type = "conditional" =>
         b[RankOf(e, N + 1)].else_body = NodeIn(M, n + 1).else_body

Closed(c, d, N, e, b) ==
    /\ Len(c) = N + 1 /\ Len(e) = N /\ \A i \in 1 .. N : e[i] = c[i]
    /\ Len(b) = RankOf(e, N) /\ \A i \in 1 .. Len(b) : b[i] = d[i]

Moved(c, d, N, e) ==
    /\ Len(c) = N /\ c[N].type = "conditional"
    /\ Len(e) = N /\ \A i \in 1 .. N : e[i].type = c[i].type
    /\ \A i \in 1 .. N : i # N => e[i] = c[i]
    /\ e[N].nodes = d[Len(d)].else_body

\* A line that is no header, no footer and no else.
LEMMA PlainLine ==
    ASSUME NEW s, NEW t, NEW L, NEW M, NEW f, NEW g, NEW Q, NEW n, NEW c, NEW d, NEW H,
           Follows(s, t, L, M, f, g, Q, n, c, d, H),
           ~Opens(t[n + 1]), ~Closes(t[n + 1]), t[n + 1].kind # "else"
    PROVE  Shape(t, c, H) /\ Rooms(t, M, g, c, d, H)
<1> USE DEF Follows
<1>1. Shape(t, c, H)
  <2>1. Len(c) \in Nat /\ Len(c) = Len(c) + 0 - 0
    OBVIOUS
  <2>2. Len(c) = Len(c) + (IF Opens(t[n + 1]) THEN 1 ELSE 0) - (IF Closes(t[n + 1]) THEN 1 ELSE 0)
    BY <2>1
  <2> QED
    BY <2>1, <2>2, ShapeStep
<1>2. ASSUME NEW i \in 2 .. Len(c) PROVE Room(t, M, g, c, d, H, i)
  <2>1. Room(s, L, f, c, d, H, i)
    BY DEF Rooms
  <2> QED
    BY <2>1, RoomKept
<1> QED
  BY <1>1, <1>2 DEF Rooms

\* A header: its scope is on the new node's body, or on the new function's.
LEMMA HeaderLine ==
    ASSUME NEW s, NEW t, NEW L, NEW M, NEW f, NEW g, NEW Q, NEW n, NEW c, NEW d, NEW H,
           Follows(s, t, L, M, f, g, Q, n, c, d, H), Opens(t[n + 1]),
           NEW N \in Nat \ {0}, NEW e, NEW b, Opened(t, M, g, n, c, d, N, e, b)
    PROVE  \E I : Shape(t, e, I) /\ Rooms(t, M, g, e, b, I)
<1> USE DEF Follows, Opened
<1> DEFINE I == [i \in 2 .. N + 1 |-> IF i = N + 1 THEN n + 1 ELSE H[i]]
<1>1. I[N + 1] = n + 1
  OBVIOUS
<1>2. \A i \in 2 .. N : I[i] = H[i]
  OBVIOUS
<1>3. \A i \in 2 .. N + 1 : i \in 2 .. N \/ i = N + 1
  OBVIOUS
<1>4. n \in Nat /\ Len(t) = n + 1
  BY DEF Reads
<1> HIDE DEF I
<1>5. Shape(t, e, I)
  <2>1. ~Closes(t[n + 1]) /\ t[n + 1].kind # "else"
    BY DEF Opens, Closes
  <2>2. Len(c) \in Nat \ {0} /\ Len(e) \in Nat /\ Len(e) = N + 1 - 0
    OBVIOUS
  <2>3. Len(e) = Len(c) + (IF Opens(t[n + 1]) THEN 1 ELSE 0) - (IF Closes(t[n + 1]) THEN 1 ELSE 0)
    BY <2>1, <2>2
  <2>4. \A i \in 2 .. Len(e) : \/ i \in 2 .. Len(c) /\ I[i] = H[i]
                               \/ i = Len(c) + 1 /\ I[i] = n + 1 /\ Opens(t[n + 1])
    BY <1>1, <1>2, <1>3
  <2> QED
    BY <2>2, <2>3, <2>4, ShapeStep
<1>6. ASSUME NEW i \in 2 .. N PROVE Room(t, M, g, e, b, I, i)
  <2>1. Room(s, L, f, c, d, H, i) /\ i \in 2 .. Len(c) /\ Len(c) \in Nat \ {0}
    BY DEF Rooms
  <2>2. I[i] = H[i] /\ e[i] = c[i]
    BY <1>2
  <2>3. t[n + 1].kind # "else"
    BY DEF Opens
  <2>4. c[i].type = "conditional" => b[RankOf(e, i)].else_body = d[RankOf(c, i)].else_body
    <3>1. RankOf(e, i) = RankOf(c, i)
      <4>1. i \in Nat /\ \A k \in 1 .. i : e[k].type = c[k].type
        OBVIOUS
      <4> QED
        BY <4>1, RankAgrees
    <3>2. c[i].type = "conditional" => RankOf(c, i) \in 1 .. Len(d)
      <4>1. i \in 1 .. Len(c) /\ Len(c) \in Nat /\ Len(d) = RankOf(c, Len(c))
        OBVIOUS
      <4> QED
        BY <4>1, RankInRange
    <3> QED
      BY <3>1, <3>2
  <2> QED
    BY <2>1, <2>2, <2>3, <2>4, RoomKept
<1>7. Room(t, M, g, e, b, I, N + 1)
  BY <1>1, <1>4, RoomNew
<1>8. Rooms(t, M, g, e, b, I)
  BY <1>3, <1>6, <1>7 DEF Rooms
<1> QED
  BY <1>5, <1>8

\* A footer: the scopes below keep their headers and bodies.
LEMMA FooterLine ==
    ASSUME NEW s, NEW t, NEW L, NEW M, NEW f, NEW g, NEW Q, NEW n, NEW c, NEW d, NEW H,
           Follows(s, t, L, M, f, g, Q, n, c, d, H), Closes(t[n + 1]),
           NEW N \in Nat \ {0}, NEW e, NEW b, Closed(c, d, N, e, b)
    PROVE  Shape(t, e, H) /\ Rooms(t, M, g, e, b, H)
<1> USE DEF Follows, Closed
<1>1. ~Opens(t[n + 1]) /\ t[n + 1].kind # "else"
  BY DEF Opens, Closes
<1>2. Len(c) \in Nat \ {0} /\ Len(e) \in Nat /\ \A i \in 2 .. Len(e) : i \in 2 .. Len(c) /\ i \in 1 .. N
  OBVIOUS
<1>3. Shape(t, e, H)
  <2>1. Len(e) = Len(c) + 0 - 1
    OBVIOUS
  <2>2. Len(e) = Len(c) + (IF Opens(t[n + 1]) THEN 1 ELSE 0) - (IF Closes(t[n + 1]) THEN 1 ELSE 0)
    BY <1>1, <2>1
  <2> QED
    BY <1>2, <2>2, ShapeStep
<1>4. ASSUME NEW i \in 2 .. Len(e) PROVE Room(t, M, g, e, b, H, i)
  <2>1. Room(s, L, f, c, d, H, i)
    BY <1>2 DEF Rooms
  <2>2. e[i] = c[i]
    BY <1>2
  <2>3. c[i].type = "conditional" => b[RankOf(e, i)].else_body = d[RankOf(c, i)].else_body
    <3>1. RankOf(e, i) = RankOf(c, i)
      <4>1. i \in Nat /\ \A k \in 1 .. i : e[k].type = c[k].type
        OBVIOUS
      <4> QED
        BY <4>1, RankAgrees
    <3>2. e[i].type = "conditional" => RankOf(e, i) \in 1 .. Len(b)
      <4>1. i \in 1 .. Len(e) /\ Len(e) \in Nat /\ Len(b) = RankOf(e, Len(e))
        OBVIOUS
      <4> QED
        BY <4>1, RankInRange
    <3> QED
      BY <2>2, <3>1, <3>2
  <2> QED
    BY <1>1, <1>2, <2>1, <2>2, <2>3, RoomKept
<1> QED
  BY <1>3, <1>4 DEF Rooms

\* An else: the innermost scope moves to the second body of its conditional.
LEMMA ElseLine ==
    ASSUME NEW s, NEW t, NEW L, NEW M, NEW f, NEW g, NEW Q, NEW n, NEW c, NEW d, NEW H,
           Follows(s, t, L, M, f, g, Q, n, c, d, H), t[n + 1].kind = "else",
           NEW N \in Nat \ {0, 1}, NEW e, Moved(c, d, N, e)
    PROVE  Shape(t, e, H) /\ Rooms(t, M, g, e, d, H)
<1> USE DEF Follows, Moved
<1>1. ~Opens(t[n + 1]) /\ ~Closes(t[n + 1])
  BY DEF Opens, Closes
<1>2. Len(c) \in Nat \ {0} /\ Len(e) \in Nat /\ \A i \in 2 .. Len(e) : i \in 2 .. Len(c) /\ i \in 1 .. N
  OBVIOUS
<1>3. Shape(t, e, H)
  <2>1. Len(e) = Len(c) + 0 - 0
    OBVIOUS
  <2>2. Len(e) = Len(c) + (IF Opens(t[n + 1]) THEN 1 ELSE 0) - (IF Closes(t[n + 1]) THEN 1 ELSE 0)
    BY <1>1, <2>1
  <2> QED
    BY <1>2, <2>2, ShapeStep
<1>4. ASSUME NEW i \in 2 .. Len(e) PROVE Room(t, M, g, e, d, H, i)
  <2>1. Room(s, L, f, c, d, H, i)
    BY <1>2 DEF Rooms
  <2>2. RankOf(e, i) = RankOf(c, i)
    <3>1. i \in Nat /\ \A k \in 1 .. i : e[k].type = c[k].type
      OBVIOUS
    <3> QED
      BY <3>1, RankAgrees
  <2>3. CASE i # N
    <3>1. e[i] = c[i] /\ i # Len(c)
      BY <2>3
    <3> QED
      BY <1>2, <2>1, <2>2, <3>1, RoomKept
  <2>4. CASE i = N
    <3>1. i = Len(c) /\ c[i].type = "conditional" /\ e[i].type = "conditional"
      BY <1>2, <2>4
    <3>2. e[i].nodes = d[RankOf(c, i)].else_body
      BY <2>4
    <3> QED
      BY <1>2, <2>1, <2>2, <3>1, <3>2, RoomElse
  <2> QED
    BY <2>3, <2>4
<1> QED
  BY <1>3, <1>4 DEF Rooms

-------------------------------------------------------------------------------
(***************************************************************************)
(* The handlers and the text.                                              *)
(***************************************************************************)
\* The invariant: while nothing is refused, the scopes have headers in the text, the
\* AST is the text, and every scope refers to the body that its header and else say.
IsRead(H) == /\ Shape(source, scopes, H)
             /\ Text(source, lists, functions)
             /\ Rooms(source, lists, functions, scopes, conditionals, H)

TextInv == outcome \in {"reading", "accepted"} => \E H : IsRead(H)

\* What IInv says of the stacks.
LEMMA StacksAre ==
    ASSUME IInv
    PROVE  /\ source \in Seq(Lines) /\ Len(source) \in Nat
           /\ lists \in Seq(Seq(NodeRecord)) /\ Len(lists) \in Nat
           /\ functions \in [Name -> {0} \cup 1 .. Len(lists)]
           /\ Len(scopes) \in Nat \ {0} /\ scopes \in Seq(ScopeOf(Len(lists)))
           /\ conditionals \in Seq(ConditionalOf(Len(lists))) /\ Len(conditionals) \in Nat
           /\ top = scopes[Len(scopes)] /\ top.nodes \in 1 .. Len(lists)
           /\ scopes[1] = [type |-> "global", nodes |-> 1]
           /\ Len(conditionals) = RankOf(scopes, Len(scopes))
<1>1. Len(scopes) \in Nat \ {0} /\ top.nodes \in 1 .. Len(lists) /\ Len(lists) \in Nat
  BY TopType
<1>2. /\ Typed(scopes, conditionals, is_in_function_scope, Len(lists))
      /\ Nest(scopes, is_in_function_scope) /\ Match(scopes, conditionals)
  BY DEF IInv, ContextOK
<1>3. scopes \in Seq(ScopeOf(Len(lists))) /\ conditionals \in Seq(ConditionalOf(Len(lists)))
  BY <1>2 DEF Typed
<1>4. source \in Seq(Lines) /\ lists \in Seq(Seq(NodeRecord))
      /\ functions \in [Name -> {0} \cup 1 .. Len(lists)]
  BY DEF IInv, TypeOK, ListIndex
<1>5. Len(source) \in Nat /\ Len(conditionals) \in Nat
  BY <1>3, <1>4
<1> QED
  BY <1>1, <1>2, <1>3, <1>4, <1>5 DEF top, Nest, Match

\* The text after a line.
LEMMA SourceGrows ==
    ASSUME IInv, NEW l \in Lines, source' = Append(source, l)
    PROVE  /\ Len(source') = Len(source) + 1 /\ source'[Len(source) + 1] = l
           /\ \A j \in 1 .. Len(source) : source'[j] = source[j]
<1>1. source \in Seq(Lines)
  BY StacksAre
<1> QED
  BY <1>1, AppendProperties

\* A step after which the text is read.
LEMMA TextIsReadAfter ==
    ASSUME NEW I, Shape(source', scopes', I), Text(source', lists', functions'),
           Rooms(source', lists', functions', scopes', conditionals', I)
    PROVE  TextInv'
<1>1. IsRead(I)'
  BY DEF IsRead
<1> QED
  BY <1>1 DEF TextInv

\* Nothing is said of a text that is refused.
LEMMA RefusedText == ASSUME NEW code \in Failure \cup {"crashed"}, Fail(code) PROVE TextInv'
<1>1. code \notin {"reading", "accepted"}
  BY DEF Failure
<1>2. outcome' = code
  BY DEF Fail
<1> QED
  BY <1>1, <1>2 DEF TextInv

\* A node of the new line that goes to the innermost scope's list is where the text puts it.
LEMMA PlacedLine ==
    ASSUME NEW s, NEW t, NEW L, NEW M, NEW f, NEW g, NEW Q, NEW n, NEW c, NEW d, NEW H,
           Follows(s, t, L, M, f, g, Q, n, c, d, H), t[n + 1].kind # "fn",
           NEW m, IsPlace(Q, c[Len(c)].nodes, m)
    PROVE  /\ Text(t, M, g)
           /\ NodeIn(M, n + 1) = M[c[Len(c)].nodes][m]
<1> USE DEF Follows
<1> DEFINE a == c[Len(c)].nodes
           q == <<a, m>>
<1>0. Q = {q}
  BY DEF IsPlace
<1>1. ListIn(t, M, g, n + 1) = a
  BY NewPlace
<1>2. Text(t, M, g)
  <2>1. IsPlace(Q, ListIn(t, M, g, n + 1), m)
    BY <1>1
  <2> QED
    BY <2>1, TextKept
<1>3. NodeIn(M, n + 1) = M[a][m]
  <2>1. n \in Nat /\ Len(s) = n /\ Grows(L, M, Q, n + 1)
    BY DEF Reads
  <2>2. \A p \in Positions(L) : L[p[1]][p[2]].line # n + 1
    <3>1. \A j \in 1 .. n : j # n + 1
      BY <2>1
    <3> QED
      BY <2>1, <3>1 DEF Text
  <2>3. PlacesIn(M, n + 1) = {q}
    BY <1>0, <2>1, <2>2, PlacesNew
  <2>4. NodeIn(M, n + 1) = M[q[1]][q[2]]
    BY <2>3, NodeAt
  <2> QED
    BY <2>4
<1> QED
  BY <1>2, <1>3

\* What placing a node adds.
LEMMA PlaceGrows ==
    ASSUME IInv, NEW type \in NodeType, NEW b \in Nat, NEW e \in Nat,
           NEW new \in Seq(Seq(NodeRecord)), \A i \in 1 .. Len(new) : new[i] = << >>,
           Place(Node(type, b, e), new)
    PROVE  \E m : /\ Grows(lists, lists', {<<scopes[Len(scopes)].nodes, m>>}, Len(source) + 1)
                  /\ lists'[scopes[Len(scopes)].nodes][m] = Node(type, b, e)
<1> DEFINE n == Len(source)
           a == top.nodes
           x == Node(type, b, e)
<1>1. /\ n \in Nat /\ lists \in Seq(Seq(NodeRecord)) /\ a \in 1 .. Len(lists)
      /\ top = scopes[Len(scopes)]
  BY StacksAre, Zenon
<1>2. Len(new) \in Nat /\ x.line = n + 1 /\ x \in NodeRecord
  BY <1>1 DEF Node, NodeRecord
<1>3. /\ lists' \in Seq(Seq(NodeRecord)) /\ Len(lists') = Len(lists) + Len(new)
      /\ lists'[a] = Append(lists[a], x)
      /\ \A i \in 1 .. Len(lists) : i # a => lists'[i] = lists[i]
      /\ \A i \in 1 .. Len(new) : lists'[Len(lists) + i] = new[i]
  BY PlaceEffect, Zenon
<1> HIDE DEF n, a, x
<1>4. \A i \in 1 .. Len(new) : lists'[Len(lists) + i] = << >>
  BY <1>3, Zenon
<1>5. /\ Grows(lists, lists', {<<a, Len(lists[a]) + 1>>}, n + 1)
      /\ lists'[a][Len(lists[a]) + 1] = x
  <2>1. IsPlaced(NodeRecord, lists, lists', Len(new), a, x, n + 1)
    BY <1>1, <1>2, <1>3, <1>4, Zenon DEF IsPlaced
  <2> QED
    BY <2>1, GrowsByPlace, Zenon
<1>6. a = scopes[Len(scopes)].nodes
  BY <1>1, Zenon DEF a
<1> QED
  BY <1>5, <1>6, Zenon DEF n, x

\* Line l is read: the lists grow by Q, in scopes that have the headers H.
Reading(Q, H) == Follows(source, source', lists, lists', functions, functions', Q, Len(source),
                         scopes, conditionals, H)

\* The text and the AST are those after the line.
TextReads == Text(source', lists', functions')

\* A handler that adds at most a node, and redefines no function, reads the line.
LEMMA ReadingIs ==
    ASSUME IInv, NEW l \in Lines, source' = Append(source, l), NEW H, IsRead(H),
           NEW Q, Grows(lists, lists', Q, Len(source) + 1),
           \A x \in Name : functions[x] # 0 => functions'[x] = functions[x]
    PROVE  Reading(Q, H)
<1>1. Len(source) \in Nat /\ Len(scopes) \in Nat \ {0} /\ scopes[1] = [type |-> "global", nodes |-> 1]
      /\ Len(conditionals) = RankOf(scopes, Len(scopes))
  BY StacksAre, Zenon
<1>2. scopes[1].nodes = 1
  BY <1>1
<1>3. /\ Len(source') = Len(source) + 1
      /\ \A j \in 1 .. Len(source) : source'[j] = source[j]
  BY SourceGrows, Zenon
<1>4. Reads(source, source', lists, lists', functions, functions', Q, Len(source))
  BY <1>1, <1>3, Zenon DEF Reads
<1> QED
  BY <1>1, <1>2, <1>4, Zenon DEF Follows, Reading, IsRead

LEMMA PlacedHere ==
    ASSUME NEW Q, NEW H, NEW m, IsPlace(Q, scopes[Len(scopes)].nodes, m), Reading(Q, H),
           source'[Len(source) + 1].kind # "fn"
    PROVE  TextReads /\ NodeIn(lists', Len(source) + 1) = lists'[scopes[Len(scopes)].nodes][m]
BY PlacedLine DEF Reading, TextReads

\* A line whose node goes to the innermost scope's list.
LEMMA PlacedText ==
    ASSUME IInv, NEW l \in Lines, source' = Append(source, l), l.kind # "fn", NEW H, IsRead(H),
           NEW type \in NodeType, NEW b \in Nat, NEW e \in Nat,
           NEW new \in Seq(Seq(NodeRecord)), \A i \in 1 .. Len(new) : new[i] = << >>,
           Place(Node(type, b, e), new), functions' = functions
    PROVE  \E Q : /\ Reading(Q, H) /\ TextReads
                  /\ NodeIn(lists', Len(source) + 1) = Node(type, b, e)
<1> DEFINE a == scopes[Len(scopes)].nodes
<1>1. PICK m : /\ Grows(lists, lists', {<<a, m>>}, Len(source) + 1)
               /\ lists'[a][m] = Node(type, b, e)
  BY PlaceGrows
<1> DEFINE Q == {<<a, m>>}
<1>2. Reading(Q, H)
  <2>1. \A x \in Name : functions[x] # 0 => functions'[x] = functions[x]
    OBVIOUS
  <2>2. Grows(lists, lists', Q, Len(source) + 1)
    BY <1>1
  <2> HIDE DEF Q
  <2> QED
    BY <2>1, <2>2, ReadingIs, Zenon
<1>3. source'[Len(source) + 1].kind # "fn"
  <2>1. source'[Len(source) + 1] = l
    BY SourceGrows, Zenon
  <2> QED
    BY <2>1
<1>4. TextReads /\ NodeIn(lists', Len(source) + 1) = lists'[a][m]
  <2>1. IsPlace(Q, scopes[Len(scopes)].nodes, m)
    BY DEF IsPlace
  <2> HIDE DEF Q
  <2> QED
    BY <1>2, <1>3, <2>1, PlacedHere, Zenon
<1> QED
  BY <1>1, <1>2, <1>4, Zenon

\* TextKept, for the variables.
LEMMA TextReadsHere ==
    ASSUME NEW Q, NEW H, Reading(Q, H),
           source'[Len(source) + 1].kind = "fn" =>
             /\ source'[Len(source) + 1].name \in Name
             /\ functions'[source'[Len(source) + 1].name] # 0,
           MakesNode(source'[Len(source) + 1]) =>
             \E m : IsPlace(Q, ListIn(source', lists', functions', Len(source) + 1), m)
    PROVE  TextReads
BY TextKept DEF Reading, TextReads, Follows

\* A line that adds no node and no function.
LEMMA UnplacedText ==
    ASSUME IInv, NEW l \in Lines, source' = Append(source, l), NEW H, IsRead(H),
           l.kind # "fn", ~MakesNode(l), lists' = lists, functions' = functions
    PROVE  Reading({}, H) /\ TextReads
<1>1. Grows(lists, lists', {}, Len(source) + 1)
  BY DEF Grows
<1>2. Reading({}, H)
  <2>1. \A x \in Name : functions[x] # 0 => functions'[x] = functions[x]
    OBVIOUS
  <2> QED
    BY <1>1, <2>1, ReadingIs, Zenon
<1>3. source'[Len(source) + 1] = l
  BY SourceGrows, Zenon
<1> QED
  BY <1>2, <1>3, TextReadsHere

\* The scopes after the line, for each of the four things it can do to them.
LEMMA PlainHere ==
    ASSUME NEW Q, NEW H, Reading(Q, H), TextReads, ~Opens(source'[Len(source) + 1]),
           ~Closes(source'[Len(source) + 1]), source'[Len(source) + 1].kind # "else",
           scopes' = scopes, conditionals' = conditionals
    PROVE  TextInv'
<1>1. Shape(source', scopes, H) /\ Rooms(source', lists', functions', scopes, conditionals, H)
  BY PlainLine DEF Reading
<1> QED
  BY <1>1, TextIsReadAfter DEF TextReads

LEMMA HeaderHere ==
    ASSUME NEW Q, NEW H, Reading(Q, H), TextReads, Opens(source'[Len(source) + 1]),
           NEW N \in Nat \ {0},
           Opened(source', lists', functions', Len(source), scopes, conditionals, N, scopes', conditionals')
    PROVE  TextInv'
<1>1. PICK I : /\ Shape(source', scopes', I)
               /\ Rooms(source', lists', functions', scopes', conditionals', I)
  BY HeaderLine DEF Reading
<1> QED
  BY <1>1, TextIsReadAfter DEF TextReads

LEMMA FooterHere ==
    ASSUME NEW Q, NEW H, Reading(Q, H), TextReads, Closes(source'[Len(source) + 1]),
           NEW N \in Nat \ {0}, Closed(scopes, conditionals, N, scopes', conditionals')
    PROVE  TextInv'
<1>1. Shape(source', scopes', H) /\ Rooms(source', lists', functions', scopes', conditionals', H)
  BY FooterLine DEF Reading
<1> QED
  BY <1>1, TextIsReadAfter DEF TextReads

LEMMA ElseHere ==
    ASSUME NEW Q, NEW H, Reading(Q, H), TextReads, source'[Len(source) + 1].kind = "else",
           NEW N \in Nat \ {0, 1}, Moved(scopes, conditionals, N, scopes'), conditionals' = conditionals
    PROVE  TextInv'
<1>1. Shape(source', scopes', H) /\ Rooms(source', lists', functions', scopes', conditionals, H)
  BY ElseLine DEF Reading
<1> QED
  BY <1>1, TextIsReadAfter DEF TextReads

-------------------------------------------------------------------------------
\* A statement or a return.
LEMMA PlainText ==
    ASSUME IInv, NEW l \in Lines, source' = Append(source, l), NEW H, IsRead(H),
           l.kind \in {"statement", "return"}, NEW type \in NodeType,
           Place(Node(type, 0, 0), << >>), UNCHANGED <<functions, context>>
    PROVE  TextInv'
<1>1. l.kind # "fn" /\ << >> \in Seq(Seq(NodeRecord)) /\ \A i \in 1 .. Len(<< >>) : << >>[i] = << >>
  OBVIOUS
<1>2. functions' = functions /\ 0 \in Nat
  OBVIOUS
<1>3. PICK Q : Reading(Q, H) /\ TextReads
  BY <1>1, <1>2, PlacedText, Zenon
<1>4. source'[Len(source) + 1] = l
  BY SourceGrows, Zenon
<1>5. ~Opens(l) /\ ~Closes(l) /\ l.kind # "else"
  BY DEF Opens, Closes
<1>6. scopes' = scopes /\ conditionals' = conditionals
  BY DEF context
<1> QED
  BY <1>3, <1>4, <1>5, <1>6, PlainHere, Zenon

LEMMA StatementText ==
    ASSUME IInv, NEW l \in Lines, source' = Append(source, l), NEW H, IsRead(H), handle_statement(l)
    PROVE  TextInv'
<1>1. /\ l.kind \in {"statement", "return"} /\ "statement" \in NodeType
      /\ Place(Node("statement", 0, 0), << >>) /\ UNCHANGED <<functions, context>>
  BY DEF handle_statement, NodeType
<1> QED
  BY <1>1, PlainText, Zenon

LEMMA UnknownText == ASSUME NEW l, handle_unknown(l) PROVE TextInv'
<1>1. "invalid_construct" \in Failure \cup {"crashed"}
  BY DEF Failure
<1> QED
  BY <1>1, RefusedText DEF handle_unknown

LEMMA ReasonText == ASSUME NEW l, NEW code \in Failure, Fail(Reason(l, code)) PROVE TextInv'
<1>1. Reason(l, code) \in Failure \cup {"crashed"}
  BY DEF Failure, Reason
<1> QED
  BY <1>1, RefusedText

LEMMA ReturnText ==
    ASSUME IInv, NEW l \in Lines, source' = Append(source, l), NEW H, IsRead(H), handle_return(l)
    PROVE  TextInv'
<1>1. CASE Fail("return_in_invalid_scope")
  <2>1. "return_in_invalid_scope" \in Failure \cup {"crashed"}
    BY DEF Failure
  <2> QED
    BY <1>1, <2>1, RefusedText
<1>2. CASE Fail(Reason(l, "return_expression_not_number_type"))
  <2>1. "return_expression_not_number_type" \in Failure
    BY DEF Failure
  <2> QED
    BY <1>2, <2>1, ReasonText
<1>3. CASE /\ l.kind = "return" /\ Place(Node("function_return", 0, 0), << >>)
           /\ UNCHANGED <<functions, context>>
  <2>1. l.kind \in {"statement", "return"} /\ "function_return" \in NodeType
    BY <1>3 DEF NodeType
  <2> QED
    BY <1>3, <2>1, PlainText, Zenon
<1> QED
  BY <1>1, <1>2, <1>3 DEF handle_return, Proceed

\* A scope that is pushed.
LEMMA Pushed ==
    ASSUME IInv, NEW x, x \in ScopeOf(Len(lists) + 2), scopes' = Append(scopes, x)
    PROVE  /\ Len(scopes') = Len(scopes) + 1 /\ scopes'[Len(scopes) + 1] = x
           /\ \A i \in 1 .. Len(scopes) : scopes'[i] = scopes[i]
<1>1. scopes \in Seq(ScopeOf(Len(lists))) /\ Len(lists) \in Nat
  BY StacksAre, Zenon
<1>2. ScopeOf(Len(lists)) \subseteq ScopeOf(Len(lists) + 2)
  BY <1>1 DEF ScopeOf
<1>3. scopes \in Seq(ScopeOf(Len(lists) + 2))
  BY <1>1, <1>2, SeqMonotonic
<1> QED
  BY <1>3, AppendProperties

LEMMA LoopHeaderText ==
    ASSUME IInv, NEW l \in Lines, source' = Append(source, l), NEW H, IsRead(H), handle_loop_header(l)
    PROVE  TextInv'
<1>1. CASE Fail(Reason(l, "loop_condition_not_boolean_type"))
  <2>1. "loop_condition_not_boolean_type" \in Failure
    BY DEF Failure
  <2> QED
    BY <1>1, <2>1, ReasonText
<1>2. CASE /\ l.kind = "while" /\ Place(Node("loop", NewList(1), 0), << << >> >>)
           /\ scopes' = Append(scopes, [type |-> "loop", nodes |-> NewList(1)])
           /\ conditionals' = conditionals /\ functions' = functions
  <2> DEFINE new == << << >> >>
             x == [type |-> "loop", nodes |-> NewList(1)]
             n == Len(source)
             N == Len(scopes)
  <2>1. /\ Len(lists) \in Nat /\ N \in Nat \ {0} /\ scopes \in Seq(ScopeOf(Len(lists)))
        /\ Len(conditionals) = RankOf(scopes, Len(scopes))
    BY StacksAre, Zenon
  <2>2. NewList(1) \in Nat /\ 0 \in Nat /\ "loop" \in NodeType /\ x \in ScopeOf(Len(lists) + 2)
    BY <2>1 DEF NewList, NodeType, ScopeOf, ScopeType
  <2>3. new \in Seq(Seq(NodeRecord)) /\ \A i \in 1 .. Len(new) : new[i] = << >>
    OBVIOUS
  <2>4. l.kind # "fn"
    BY <1>2
  <2>5. PICK Q : /\ Reading(Q, H) /\ TextReads
                 /\ NodeIn(lists', Len(source) + 1) = Node("loop", NewList(1), 0)
    BY <1>2, <2>2, <2>3, <2>4, PlacedText, Zenon
  <2>6. source'[n + 1] = l
    BY SourceGrows, Zenon
  <2>7. Opens(source'[n + 1])
    BY <1>2, <2>6 DEF Opens
  <2>8. /\ Len(scopes') = N + 1 /\ scopes'[N + 1] = x
        /\ \A i \in 1 .. N : scopes'[i] = scopes[i]
    BY <1>2, <2>2, Pushed, Zenon
  <2>9. NodeIn(lists', n + 1).body = NewList(1)
    BY <2>5 DEF Node
  <2>10. x.type # "conditional" /\ x.nodes = NewList(1)
    OBVIOUS
  <2> HIDE DEF x, n, N
  <2>11. Opened(source', lists', functions', n, scopes, conditionals, N, scopes', conditionals')
    BY <1>2, <2>6, <2>8, <2>9, <2>10, Zenon DEF Opened, N
  <2> QED
    BY <2>1, <2>5, <2>7, <2>11, HeaderHere, Zenon DEF n, N
<1> QED
  BY <1>1, <1>2 DEF handle_loop_header, Proceed

LEMMA ConditionalHeaderText ==
    ASSUME IInv, NEW l \in Lines, source' = Append(source, l), NEW H, IsRead(H),
           handle_conditional_header(l)
    PROVE  TextInv'
<1>1. CASE Fail(Reason(l, "conditional_construct_condition_not_boolean_type"))
  <2>1. "conditional_construct_condition_not_boolean_type" \in Failure
    BY DEF Failure
  <2> QED
    BY <1>1, <2>1, ReasonText
<1>2. CASE /\ l.kind = "if"
           /\ Place(Node("conditional_construct", NewList(1), NewList(2)), << << >>, << >> >>)
           /\ scopes' = Append(scopes, [type |-> "conditional", nodes |-> NewList(1)])
           /\ conditionals' = Append(conditionals, [body |-> NewList(1), else_body |-> NewList(2)])
           /\ functions' = functions
  <2> DEFINE new == << << >>, << >> >>
             x == [type |-> "conditional", nodes |-> NewList(1)]
             y == [body |-> NewList(1), else_body |-> NewList(2)]
             n == Len(source)
             N == Len(scopes)
             R == Len(conditionals)
  <2>1. /\ Len(lists) \in Nat /\ N \in Nat \ {0} /\ R = RankOf(scopes, N) /\ R \in Nat
        /\ conditionals \in Seq(ConditionalOf(Len(lists)))
    BY StacksAre, Zenon
  <2>2. /\ NewList(1) \in Nat /\ NewList(2) \in Nat /\ "conditional_construct" \in NodeType
        /\ x \in ScopeOf(Len(lists) + 2) /\ y \in ConditionalOf(Len(lists) + 2)
    BY <2>1 DEF NewList, NodeType, ScopeOf, ScopeType, ConditionalOf
  <2>3. new \in Seq(Seq(NodeRecord)) /\ \A i \in 1 .. Len(new) : new[i] = << >>
    OBVIOUS
  <2>4. l.kind # "fn"
    BY <1>2
  <2>5. PICK Q : /\ Reading(Q, H) /\ TextReads
                 /\ NodeIn(lists', Len(source) + 1)
                    = Node("conditional_construct", NewList(1), NewList(2))
    BY <1>2, <2>2, <2>3, <2>4, PlacedText, Zenon
  <2>6. source'[n + 1] = l
    BY SourceGrows, Zenon
  <2>7. Opens(source'[n + 1])
    BY <1>2, <2>6 DEF Opens
  <2>8. /\ Len(scopes') = N + 1 /\ scopes'[N + 1] = x
        /\ \A i \in 1 .. N : scopes'[i] = scopes[i]
    BY <1>2, <2>2, Pushed, Zenon
  <2>9. conditionals'[R + 1] = y /\ \A i \in 1 .. R : conditionals'[i] = conditionals[i]
    <3>1. ConditionalOf(Len(lists)) \subseteq ConditionalOf(Len(lists) + 2)
      BY <2>1 DEF ConditionalOf
    <3>2. conditionals \in Seq(ConditionalOf(Len(lists) + 2))
      BY <2>1, <3>1, SeqMonotonic
    <3> QED
      BY <1>2, <2>2, <3>2, AppendProperties
  <2>10. NodeIn(lists', n + 1).body = NewList(1) /\ NodeIn(lists', n + 1).else_body = NewList(2)
    BY <2>5 DEF Node
  <2>11. x.type = "conditional" /\ x.nodes = NewList(1) /\ y.else_body = NewList(2)
    OBVIOUS
  <2> HIDE DEF x, y, n, N, R
  <2>12. RankOf(scopes', N + 1) = R + 1
    <3>1. N \in Nat /\ \A i \in 1 .. N : scopes'[i].type = scopes[i].type
      BY <2>1, <2>8
    <3>2. RankOf(scopes', N) = RankOf(scopes, N)
      BY <3>1, RankAgrees
    <3>3. RankOf(scopes', N + 1) = RankOf(scopes', N) + 1
      BY <2>8, <2>11, <3>1, RankStep
    <3> QED
      BY <2>1, <3>2, <3>3
  <2>13. Opened(source', lists', functions', n, scopes, conditionals, N, scopes', conditionals')
    BY <1>2, <2>4, <2>6, <2>8, <2>9, <2>10, <2>11, <2>12, Zenon DEF Opened, N, R
  <2> QED
    BY <2>1, <2>5, <2>7, <2>13, HeaderHere, Zenon DEF n, N
<1> QED
  BY <1>1, <1>2 DEF handle_conditional_header, Proceed

\* A scope above the first one.
LEMMA NotGlobal ==
    ASSUME IInv, top.type # "global"
    PROVE  \E N \in Nat \ {0} : Len(scopes) = N + 1
<1>1. Len(scopes) \in Nat \ {0} /\ top = scopes[Len(scopes)] /\ scopes[1] = [type |-> "global", nodes |-> 1]
  BY StacksAre, Zenon
<1>2. Len(scopes) # 1
  BY <1>1
<1>3. Len(scopes) - 1 \in Nat \ {0} /\ Len(scopes) = (Len(scopes) - 1) + 1
  BY <1>1, <1>2
<1> QED
  BY <1>3

LEMMA ElseText ==
    ASSUME IInv, NEW l \in Lines, source' = Append(source, l), NEW H, IsRead(H),
           handle_conditional_else(l)
    PROVE  TextInv'
<1>1. CASE Fail("mismatched_else")
  <2>1. "mismatched_else" \in Failure \cup {"crashed"}
    BY DEF Failure
  <2> QED
    BY <1>1, <2>1, RefusedText
<1>2. CASE /\ l.kind = "else" /\ top.type = "conditional"
           /\ scopes' = [scopes EXCEPT ![Len(scopes)].nodes = conditionals[Len(conditionals)].else_body]
           /\ conditionals' = conditionals /\ lists' = lists /\ functions' = functions
  <2>1. Reading({}, H) /\ TextReads
    <3>1. l.kind # "fn" /\ ~MakesNode(l)
      BY <1>2 DEF MakesNode
    <3> QED
      BY <1>2, <3>1, UnplacedText, Zenon
  <2>2. source'[Len(source) + 1].kind = "else"
    <3>1. source'[Len(source) + 1] = l
      BY SourceGrows, Zenon
    <3> QED
      BY <1>2, <3>1
  <2> DEFINE N == Len(scopes)
             b == conditionals[Len(conditionals)].else_body
  <2>3. N \in Nat \ {0, 1}
    <3>1. PICK m \in Nat \ {0} : Len(scopes) = m + 1
      BY <1>2, NotGlobal
    <3> QED
      BY <3>1
  <2>4. scopes \in Seq(ScopeOf(Len(lists))) /\ scopes[N].type = "conditional"
    BY <1>2, StacksAre, Zenon
  <2>5. Moved(scopes, conditionals, N, scopes')
    <3>1. N \in 1 .. N
      BY <2>3
    <3>2. scopes[N] \in ScopeOf(Len(lists))
      BY <2>4, <3>1
    <3>3. scopes' = [scopes EXCEPT ![N].nodes = b]
      BY <1>2
    <3> HIDE DEF b
    <3>4. Len(scopes') = N
      BY <2>4, <3>3
    <3>5. \A i \in 1 .. N : i # N => scopes'[i] = scopes[i]
      BY <2>4, <3>3
    <3>6. scopes'[N].nodes = b /\ scopes'[N].type = scopes[N].type
      BY <2>4, <3>1, <3>2, <3>3 DEF ScopeOf
    <3>7. \A i \in 1 .. N : scopes'[i].type = scopes[i].type
      BY <3>5, <3>6
    <3> QED
      BY <2>4, <3>4, <3>5, <3>6, <3>7, Zenon DEF Moved, b
  <2> HIDE DEF N
  <2> QED
    BY <1>2, <2>1, <2>2, <2>3, <2>5, ElseHere, Zenon
<1> QED
  BY <1>1, <1>2 DEF handle_conditional_else, Proceed

\* A footer.
LEMMA PopText ==
    ASSUME IInv, NEW l \in Lines, source' = Append(source, l), NEW H, IsRead(H), Closes(l),
           top.type # "global", scopes' = Popped(scopes),
           conditionals' = IF top.type = "conditional" THEN Popped(conditionals) ELSE conditionals,
           lists' = lists, functions' = functions
    PROVE  TextInv'
<1>1. Reading({}, H) /\ TextReads
  <2>1. l.kind # "fn" /\ ~MakesNode(l)
    BY DEF MakesNode, Closes
  <2> QED
    BY <2>1, UnplacedText, Zenon
<1>2. Closes(source'[Len(source) + 1])
  <2>1. source'[Len(source) + 1] = l
    BY SourceGrows, Zenon
  <2> QED
    BY <2>1
<1>3. PICK N \in Nat \ {0} : Len(scopes) = N + 1
  BY NotGlobal
<1>4. /\ Len(scopes') = N /\ \A i \in 1 .. N : scopes'[i] = scopes[i]
  <2>1. scopes \in Seq(ScopeOf(Len(lists)))
    BY StacksAre, Zenon
  <2>2. scopes' = SubSeq(scopes, 1, N)
    BY <1>3 DEF Popped
  <2> QED
    BY <1>3, <2>1, <2>2, SubSeqProperties
<1>5. Len(conditionals') = RankOf(scopes', N) /\ \A i \in 1 .. Len(conditionals') : conditionals'[i] = conditionals[i]
  <2> DEFINE R == RankOf(scopes, N)
  <2>1. RankOf(scopes', N) = R
    <3>1. N \in Nat /\ \A i \in 1 .. N : scopes'[i].type = scopes[i].type
      BY <1>4
    <3> QED
      BY <3>1, RankAgrees
  <2>2. R \in Nat
    <3>1. RankOf(scopes, N) \in 0 .. N
      BY RankType
    <3> QED
      BY <3>1
  <2>3. /\ conditionals \in Seq(ConditionalOf(Len(lists))) /\ top = scopes[N + 1]
        /\ Len(conditionals) = RankOf(scopes, N + 1)
    BY <1>3, StacksAre, Zenon
  <2>4. RankOf(scopes, N + 1) = IF top.type = "conditional" THEN R + 1 ELSE R
    BY <2>3, RankStep
  <2> HIDE DEF R
  <2>5. CASE top.type = "conditional"
    <3>1. Len(conditionals) = R + 1 /\ Len(conditionals) - 1 = R
      BY <2>2, <2>3, <2>4, <2>5
    <3>2. conditionals' = SubSeq(conditionals, 1, R)
      BY <2>5, <3>1 DEF Popped
    <3>3. Len(conditionals') = R /\ \A i \in 1 .. R : conditionals'[i] = conditionals[i]
      BY <2>2, <2>3, <3>1, <3>2, SubSeqProperties
    <3> QED
      BY <2>1, <3>3
  <2>6. CASE top.type # "conditional"
    BY <2>1, <2>3, <2>4, <2>6
  <2> QED
    BY <2>5, <2>6
<1>6. Closed(scopes, conditionals, N, scopes', conditionals')
  BY <1>3, <1>4, <1>5, Zenon DEF Closed
<1> QED
  BY <1>1, <1>2, <1>6, FooterHere, Zenon

LEMMA ConditionalFooterText ==
    ASSUME IInv, NEW l \in Lines, source' = Append(source, l), NEW H, IsRead(H),
           handle_conditional_footer(l)
    PROVE  TextInv'
<1>1. CASE Fail("mismatched_header_footer_type")
  <2>1. "mismatched_header_footer_type" \in Failure \cup {"crashed"}
    BY DEF Failure
  <2> QED
    BY <1>1, <2>1, RefusedText
<1>2. CASE /\ l.kind = "endif" /\ top.type = "conditional"
           /\ conditionals' = Popped(conditionals) /\ scopes' = Popped(scopes)
           /\ lists' = lists /\ functions' = functions
  <2>1. Closes(l) /\ top.type # "global"
    BY <1>2 DEF Closes
  <2> QED
    BY <1>2, <2>1, PopText, Zenon
<1> QED
  BY <1>1, <1>2 DEF handle_conditional_footer, Proceed

LEMMA LoopFooterText ==
    ASSUME IInv, NEW l \in Lines, source' = Append(source, l), NEW H, IsRead(H), handle_loop_footer(l)
    PROVE  TextInv'
<1>1. CASE Fail("mismatched_header_footer_type")
  <2>1. "mismatched_header_footer_type" \in Failure \cup {"crashed"}
    BY DEF Failure
  <2> QED
    BY <1>1, <2>1, RefusedText
<1>2. CASE /\ l.kind = "endwhile" /\ top.type = "loop" /\ scopes' = Popped(scopes)
           /\ conditionals' = conditionals /\ lists' = lists /\ functions' = functions
  <2>1. Closes(l) /\ top.type # "global" /\ top.type # "conditional"
    BY <1>2 DEF Closes
  <2> QED
    BY <1>2, <2>1, PopText, Zenon
<1> QED
  BY <1>1, <1>2 DEF handle_loop_footer, Proceed

LEMMA FunctionFooterText ==
    ASSUME IInv, NEW l \in Lines, source' = Append(source, l), NEW H, IsRead(H),
           handle_function_footer(l)
    PROVE  TextInv'
<1>1. CASE \E code \in {"mismatched_endfn", "crashed", "missing_return"} : Fail(code)
  <2>1. {"mismatched_endfn", "crashed", "missing_return"} \subseteq Failure \cup {"crashed"}
    BY DEF Failure
  <2> QED
    BY <1>1, <2>1, RefusedText
<1>2. CASE /\ l.kind = "endfn" /\ top.type = "function" /\ scopes' = Popped(scopes)
           /\ conditionals' = conditionals /\ lists' = lists /\ functions' = functions
  <2>1. Closes(l) /\ top.type # "global" /\ top.type # "conditional"
    BY <1>2 DEF Closes
  <2> QED
    BY <1>2, <2>1, PopText, Zenon
<1> QED
  BY <1>1, <1>2 DEF handle_function_footer, Proceed

\* A function that is defined: its list is added with the node of the line, or with none.
LEMMA DefinedText ==
    ASSUME IInv, NEW l \in Lines, source' = Append(source, l), NEW H, IsRead(H),
           l.kind = "fn", l.name \in Name, functions[l.name] = 0,
           NEW body, Define(l.name, body),
           \/ body = << >> /\ l.value # "number"
           \/ body = <<Node("function_return", 0, 0)>>
    PROVE  /\ \E Q : Reading(Q, H) /\ TextReads
           /\ functions'[l.name] = NewList(1)
<1> DEFINE n == Len(source)
           a == Len(lists) + 1
           x == Node("function_return", 0, 0)
           Q == IF body = << >> THEN {} ELSE {<<a, 1>>}
<1>1. /\ n \in Nat /\ lists \in Seq(Seq(NodeRecord)) /\ Len(lists) \in Nat
      /\ functions \in [Name -> {0} \cup 1 .. Len(lists)]
  BY StacksAre, Zenon
<1>2. x \in NodeRecord /\ x.line = n + 1
  BY <1>1 DEF Node, NodeRecord, NodeType
<1> HIDE DEF x
<1>3. body \in Seq(NodeRecord)
  <2>1. << >> \in Seq(NodeRecord) /\ <<x>> \in Seq(NodeRecord)
    BY <1>2
  <2> QED
    BY <2>1, Zenon DEF x
<1>4. /\ Len(lists') = Len(lists) + 1 /\ \A i \in 1 .. Len(lists) : lists'[i] = lists[i]
      /\ lists'[a] = body /\ functions' = [functions EXCEPT ![l.name] = a]
  BY <1>3, DefineEffect, Zenon
<1>5. functions'[l.name] = a
  BY <1>1, <1>4
<1>6. ASSUME NEW z \in Name, functions[z] # 0 PROVE functions'[z] = functions[z]
  <2>1. z # l.name
    BY <1>6
  <2> QED
    BY <1>1, <1>4, <2>1
<1>7. \/ lists'[a] = << >> /\ Q = {}
      \/ \E y \in NodeRecord : lists'[a] = <<y>> /\ y.line = n + 1 /\ Q = {<<a, 1>>}
  <2>1. CASE body = << >>
    BY <1>4, <2>1
  <2>2. CASE body = <<x>>
    <3>1. body # << >>
      BY <2>2
    <3>2. lists'[a] = <<x>> /\ Q = {<<a, 1>>}
      BY <1>4, <2>2, <3>1
    <3> QED
      BY <1>2, <3>2
  <2> QED
    BY <2>1, <2>2 DEF x
<1>8. Q = {} \/ IsPlace(Q, a, 1)
  BY DEF IsPlace
<1>9. MakesNode(l) => IsPlace(Q, a, 1)
  <2>1. MakesNode(l) => l.value = "number"
    BY DEF MakesNode
  <2>2. body # << >> => IsPlace(Q, a, 1)
    BY DEF IsPlace
  <2>3. <<x>> # << >>
    OBVIOUS
  <2> QED
    BY <2>1, <2>2, <2>3 DEF x
<1> HIDE DEF Q
<1>10. Grows(lists, lists', Q, n + 1)
  BY <1>1, <1>4, <1>7, GrowsByList, Zenon
<1>11. Reading(Q, H)
  BY <1>6, <1>10, ReadingIs, Zenon
<1>12. source'[n + 1] = l
  BY SourceGrows, Zenon
<1>13. TextReads
  <2>1. l.name \in Name /\ functions'[l.name] # 0
    BY <1>1, <1>5
  <2>2. ListIn(source', lists', functions', n + 1) = a
    BY <1>5, <1>12 DEF ListIn
  <2> HIDE DEF a, n
  <2>3. source'[n + 1].kind = "fn" => /\ source'[n + 1].name \in Name
                                      /\ functions'[source'[n + 1].name] # 0
    BY <1>12, <2>1, Zenon
  <2>4. MakesNode(source'[n + 1]) => \E m : IsPlace(Q, ListIn(source', lists', functions', n + 1), m)
    BY <1>9, <1>12, <2>2, Zenon
  <2> QED
    BY <1>11, <2>3, <2>4, TextReadsHere, Zenon DEF n
<1>14. NewList(1) = a
  BY DEF NewList
<1> QED
  BY <1>5, <1>11, <1>13, <1>14, Zenon

LEMMA FunctionText ==
    ASSUME IInv, NEW l \in Lines, source' = Append(source, l), NEW H, IsRead(H),
           handle_function_defintion(l)
    PROVE  TextInv'
<1>0. source'[Len(source) + 1] = l
  BY SourceGrows, Zenon
<1>1. CASE \E code \in {"invalid_function_definition", "invalid_function_argument_list",
                        "duplicate_function"} : Fail(code)
  <2>1. {"invalid_function_definition", "invalid_function_argument_list",
         "duplicate_function"} \subseteq Failure \cup {"crashed"}
    BY DEF Failure
  <2> QED
    BY <1>1, <2>1, RefusedText
<1>2. CASE Fail(Reason(l, "simple_function_value_not_number_type"))
  <2>1. "simple_function_value_not_number_type" \in Failure
    BY DEF Failure
  <2> QED
    BY <1>2, <2>1, ReasonText
<1>3. CASE /\ l.kind = "fn" /\ l.name \in Name /\ functions[l.name] = 0 /\ l.value = "absent"
           /\ Define(l.name, << >>)
           /\ scopes' = Append(scopes, [type |-> "function", nodes |-> NewList(1)])
           /\ conditionals' = conditionals
  <2> DEFINE x == [type |-> "function", nodes |-> NewList(1)]
             n == Len(source)
             N == Len(scopes)
  <2>1. Len(lists) \in Nat /\ N \in Nat \ {0}
    BY StacksAre, Zenon
  <2>2. x \in ScopeOf(Len(lists) + 2)
    BY <2>1 DEF NewList, ScopeOf, ScopeType
  <2>3. \E Q : Reading(Q, H) /\ TextReads
    <3>1. l.value # "number"
      BY <1>3
    <3> QED
      BY <1>3, <3>1, DefinedText, Zenon
  <2>4. functions'[l.name] = NewList(1)
    <3>1. l.value # "number"
      BY <1>3
    <3> QED
      BY <1>3, <3>1, DefinedText, Zenon
  <2>5. Opens(source'[n + 1])
    BY <1>0, <1>3 DEF Opens
  <2>6. /\ Len(scopes') = N + 1 /\ scopes'[N + 1] = x
        /\ \A i \in 1 .. N : scopes'[i] = scopes[i]
    BY <1>3, <2>2, Pushed, Zenon
  <2>7. x.type # "conditional" /\ x.nodes = NewList(1) /\ "fn" # "if"
    OBVIOUS
  <2> HIDE DEF x, n, N
  <2>8. Opened(source', lists', functions', n, scopes, conditionals, N, scopes', conditionals')
    <3>1. source'[n + 1] = l
      BY <1>0 DEF n
    <3> QED
      BY <1>3, <2>4, <2>6, <2>7, <3>1, Zenon DEF Opened, N
  <2> QED
    BY <2>1, <2>3, <2>5, <2>8, HeaderHere, Zenon DEF n, N
<1>4. CASE /\ l.kind = "fn" /\ l.name \in Name /\ functions[l.name] = 0 /\ l.value = "number"
           /\ Define(l.name, <<Node("function_return", 0, 0)>>)
           /\ UNCHANGED context
  <2>1. PICK Q : Reading(Q, H) /\ TextReads
    BY <1>4, DefinedText, Zenon
  <2>2. ~Opens(l) /\ ~Closes(l) /\ l.kind # "else"
    BY <1>4 DEF Opens, Closes
  <2>3. scopes' = scopes /\ conditionals' = conditionals
    BY <1>4 DEF context
  <2> QED
    BY <1>0, <2>1, <2>2, <2>3, PlainHere, Zenon
<1> QED
  BY <1>1, <1>2, <1>3, <1>4 DEF handle_function_defintion, Proceed

-------------------------------------------------------------------------------
\* Whatever the kind of the line, the text is read or refused.
LEMMA LineText ==
    ASSUME IInv, NEW l \in Lines, TextInv, parse_line(l)
    PROVE  TextInv'
<1>1. source' = Append(source, l) /\ outcome = "reading"
  BY DEF parse_line
<1>2. PICK H : IsRead(H)
  BY <1>1 DEF TextInv
<1> QED
  BY <1>1, <1>2, StatementText, UnknownText, ReturnText, ConditionalHeaderText, ElseText,
     ConditionalFooterText, LoopHeaderText, LoopFooterText, FunctionText, FunctionFooterText,
     Zenon DEF parse_line

\* Before the first line there is nothing to read.
LEMMA InitText == Init => TextInv
<1> SUFFICES ASSUME Init PROVE TextInv
  OBVIOUS
<1>1. /\ source = << >> /\ Len(source) = 0 /\ lists = << << >> >> /\ Len(lists) = 1
      /\ Len(lists[1]) = 0 /\ Len(scopes) = 1
  BY DEF Init
<1>2. 1 .. Len(source) = {} /\ 2 .. Len(scopes) = {} /\ Len(scopes) - 1 = 0 /\ Len(source) + 1 = 1
      /\ 1 .. 1 - 1 = {} /\ 1 .. Len(lists[1]) = {} /\ 1 .. Len(lists) = {1}
  BY <1>1
<1>3. DepthIn(source, 1) = 0
  <2>1. /\ {j \in 1 .. 1 - 1 : Opens(source[j])} = {}
        /\ {j \in 1 .. 1 - 1 : Closes(source[j])} = {}
    BY <1>2
  <2>2. Cardinality({}) = 0
    BY FS_EmptySet
  <2> QED
    BY <2>1, <2>2 DEF DepthIn
<1>4. Positions(lists) = {}
  <2>1. ASSUME NEW p \in Positions(lists) PROVE FALSE
    <3>1. p[1] \in 1 .. Len(lists) /\ p[2] \in 1 .. Len(lists[p[1]])
      BY PositionType, Zenon
    <3>2. p[1] = 1
      BY <1>2, <3>1
    <3> QED
      BY <1>2, <3>1, <3>2, Zenon
  <2> QED
    BY <2>1
<1>5. Ordered(lists)
  BY <1>2 DEF Ordered
<1>6. Shape(source, scopes, << >>)
  BY <1>2, <1>3 DEF Shape
<1>7. Text(source, lists, functions)
  BY <1>2, <1>4, <1>5 DEF Text
<1>8. Rooms(source, lists, functions, scopes, conditionals, << >>)
  BY <1>2, Zenon DEF Rooms
<1>9. IsRead(<< >>)
  BY <1>6, <1>7, <1>8 DEF IsRead
<1> QED
  BY <1>9 DEF TextInv

\* A step keeps the text read.
LEMMA TextPreserved == IInv /\ TextInv /\ [Next]_vars => TextInv'
<1> SUFFICES ASSUME IInv, TextInv, [Next]_vars PROVE TextInv'
  OBVIOUS
<1>1. ASSUME NEW l \in Lines, parse_line(l) PROVE TextInv'
  BY <1>1, LineText
<1>2. ASSUME UNCHANGED <<source, lists, functions, context>>,
             outcome' \in {"reading", "accepted"} => outcome \in {"reading", "accepted"}
      PROVE  TextInv'
  <2>1. \A H : IsRead(H)' <=> IsRead(H)
    BY <1>2 DEF IsRead, context
  <2> QED
    BY <1>2, <2>1 DEF TextInv
<1>3. CASE finish
  BY <1>2, <1>3 DEF finish
<1>4. CASE UNCHANGED vars
  BY <1>2, <1>4 DEF vars, context
<1> QED
  BY <1>1, <1>3, <1>4 DEF Next

\* The operators of the property are those of the invariant.
LEMMA TextInvIsEnough == TextInv => AstIsText
<1> SUFFICES ASSUME outcome \in {"reading", "accepted"}, TextInv PROVE AstIsText
  BY DEF AstIsText
<1>1. Text(source, lists, functions)
  BY DEF TextInv, IsRead
<1>2. \A k : Depth(k) = DepthIn(source, k)
  BY DEF Depth, DepthIn
<1>3. \A k : Places(k) = PlacesIn(lists, k)
  BY DEF Places, PlacesIn, Positions, ListIndex
<1>4. \A k : HeaderOf(k) = HeaderIn(source, k)
  BY <1>2 DEF HeaderOf, HeaderIn, IsHeader
<1>5. \A k : InElse(k) <=> Late(source, HeaderIn(source, k), k, DepthIn(source, k))
  BY <1>2, <1>4 DEF InElse, Late
<1>6. \A k : NodeOf(k) = NodeIn(lists, k)
  BY <1>3 DEF NodeOf, NodeIn
<1>7. \A k : ListOf(k) = ListIn(source, lists, functions, k)
  BY <1>2, <1>4, <1>5, <1>6, Zenon DEF ListOf, ListIn, BodyIn
<1>8. ASSUME NEW k \in 1 .. Len(source), MakesNode(source[k])
      PROVE  \E n \in 1 .. Len(lists[ListOf(k)]) : Places(k) = {<<ListOf(k), n>>}
  <2>1. PICK n : PlacesIn(lists, k) = {<<ListOf(k), n>>}
    BY <1>1, <1>7, <1>8 DEF Text
  <2>2. <<ListOf(k), n>> \in Positions(lists)
    BY <2>1 DEF PlacesIn
  <2>3. n \in 1 .. Len(lists[ListOf(k)])
    BY <2>2, PositionType
  <2> QED
    BY <1>3, <2>1, <2>3
<1>9. \A i \in ListIndex : \A m, n \in 1 .. Len(lists[i]) :
        m < n => lists[i][m].line < lists[i][n].line
  BY <1>1 DEF Text, Ordered, ListIndex
<1> QED
  BY <1>8, <1>9 DEF AstIsText

\* Every line that makes a node has exactly one, in the body that the text puts it in, and
\* the nodes of a body are in the order of their lines.
THEOREM AstIsTheText == Spec => []AstIsText
<1>1. Init => TextInv
  BY InitText
<1>2. IInv /\ TextInv /\ [Next]_vars => TextInv'
  BY TextPreserved
<1>3. TextInv => AstIsText
  BY TextInvIsEnough
<1>4. Spec => []IInv
  BY Invariance
<1> QED
  BY <1>1, <1>2, <1>3, <1>4, PTL DEF Spec
===============================================================================
