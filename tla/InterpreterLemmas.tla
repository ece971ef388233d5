-------------------------- MODULE InterpreterLemmas --------------------------
(***************************************************************************)
(* Lemmas about the interpreter's data, for the proofs about Interpreter:  *)
(* the store (the vectors of constants and variables and the bindings of   *)
(* the scopes), what is saved at a call, and the stack of handlers.        *)
(*                                                                         *)
(* A scope owns the elements of a vector that its bindings of that kind    *)
(* are indices of. Base(sc, s, c) is how many elements of kind c the first *)
(* s scopes own: the elements of scope s come after them, so that popping  *)
(* a scope takes the end of each vector with it, whatever the order.       *)
(***************************************************************************)
EXTENDS Interpreter, FiniteSetTheorems, SequenceTheorems, WellFoundedInduction, TLAPS

ProgramNode == [type |-> "program"]
\* The sets the parts of the state belong to: a handler, a table of bindings, a scope and what a call saves.
FrameType   == [node : Node \cup {ProgramNode}, at : Label, rest : Seq(Node), values : Seq(Value),
                scoped : BOOLEAN]
TableType   == UNION { [D -> Descriptor] : D \in SUBSET Name }
ScopeType   == [inherits : BOOLEAN, table : TableType]
SavedType   == [constants : Seq(Value \cup {NoValue}), variables : Seq(Value), scopes : Seq(ScopeType)]

\* The two vectors, and the one that a binding is an index of.
Kind      == {"constant", "variable"}
KindOf(d) == IF d.is_constant THEN "constant" ELSE "variable"

\* The bindings of kind c in the first s scopes, and how many elements of the vector they own.
Bindings(sc, s, c) == { b \in (1 .. s) \X Name : /\ b[2] \in DOMAIN sc[b[1]].table
                                                 /\ KindOf(sc[b[1]].table[b[2]]) = c }
Base(sc, s, c) == Cardinality(Bindings(sc, s, c))

\* A binding of scope s lies after all elements of the scopes below and, unless the scope
\* is being popped, before those of the scopes above. No two names of a scope share it.
EntryOK(sc, settled, s, n) ==
    LET d == sc[s].table[n]
    IN  /\ Base(sc, s - 1, KindOf(d)) < d.index
        /\ s =< settled => d.index =< Base(sc, s, KindOf(d))
        /\ \A m \in DOMAIN sc[s].table : sc[s].table[m] = d => m = n

EntriesOK(sc, settled, m) == \A s \in 1 .. m : \A n \in DOMAIN sc[s].table : EntryOK(sc, settled, s, n)

\* The scopes own the two vectors, each scope a part at the end of what those below it own.
\* In the scopes above `settled`, from which elements are being erased, indices may be too large.
StoreOK(sc, cs, vs, settled) ==
    /\ sc \in Seq(ScopeType)
    /\ cs \in Seq(Value \cup {NoValue}) /\ Len(cs) = Base(sc, Len(sc), "constant")
    /\ vs \in Seq(Value) /\ Len(vs) = Base(sc, Len(sc), "variable")
    /\ \A c \in Kind : IsFiniteSet(Bindings(sc, Len(sc), c))
    /\ EntriesOK(sc, settled, Len(sc))

\* A sequence without its last element.
LEMMA FrontOf ==
    ASSUME NEW S, NEW q \in Seq(S), q # << >>
    PROVE  /\ SubSeq(q, 1, Len(q) - 1) \in Seq(S) /\ Len(q) \in Nat \ {0}
           /\ Len(SubSeq(q, 1, Len(q) - 1)) = Len(q) - 1
           /\ \A i \in 1 .. Len(q) - 1 : SubSeq(q, 1, Len(q) - 1)[i] = q[i]
<1>1. Len(q) \in Nat \ {0} /\ Len(q) - 1 \in Int /\ \A i \in 1 .. Len(q) - 1 : q[i] \in S
  OBVIOUS
<1> DEFINE n == Len(q) - 1
<1>2. /\ SubSeq(q, 1, n) \in Seq(S)
      /\ Len(SubSeq(q, 1, n)) = IF 1 =< n THEN n - 1 + 1 ELSE 0
      /\ \A i \in 1 .. n - 1 + 1 : SubSeq(q, 1, n)[i] = q[1 + i - 1]
  <2> HIDE DEF n
  <2> QED
    BY <1>1, SubSeqProperties DEF n
<1>3. n \in Nat /\ Len(q) \in Nat \ {0}
  BY <1>1
<1> HIDE DEF n
<1>4. /\ \A i \in 1 .. n : i \in 1 .. n - 1 + 1 /\ 1 + i - 1 = i
      /\ n = IF 1 =< n THEN n - 1 + 1 ELSE 0
  BY <1>3
<1>5. /\ SubSeq(q, 1, n) \in Seq(S) /\ Len(SubSeq(q, 1, n)) = n
      /\ \A i \in 1 .. n : SubSeq(q, 1, n)[i] = q[i]
  BY <1>2, <1>4
<1> QED
  BY <1>3, <1>5 DEF n

\* A finite set with one more element.
LEMMA OneMore ==
    ASSUME NEW S, IsFiniteSet(S), NEW x, x \notin S, NEW W, W = S \cup {x}
    PROVE  IsFiniteSet(W) /\ Cardinality(W) = Cardinality(S) + 1
BY FS_AddElement

\* Fewer scopes have fewer bindings.
LEMMA BindingsMonotone ==
    ASSUME NEW sc, NEW c, NEW n \in Nat, IsFiniteSet(Bindings(sc, n, c)),
           NEW t \in 0 .. n, NEW s \in 0 .. t
    PROVE  /\ Bindings(sc, s, c) \subseteq Bindings(sc, t, c)
           /\ IsFiniteSet(Bindings(sc, t, c))
           /\ Base(sc, t, c) \in Nat
           /\ Base(sc, s, c) =< Base(sc, t, c)
<1>1. Bindings(sc, s, c) \subseteq Bindings(sc, t, c) /\ Bindings(sc, t, c) \subseteq Bindings(sc, n, c)
  BY DEF Bindings
<1>2. IsFiniteSet(Bindings(sc, t, c)) /\ IsFiniteSet(Bindings(sc, s, c))
  BY <1>1, FS_Subset
<1> QED
  BY <1>1, <1>2, FS_Subset, FS_CardinalityType DEF Base

\* What scopes own depends on their tables only.
LEMMA BindingsAgree ==
    ASSUME NEW sc, NEW sd, NEW c, NEW s \in Nat, \A t \in 1 .. s : sc[t].table = sd[t].table
    PROVE  Bindings(sc, s, c) = Bindings(sd, s, c) /\ Base(sc, s, c) = Base(sd, s, c)
<1>1. Bindings(sc, s, c) = Bindings(sd, s, c)
  BY DEF Bindings
<1> QED
  BY <1>1 DEF Base

\* The parts of a scope, and of what it binds, have their types.
LEMMA ScopesTyped ==
    ASSUME NEW sc \in Seq(ScopeType), NEW s \in 1 .. Len(sc)
    PROVE  /\ sc[s] = [inherits |-> sc[s].inherits, table |-> sc[s].table]
           /\ sc[s].inherits \in BOOLEAN
           /\ DOMAIN sc[s].table \subseteq Name
           /\ sc[s].table \in [DOMAIN sc[s].table -> Descriptor]
           /\ \A n \in DOMAIN sc[s].table : /\ sc[s].table[n] \in Descriptor
                                           /\ sc[s].table[n].index \in Nat
                                           /\ KindOf(sc[s].table[n]) \in Kind
<1>1. sc[s] \in ScopeType
  OBVIOUS
<1>2. PICK D \in SUBSET Name : sc[s].table \in [D -> Descriptor]
  BY <1>1 DEF ScopeType, TableType
<1> QED
  BY <1>1, <1>2 DEF ScopeType, Descriptor, Kind, KindOf

\* A scope with a binding owns at least one element more than those below it.
LEMMA OwnBinding ==
    ASSUME NEW sc \in Seq(ScopeType), NEW s \in 1 .. Len(sc), NEW n \in DOMAIN sc[s].table,
           NEW c, KindOf(sc[s].table[n]) = c,
           NEW m \in Nat, s =< m, IsFiniteSet(Bindings(sc, m, c))
    PROVE  <<s, n>> \in Bindings(sc, s, c) /\ Base(sc, s - 1, c) + 1 =< Base(sc, s, c)
<1> DEFINE B == Bindings(sc, s - 1, c)
           W == B \cup {<<s, n>>}
<1>1. <<s, n>> \in Bindings(sc, s, c) /\ <<s, n>> \notin B
  <2>1. n \in Name
    BY ScopesTyped
  <2>2. s \in 1 .. s /\ s \notin 1 .. s - 1
    OBVIOUS
  <2> QED
    BY <2>1, <2>2 DEF Bindings
<1>2. /\ IsFiniteSet(Bindings(sc, s, c)) /\ IsFiniteSet(B) /\ B \subseteq Bindings(sc, s, c)
      /\ Cardinality(B) \in Nat
  BY BindingsMonotone DEF Base
<1>3. Cardinality(W) = Cardinality(B) + 1
  BY <1>1, <1>2, FS_AddElement
<1>4. Cardinality(W) =< Cardinality(Bindings(sc, s, c)) /\ Cardinality(Bindings(sc, s, c)) \in Nat
  BY <1>1, <1>2, FS_Subset, FS_CardinalityType
<1> QED
  BY <1>1, <1>2, <1>3, <1>4 DEF Base

\* The table of the innermost scope is replaced: nothing else changes.
LEMMA TableReplaced ==
    ASSUME NEW sc \in Seq(ScopeType) \ {<< >>}, NEW table \in TableType
    PROVE  LET L == Len(sc)
               sd == [sc EXCEPT ![L].table = table]
           IN  /\ sd \in Seq(ScopeType) \ {<< >>} /\ Len(sd) = L /\ L \in Nat \ {0}
               /\ sd[L].table = table /\ sd[L].inherits = sc[L].inherits
               /\ \A t \in 1 .. L - 1 : sd[t] = sc[t]
<1> DEFINE L == Len(sc)
           sd == [sc EXCEPT ![L].table = table]
<1>1. L \in Nat \ {0} /\ L \in 1 .. L
  OBVIOUS
<1>2. sc[L] \in ScopeType
  BY <1>1
<1>3. [sc[L] EXCEPT !.table = table] \in ScopeType
  BY <1>2 DEF ScopeType
<1>4. sd = [sc EXCEPT ![L] = [sc[L] EXCEPT !.table = table]]
  OBVIOUS
<1>5. sd \in Seq(ScopeType) /\ Len(sd) = L
  BY <1>1, <1>3, <1>4
<1>6. sd[L] = [sc[L] EXCEPT !.table = table] /\ \A t \in 1 .. L - 1 : sd[t] = sc[t]
  BY <1>1, <1>4
<1>7. sd[L].table = table /\ sd[L].inherits = sc[L].inherits
  BY <1>2, <1>6 DEF ScopeType
<1> QED
  BY <1>1, <1>5, <1>6, <1>7

\* Two stacks of scopes whose first m scopes bind the same.
SameBelow(sc, sd, m) ==
    \A s \in 0 .. m, b \in Kind : /\ Bindings(sd, s, b) = Bindings(sc, s, b)
                                     /\ Base(sd, s, b) = Base(sc, s, b)
                                     /\ Base(sc, s, b) \in Nat
                                     /\ Base(sc, s, b) =< Base(sc, Len(sc), b)

\* What is left to show when only the innermost scope has changed, been pushed or been popped.
LEMMA StoreFromLower ==
    ASSUME NEW sc, NEW cs, NEW vs, NEW u, StoreOK(sc, cs, vs, u),
           NEW sd \in Seq(ScopeType) \ {<< >>}, Len(sd) - 1 =< Len(sc), Len(sd) - 1 =< u, u \in Nat,
           \A t \in 1 .. Len(sd) - 1 : sd[t].table = sc[t].table
    PROVE  SameBelow(sc, sd, Len(sd) - 1) /\ \A v : EntriesOK(sd, v, Len(sd) - 1)
<1> DEFINE L == Len(sd)
<1>0. /\ sc \in Seq(ScopeType) /\ Len(sc) \in Nat /\ L \in Nat \ {0}
      /\ \A b \in Kind : IsFiniteSet(Bindings(sc, Len(sc), b))
  BY DEF StoreOK
<1>1. ASSUME NEW s \in 0 .. L - 1, NEW b \in Kind
      PROVE  /\ Bindings(sd, s, b) = Bindings(sc, s, b)
             /\ Base(sd, s, b) = Base(sc, s, b)
             /\ Base(sc, s, b) \in Nat
             /\ Base(sc, s, b) =< Base(sc, Len(sc), b)
  <2>1. s \in Nat /\ \A t \in 1 .. s : sd[t].table = sc[t].table
    BY <1>0
  <2>2. s \in 0 .. Len(sc) /\ Len(sc) \in 0 .. Len(sc) /\ s \in 0 .. s
    BY <1>0
  <2>3. Bindings(sd, s, b) = Bindings(sc, s, b) /\ Base(sd, s, b) = Base(sc, s, b)
    BY <2>1, BindingsAgree
  <2>4. Base(sc, s, b) \in Nat
    BY <1>0, <2>2, BindingsMonotone
  <2>5. Base(sc, s, b) =< Base(sc, Len(sc), b)
    BY <1>0, <2>2, BindingsMonotone
  <2> QED
    BY <2>3, <2>4, <2>5
<1>2. ASSUME NEW v, NEW s \in 1 .. L - 1, NEW n \in DOMAIN sd[s].table
      PROVE  EntryOK(sd, v, s, n)
  <2>1. s \in 1 .. Len(sc) /\ s =< u /\ s - 1 \in 0 .. L - 1 /\ s \in 0 .. L - 1
    BY <1>0
  <2>2. sd[s].table = sc[s].table /\ EntryOK(sc, u, s, n)
    BY <2>1 DEF StoreOK, EntriesOK
  <2>3. KindOf(sc[s].table[n]) \in Kind
    BY <1>0, <2>1, <2>2, ScopesTyped
  <2> QED
    BY <1>1, <2>1, <2>2, <2>3 DEF EntryOK
<1> QED
  BY <1>1, <1>2 DEF SameBelow, EntriesOK

\* The innermost scope of sc gets a binding of a name that it did not have.
BindsNext(sc, name, d, sd) ==
    LET L == Len(sc)
        T == sc[L].table
        U == sd[L].table
    IN  /\ sd \in Seq(ScopeType) \ {<< >>} /\ Len(sd) = L
        /\ \A t \in 1 .. L - 1 : sd[t] = sc[t]
        /\ sd[L].inherits = sc[L].inherits
        /\ name \notin DOMAIN T
        /\ DOMAIN U = DOMAIN T \cup {name} /\ U[name] = d
        /\ \A n \in DOMAIN T : U[n] = T[n]

\* One of the vectors grows by one element.
Extended(cs, vs, c, cd, vd) ==
    /\ cd \in Seq(Value \cup {NoValue}) /\ \A i \in 1 .. Len(cs) : cd[i] = cs[i]
    /\ vd \in Seq(Value) /\ \A i \in 1 .. Len(vs) : vd[i] = vs[i]
    /\ c = "constant" => Len(cd) = Len(cs) + 1 /\ Len(vd) = Len(vs)
    /\ c = "variable" => Len(cd) = Len(cs) /\ Len(vd) = Len(vs) + 1

\* A name that the innermost scope does not have is bound to the next index.
LEMMA BindKeepsStore ==
    ASSUME NEW sc \in Seq(ScopeType) \ {<< >>}, NEW cs, NEW vs, StoreOK(sc, cs, vs, Len(sc)),
           NEW name \in Name, NEW d \in Descriptor, d.index = Base(sc, Len(sc), KindOf(d)) + 1,
           NEW cd, NEW vd, Extended(cs, vs, KindOf(d), cd, vd),
           NEW sd, BindsNext(sc, name, d, sd)
    PROVE  StoreOK(sd, cd, vd, Len(sc))
<1> SUFFICES ASSUME NEW L, L = Len(sc) PROVE StoreOK(sd, cd, vd, L)
  OBVIOUS
<1> SUFFICES ASSUME NEW T, T = sc[L].table PROVE StoreOK(sd, cd, vd, L)
  OBVIOUS
<1> SUFFICES ASSUME NEW U, U = sd[L].table PROVE StoreOK(sd, cd, vd, L)
  OBVIOUS
<1> SUFFICES ASSUME NEW c, c = KindOf(d) PROVE StoreOK(sd, cd, vd, L)
  OBVIOUS
<1> /\ StoreOK(sc, cs, vs, L)
    /\ sd \in Seq(ScopeType) \ {<< >>} /\ Len(sd) = L /\ sd[L].table = U
    /\ \A t \in 1 .. L - 1 : sd[t].table = sc[t].table
    /\ name \notin DOMAIN T
    /\ DOMAIN U = DOMAIN T \cup {name} /\ U[name] = d /\ \A n \in DOMAIN T : U[n] = T[n]
  BY DEF BindsNext
<1> c \in Kind /\ KindOf(d) = c /\ d.index = Base(sc, L, c) + 1
  BY DEF Kind, KindOf
<1> /\ cd \in Seq(Value \cup {NoValue}) /\ vd \in Seq(Value)
    /\ c = "constant" => Len(cd) = Len(cs) + 1 /\ Len(vd) = Len(vs)
    /\ c = "variable" => Len(cd) = Len(cs) /\ Len(vd) = Len(vs) + 1
  BY DEF Extended
<1>0. /\ L \in Nat \ {0} /\ L \in 1 .. L /\ L - 1 \in 0 .. L - 1
      /\ Len(cs) = Base(sc, L, "constant") /\ Len(vs) = Base(sc, L, "variable")
      /\ \A b \in Kind : IsFiniteSet(Bindings(sc, L, b)) /\ Base(sc, L, b) \in Nat
  BY FS_CardinalityType DEF StoreOK, Base
<1>2. /\ DOMAIN T \subseteq Name
      /\ \A n \in DOMAIN T : /\ n # name /\ n \in DOMAIN U /\ T[n] = U[n]
                             /\ KindOf(T[n]) \in Kind /\ T[n].index \in Nat
      /\ name \in DOMAIN U
  BY <1>0, ScopesTyped
<1>3. d.index \in Nat
  BY DEF Descriptor
<1>5. /\ \A b \in Kind : /\ Base(sd, L - 1, b) = Base(sc, L - 1, b)
                            /\ Base(sc, L - 1, b) \in Nat
                            /\ Base(sc, L - 1, b) =< Base(sc, L, b)
      /\ \A s \in 1 .. L - 1 : \A n \in DOMAIN sd[s].table : EntryOK(sd, L, s, n)
  <2>1. /\ Len(sd) - 1 =< Len(sc) /\ Len(sd) - 1 =< Len(sc) /\ Len(sc) \in Nat
        /\ \A t \in 1 .. Len(sd) - 1 : sd[t].table = sc[t].table
        /\ StoreOK(sc, cs, vs, Len(sc))
    BY <1>0
  <2>2. SameBelow(sc, sd, Len(sd) - 1) /\ EntriesOK(sd, L, Len(sd) - 1)
    BY <2>1, StoreFromLower
  <2> QED
    BY <1>0, <2>2 DEF SameBelow, EntriesOK
<1>6. \A b \in Kind : Bindings(sd, L, b) = IF b = c THEN Bindings(sc, L, c) \cup {<<L, name>>}
                                                        ELSE Bindings(sc, L, b)
  <2>1. \A t \in 1 .. L : t = L \/ t \in 1 .. L - 1
    BY <1>0
  <2>2. ASSUME NEW b \in Kind, b = c, NEW t \in 1 .. L, NEW n \in Name
        PROVE  (n \in DOMAIN sd[t].table /\ KindOf(sd[t].table[n]) = b)
                 <=> \/ n \in DOMAIN sc[t].table /\ KindOf(sc[t].table[n]) = b
                     \/ t = L /\ n = name
    BY <1>2, <2>1, <2>2
  <2>3. ASSUME NEW b \in Kind, b # c, NEW t \in 1 .. L, NEW n \in Name
        PROVE  (n \in DOMAIN sd[t].table /\ KindOf(sd[t].table[n]) = b)
                 <=> n \in DOMAIN sc[t].table /\ KindOf(sc[t].table[n]) = b
    BY <1>2, <2>1, <2>3
  <2>4. ASSUME NEW b \in Kind, b = c
        PROVE  Bindings(sd, L, b) = Bindings(sc, L, b) \cup {<<L, name>>}
    <3>1. <<L, name>> \in (1 .. L) \X Name
      BY <1>0
    <3>2. \A x \in (1 .. L) \X Name : /\ x[1] \in 1 .. L /\ x[2] \in Name
                                      /\ x = <<L, name>> <=> x[1] = L /\ x[2] = name
      OBVIOUS
    <3>3. ASSUME NEW x \in (1 .. L) \X Name
          PROVE  x \in Bindings(sd, L, b) <=> x \in Bindings(sc, L, b) \/ x = <<L, name>>
      BY <2>2, <2>4, <3>2 DEF Bindings
    <3>4. /\ Bindings(sd, L, b) \subseteq (1 .. L) \X Name
          /\ Bindings(sc, L, b) \subseteq (1 .. L) \X Name
      BY DEF Bindings
    <3> QED
      BY <3>1, <3>3, <3>4
  <2>5. ASSUME NEW b \in Kind, b # c
        PROVE  Bindings(sd, L, b) = Bindings(sc, L, b)
    <3>1. \A x \in (1 .. L) \X Name : x[1] \in 1 .. L /\ x[2] \in Name
      OBVIOUS
    <3>2. ASSUME NEW x \in (1 .. L) \X Name
          PROVE  x \in Bindings(sd, L, b) <=> x \in Bindings(sc, L, b)
      BY <2>3, <2>5, <3>1 DEF Bindings
    <3>3. /\ Bindings(sd, L, b) \subseteq (1 .. L) \X Name
          /\ Bindings(sc, L, b) \subseteq (1 .. L) \X Name
      BY DEF Bindings
    <3> QED
      BY <3>2, <3>3
  <2> QED
    BY <2>4, <2>5
<1>7. <<L, name>> \notin Bindings(sc, L, c)
  BY DEF Bindings
<1>8. \A b \in Kind : /\ IsFiniteSet(Bindings(sd, L, b))
                         /\ Base(sd, L, b) = IF b = c THEN Base(sc, L, b) + 1 ELSE Base(sc, L, b)
  <2>1. ASSUME NEW b \in Kind, b = c
        PROVE  IsFiniteSet(Bindings(sd, L, b)) /\ Base(sd, L, b) = Base(sc, L, b) + 1
    <3>1. Bindings(sd, L, b) = Bindings(sc, L, b) \cup {<<L, name>>}
      BY <1>6, <2>1
    <3>2. IsFiniteSet(Bindings(sc, L, b)) /\ <<L, name>> \notin Bindings(sc, L, b)
      BY <1>0, <1>7, <2>1
    <3> QED
      BY <3>1, <3>2, OneMore DEF Base
  <2>2. ASSUME NEW b \in Kind, b # c
        PROVE  IsFiniteSet(Bindings(sd, L, b)) /\ Base(sd, L, b) = Base(sc, L, b)
    BY <1>0, <1>6, <2>2 DEF Base
  <2> QED
    BY <2>1, <2>2
<1>9. Len(cd) = Base(sd, L, "constant") /\ Len(vd) = Base(sd, L, "variable")
  BY <1>0, <1>8 DEF Kind
<1>10. ASSUME NEW n \in DOMAIN U
       PROVE  EntryOK(sd, L, L, n)
  <2>1. \A m \in DOMAIN T : EntryOK(sc, L, L, m)
    BY <1>0 DEF StoreOK, EntriesOK
  <2>2. \A m \in DOMAIN T : /\ Base(sc, L - 1, KindOf(T[m])) < T[m].index
                            /\ T[m].index =< Base(sc, L, KindOf(T[m]))
                            /\ \A k \in DOMAIN T : T[k] = T[m] => k = m
    BY <1>0, <2>1 DEF EntryOK
  <2>3. \A m \in DOMAIN T : T[m] # d
    BY <1>0, <1>2, <2>2
  <2>4. \A k \in DOMAIN U : U[k] = U[n] => k = n
    BY <1>2, <2>2, <2>3
  <2>5. CASE n = name
    <3>1. Base(sd, L - 1, c) < d.index /\ d.index =< Base(sd, L, c)
      BY <1>0, <1>3, <1>5, <1>8
    <3> QED
      BY <2>4, <2>5, <3>1 DEF EntryOK
  <2>6. CASE n # name
    <3>1. n \in DOMAIN T /\ U[n] = T[n]
      BY <2>6
    <3>2. /\ Base(sd, L - 1, KindOf(T[n])) < T[n].index
          /\ T[n].index =< Base(sd, L, KindOf(T[n]))
      <4>1. /\ KindOf(T[n]) \in Kind /\ T[n].index \in Nat
            /\ Base(sc, L - 1, KindOf(T[n])) < T[n].index
            /\ T[n].index =< Base(sc, L, KindOf(T[n]))
        BY <1>2, <2>2, <3>1
      <4>2. /\ Base(sd, L - 1, KindOf(T[n])) = Base(sc, L - 1, KindOf(T[n]))
            /\ Base(sd, L, KindOf(T[n])) = Base(sc, L, KindOf(T[n])) + 1
                 \/ Base(sd, L, KindOf(T[n])) = Base(sc, L, KindOf(T[n]))
            /\ Base(sc, L, KindOf(T[n])) \in Nat
        BY <1>0, <1>5, <1>8, <4>1
      <4> QED
        BY <4>1, <4>2
    <3> QED
      BY <2>4, <3>1, <3>2 DEF EntryOK
  <2> QED
    BY <2>5, <2>6
<1>11. \A s \in 1 .. L : s = L \/ s \in 1 .. L - 1
  BY <1>0
<1>12. \A s \in 1 .. L : \A n \in DOMAIN sd[s].table : EntryOK(sd, L, s, n)
  BY <1>5, <1>10, <1>11
<1>13. StoreOK(sd, cd, vd, L)
  BY <1>8, <1>9, <1>12 DEF StoreOK, EntriesOK
<1> QED
  BY <1>13

Elements(q) == { q[k] : k \in 1 .. Len(q) }
Tagged(s, q) == { <<s, n>> : n \in Elements(q) }
Distinct(q) == \A j, k \in 1 .. Len(q) : q[j] = q[k] => j = k

Numbered(U, q, base, c) == \A k \in 1 .. Len(q) : U[q[k]].index = base + k /\ KindOf(U[q[k]]) = c

\* Each of the distinct names of a new scope is one more binding.
LEMMA TaggedElements ==
    ASSUME NEW q \in Seq(Name), Distinct(q), NEW s, NEW B, IsFiniteSet(B),
           B \cap Tagged(s, q) = {}
    PROVE  /\ IsFiniteSet(B \cup Tagged(s, q))
           /\ Cardinality(B \cup Tagged(s, q)) = Cardinality(B) + Len(q)
<1> DEFINE N == 1 .. Len(q)
           I == Tagged(s, q)
           f == [k \in N |-> <<s, q[k]>>]
<1>1. Len(q) \in Nat
  OBVIOUS
<1>2. f \in Bijection(N, I)
  <2>1. f \in [N -> I]
    BY DEF Elements, Tagged
  <2>2. \A j, k \in N : f[j] = f[k] => j = k
    BY DEF Distinct
  <2>3. \A i \in I : \E k \in N : f[k] = i
    BY DEF Elements, Tagged
  <2> HIDE DEF f, N, I
  <2>4. f \in Injection(N, I)
    BY <2>1, <2>2 DEF Injection, IsInjective
  <2>5. f \in Surjection(N, I)
    BY <2>1, <2>3, Zenon DEF Surjection
  <2> QED
    BY <2>4, <2>5 DEF Bijection
<1>3. IsFiniteSet(N) /\ Cardinality(N) = Len(q)
  <2>1. Len(q) \in Int /\ 1 \in Int
    BY <1>1
  <2> HIDE DEF N
  <2>2. IsFiniteSet(1 .. Len(q)) /\ Cardinality(1 .. Len(q)) = IF 1 > Len(q) THEN 0 ELSE Len(q) - 1 + 1
    BY <2>1, FS_Interval
  <2> QED
    BY <1>1, <2>2 DEF N
<1> HIDE DEF I, N, f
<1>4. IsFiniteSet(I) /\ Cardinality(I) = Len(q)
  BY <1>2, <1>3, FS_Bijection DEF ExistsBijection
<1>5. B \cap I = {}
  BY DEF I
<1>6. IsFiniteSet(B \cup I) /\ Cardinality(B \cup I) = Cardinality(B) + Cardinality(I) - Cardinality({})
  BY <1>4, <1>5, FS_Union
<1>7. Cardinality({}) = 0 /\ Cardinality(B) \in Nat
  BY FS_EmptySet, FS_CardinalityType
<1> QED
  BY <1>1, <1>4, <1>6, <1>7 DEF I

\* Numbered entries lie within the part of the vector they are numbered through, each in its own place.
LEMMA NumberedEntries ==
    ASSUME NEW U, NEW q \in Seq(Name), Distinct(q), NEW base \in Nat, NEW c, Numbered(U, q, base, c),
           NEW n \in Elements(q)
    PROVE  /\ KindOf(U[n]) = c /\ U[n].index \in Nat
           /\ base < U[n].index /\ U[n].index =< base + Len(q)
           /\ \A m \in Elements(q) : U[m] = U[n] => m = n
<1>1. PICK k \in 1 .. Len(q) : n = q[k]
  BY DEF Elements
<1>2. KindOf(U[n]) = c /\ U[n].index = base + k
  BY <1>1 DEF Numbered
<1>3. ASSUME NEW m \in Elements(q), U[m] = U[n] PROVE m = n
  <2>1. PICK j \in 1 .. Len(q) : m = q[j]
    BY DEF Elements
  <2>2. U[m].index = base + j
    BY <2>1 DEF Numbered
  <2>3. j = k
    BY <1>2, <1>3, <2>2
  <2> QED
    BY <1>1, <2>1, <2>3
<1> QED
  BY <1>2, <1>3

\* A scope is pushed in which the names of a are the next constants and those of o the next variables.
Pushed(sc, cs, vs, a, o, sd) ==
    LET L == Len(sc)
        U == sd[L + 1].table
    IN  /\ sd \in Seq(ScopeType) /\ Len(sd) = L + 1
        /\ \A t \in 1 .. L : sd[t] = sc[t]
        /\ DOMAIN U = Elements(a) \cup Elements(o)
        /\ Numbered(U, a, Len(cs), "constant")
        /\ Numbered(U, o, Len(vs), "variable")

\* A scope is pushed with an element at the end of a vector for each of its names.
LEMMA NewScopeKeepsStore ==
    ASSUME NEW sc, NEW cs, NEW vs, StoreOK(sc, cs, vs, Len(sc)),
           NEW a \in Seq(Name), NEW o \in Seq(Name), Distinct(a), Distinct(o),
           Elements(a) \cap Elements(o) = {},
           NEW cd \in Seq(Value \cup {NoValue}), NEW vd \in Seq(Value),
           Len(cd) = Len(cs) + Len(a), Len(vd) = Len(vs) + Len(o),
           NEW sd, Pushed(sc, cs, vs, a, o, sd)
    PROVE  StoreOK(sd, cd, vd, Len(sd))
<1> SUFFICES ASSUME NEW L, L = Len(sc) PROVE StoreOK(sd, cd, vd, Len(sd))
  OBVIOUS
<1> SUFFICES ASSUME NEW U, U = sd[L + 1].table PROVE StoreOK(sd, cd, vd, Len(sd))
  OBVIOUS
<1> /\ StoreOK(sc, cs, vs, L)
    /\ sd \in Seq(ScopeType) /\ Len(sd) = L + 1 /\ sd[L + 1].table = U
    /\ \A t \in 1 .. L : sd[t].table = sc[t].table
    /\ DOMAIN U = Elements(a) \cup Elements(o)
    /\ Numbered(U, a, Len(cs), "constant") /\ Numbered(U, o, Len(vs), "variable")
  BY DEF Pushed
<1>0. /\ L \in Nat /\ Len(a) \in Nat /\ Len(o) \in Nat /\ Len(cs) \in Nat /\ Len(vs) \in Nat
      /\ L + 1 \in 1 .. L + 1 /\ L \in 0 .. L
  <2>1. sc \in Seq(ScopeType) /\ cs \in Seq(Value \cup {NoValue}) /\ vs \in Seq(Value)
    BY DEF StoreOK
  <2>2. L \in Nat /\ Len(a) \in Nat /\ Len(o) \in Nat /\ Len(cs) \in Nat /\ Len(vs) \in Nat
    BY <2>1
  <2> QED
    BY <2>2
<1>1. /\ Len(cs) = Base(sc, L, "constant") /\ Len(vs) = Base(sc, L, "variable")
      /\ IsFiniteSet(Bindings(sc, L, "constant")) /\ IsFiniteSet(Bindings(sc, L, "variable"))
  BY DEF StoreOK, Kind
<1>2. SameBelow(sc, sd, L) /\ EntriesOK(sd, L + 1, L)
  <2>1. /\ sd \in Seq(ScopeType) \ {<< >>}
        /\ Len(sd) - 1 =< Len(sc) /\ Len(sd) - 1 =< Len(sc) /\ Len(sc) \in Nat /\ Len(sd) - 1 = L
        /\ \A t \in 1 .. Len(sd) - 1 : sd[t].table = sc[t].table
        /\ StoreOK(sc, cs, vs, Len(sc))
    BY <1>0
  <2>2. SameBelow(sc, sd, Len(sd) - 1) /\ EntriesOK(sd, L + 1, Len(sd) - 1)
    BY <2>1, StoreFromLower
  <2> QED
    BY <2>1, <2>2
<1>3. /\ \A n \in Elements(a) : KindOf(U[n]) = "constant"
      /\ \A n \in Elements(o) : KindOf(U[n]) = "variable"
  BY <1>0, NumberedEntries
<1>4. Elements(a) \subseteq Name /\ Elements(o) \subseteq Name
  BY DEF Elements
<1>5. \A t \in 1 .. L + 1 : t = L + 1 \/ t \in 1 .. L
  BY <1>0
<1>6. /\ Bindings(sd, L + 1, "constant") = Bindings(sc, L, "constant") \cup Tagged(L + 1, a)
      /\ Bindings(sc, L, "constant") \cap Tagged(L + 1, a) = {}
  BY <1>0, <1>3, <1>4, <1>5 DEF Bindings, Tagged
<1>7. /\ Bindings(sd, L + 1, "variable") = Bindings(sc, L, "variable") \cup Tagged(L + 1, o)
      /\ Bindings(sc, L, "variable") \cap Tagged(L + 1, o) = {}
  BY <1>0, <1>3, <1>4, <1>5 DEF Bindings, Tagged
<1>8. IsFiniteSet(Bindings(sd, L + 1, "constant")) /\ Base(sd, L + 1, "constant") = Len(cs) + Len(a)
  <2>1. /\ IsFiniteSet(Bindings(sc, L, "constant") \cup Tagged(L + 1, a))
        /\ Cardinality(Bindings(sc, L, "constant") \cup Tagged(L + 1, a))
             = Cardinality(Bindings(sc, L, "constant")) + Len(a)
    BY <1>1, <1>6, TaggedElements
  <2> QED
    BY <1>1, <1>6, <2>1 DEF Base
<1>9. IsFiniteSet(Bindings(sd, L + 1, "variable")) /\ Base(sd, L + 1, "variable") = Len(vs) + Len(o)
  <2>1. /\ IsFiniteSet(Bindings(sc, L, "variable") \cup Tagged(L + 1, o))
        /\ Cardinality(Bindings(sc, L, "variable") \cup Tagged(L + 1, o))
             = Cardinality(Bindings(sc, L, "variable")) + Len(o)
    BY <1>1, <1>7, TaggedElements
  <2> QED
    BY <1>1, <1>7, <2>1 DEF Base
<1>10. Base(sd, L, "constant") = Len(cs) /\ Base(sd, L, "variable") = Len(vs)
  BY <1>0, <1>1, <1>2 DEF SameBelow, Kind
<1>11. ASSUME NEW n \in DOMAIN U
       PROVE  EntryOK(sd, L + 1, L + 1, n)
  <2>1. L + 1 - 1 = L
    BY <1>0
  <2>2. CASE n \in Elements(a)
    <3>1. /\ KindOf(U[n]) = "constant"
          /\ Base(sd, L, "constant") < U[n].index /\ U[n].index =< Base(sd, L + 1, "constant")
          /\ \A m \in Elements(a) : U[m] = U[n] => m = n
      BY <1>0, <1>8, <1>10, <2>2, NumberedEntries
    <3>2. \A m \in DOMAIN U : U[m] = U[n] => m = n
      BY <1>3, <3>1
    <3> QED
      BY <2>1, <3>1, <3>2 DEF EntryOK
  <2>3. CASE n \in Elements(o)
    <3>1. /\ KindOf(U[n]) = "variable"
          /\ Base(sd, L, "variable") < U[n].index /\ U[n].index =< Base(sd, L + 1, "variable")
          /\ \A m \in Elements(o) : U[m] = U[n] => m = n
      BY <1>0, <1>9, <1>10, <2>3, NumberedEntries
    <3>2. \A m \in DOMAIN U : U[m] = U[n] => m = n
      BY <1>3, <3>1
    <3> QED
      BY <2>1, <3>1, <3>2 DEF EntryOK
  <2> QED
    BY <2>2, <2>3
<1>12. EntriesOK(sd, L + 1, L + 1)
  BY <1>2, <1>5, <1>11 DEF EntriesOK
<1>13. \A b \in Kind : IsFiniteSet(Bindings(sd, L + 1, b))
  BY <1>8, <1>9 DEF Kind
<1>14. StoreOK(sd, cd, vd, L + 1)
  BY <1>8, <1>9, <1>12, <1>13 DEF StoreOK
<1> QED
  BY <1>14

\* Two vectors agree on what the first m scopes own.
AgreeBelow(sc, cs, vs, cd, vd, m) ==
    /\ \A i \in 1 .. Base(sc, m, "constant") : cd[i] = cs[i]
    /\ \A i \in 1 .. Base(sc, m, "variable") : vd[i] = vs[i]

\* The innermost scope loses a binding.
Unbinds(sc, name, sd) ==
    LET L == Len(sc)
        T == sc[L].table
        U == sd[L].table
    IN  /\ sd \in Seq(ScopeType) \ {<< >>} /\ Len(sd) = L
        /\ \A t \in 1 .. L - 1 : sd[t] = sc[t]
        /\ sd[L].inherits = sc[L].inherits
        /\ name \in DOMAIN T
        /\ DOMAIN U = DOMAIN T \ {name}
        /\ \A n \in DOMAIN U : U[n] = T[n]

\* One of the vectors loses an element that is not below d's.
Shrunk(cs, vs, d, cd, vd) ==
    /\ cd \in Seq(Value \cup {NoValue}) /\ vd \in Seq(Value)
    /\ KindOf(d) = "constant" => /\ Len(cd) = Len(cs) - 1 /\ vd = vs
                                 /\ \A i \in 1 .. Len(cs) - 1 : i < d.index => cd[i] = cs[i]
    /\ KindOf(d) = "variable" => /\ cd = cs /\ Len(vd) = Len(vs) - 1
                                 /\ \A i \in 1 .. Len(vs) - 1 : i < d.index => vd[i] = vs[i]

\* An entry of the innermost scope is erased: its vector loses one element above the other scopes'.
LEMMA EraseKeepsStore ==
    ASSUME NEW sc \in Seq(ScopeType) \ {<< >>}, NEW cs, NEW vs, StoreOK(sc, cs, vs, Len(sc) - 1),
           NEW name, NEW sd, Unbinds(sc, name, sd),
           NEW cd, NEW vd, Shrunk(cs, vs, sc[Len(sc)].table[name], cd, vd)
    PROVE  StoreOK(sd, cd, vd, Len(sc) - 1) /\ AgreeBelow(sc, cs, vs, cd, vd, Len(sc) - 1)
<1> DEFINE Goal(m) == StoreOK(sd, cd, vd, m) /\ AgreeBelow(sc, cs, vs, cd, vd, m)
<1> SUFFICES ASSUME NEW L, L = Len(sc) PROVE Goal(L - 1)
  OBVIOUS
<1> SUFFICES ASSUME NEW T, T = sc[L].table PROVE Goal(L - 1)
  OBVIOUS
<1> SUFFICES ASSUME NEW U, U = sd[L].table PROVE Goal(L - 1)
  OBVIOUS
<1> SUFFICES ASSUME NEW c, c = KindOf(T[name]) PROVE Goal(L - 1)
  OBVIOUS
<1> /\ StoreOK(sc, cs, vs, L - 1)
    /\ sd \in Seq(ScopeType) \ {<< >>} /\ Len(sd) = L /\ sd[L].table = U
    /\ \A t \in 1 .. L - 1 : sd[t].table = sc[t].table
    /\ name \in DOMAIN T /\ DOMAIN U = DOMAIN T \ {name} /\ \A n \in DOMAIN U : U[n] = T[n]
  BY DEF Unbinds
<1> c \in Kind /\ KindOf(T[name]) = c
  BY DEF Kind, KindOf
<1> /\ cd \in Seq(Value \cup {NoValue}) /\ vd \in Seq(Value)
    /\ c = "constant" => /\ Len(cd) = Len(cs) - 1 /\ vd = vs
                         /\ \A i \in 1 .. Len(cs) - 1 : i < T[name].index => cd[i] = cs[i]
    /\ c = "variable" => /\ cd = cs /\ Len(vd) = Len(vs) - 1
                         /\ \A i \in 1 .. Len(vs) - 1 : i < T[name].index => vd[i] = vs[i]
  BY DEF Shrunk
<1>0. /\ L \in Nat \ {0} /\ L \in 1 .. L /\ L - 1 \in 0 .. L - 1
      /\ Len(cs) = Base(sc, L, "constant") /\ Len(vs) = Base(sc, L, "variable")
      /\ \A b \in Kind : IsFiniteSet(Bindings(sc, L, b)) /\ Base(sc, L, b) \in Nat
  BY FS_CardinalityType DEF StoreOK, Base
<1>1. SameBelow(sc, sd, L - 1) /\ EntriesOK(sd, L - 1, L - 1)
  <2>1. /\ Len(sd) - 1 =< Len(sc) /\ Len(sd) - 1 =< L - 1 /\ L - 1 \in Nat /\ Len(sd) - 1 = L - 1
        /\ \A t \in 1 .. Len(sd) - 1 : sd[t].table = sc[t].table
    BY <1>0
  <2>2. SameBelow(sc, sd, Len(sd) - 1) /\ EntriesOK(sd, L - 1, Len(sd) - 1)
    BY <2>1, StoreFromLower
  <2> QED
    BY <2>1, <2>2
<1>2. /\ DOMAIN T \subseteq Name
      /\ \A n \in DOMAIN U : n # name /\ n \in DOMAIN T
      /\ \A n \in DOMAIN T : KindOf(T[n]) \in Kind /\ T[n].index \in Nat
  BY <1>0, ScopesTyped
<1>3. /\ \A b \in Kind : b # c => Bindings(sd, L, b) = Bindings(sc, L, b)
      /\ Bindings(sd, L, c) = Bindings(sc, L, c) \ {<<L, name>>}
  <2>1. \A t \in 1 .. L : t = L \/ t \in 1 .. L - 1
    BY <1>0
  <2>2. ASSUME NEW t \in 1 .. L, NEW n \in Name
        PROVE  (n \in DOMAIN sd[t].table /\ KindOf(sd[t].table[n]) = c)
                 <=> n \in DOMAIN sc[t].table /\ KindOf(sc[t].table[n]) = c /\ ~(t = L /\ n = name)
    BY <1>2, <2>1
  <2>3. ASSUME NEW b \in Kind, b # c, NEW t \in 1 .. L, NEW n \in Name
        PROVE  (n \in DOMAIN sd[t].table /\ KindOf(sd[t].table[n]) = b)
                 <=> n \in DOMAIN sc[t].table /\ KindOf(sc[t].table[n]) = b
    BY <1>2, <2>1, <2>3
  <2>4. Bindings(sd, L, c) = Bindings(sc, L, c) \ {<<L, name>>}
    <3>1. \A x \in (1 .. L) \X Name : x = <<L, name>> <=> x[1] = L /\ x[2] = name
      OBVIOUS
    <3>2. \A x \in (1 .. L) \X Name : x[1] \in 1 .. L /\ x[2] \in Name
      OBVIOUS
    <3>3. ASSUME NEW x \in (1 .. L) \X Name
          PROVE  (x[2] \in DOMAIN sd[x[1]].table /\ KindOf(sd[x[1]].table[x[2]]) = c)
                   <=> x[2] \in DOMAIN sc[x[1]].table /\ KindOf(sc[x[1]].table[x[2]]) = c /\ x # <<L, name>>
      BY <2>2, <3>1, <3>2
    <3> QED
      BY <3>3 DEF Bindings
  <2>5. ASSUME NEW b \in Kind, b # c
        PROVE  Bindings(sd, L, b) = Bindings(sc, L, b)
    BY <2>3, <2>5 DEF Bindings
  <2> QED
    BY <2>4, <2>5
<1>4. <<L, name>> \in Bindings(sc, L, c) /\ Base(sc, L - 1, c) + 1 =< Base(sc, L, c)
  <2>1. /\ L \in 1 .. Len(sc) /\ name \in DOMAIN sc[L].table /\ KindOf(sc[L].table[name]) = c
        /\ L \in Nat /\ L =< L /\ IsFiniteSet(Bindings(sc, L, c))
    BY <1>0
  <2> QED
    BY <2>1, OwnBinding
<1>5. IsFiniteSet(Bindings(sd, L, c)) /\ Base(sd, L, c) = Base(sc, L, c) - 1
  <2>1. /\ IsFiniteSet(Bindings(sc, L, c) \ {<<L, name>>})
        /\ Cardinality(Bindings(sc, L, c) \ {<<L, name>>}) = Cardinality(Bindings(sc, L, c)) - 1
    BY <1>0, <1>4, FS_RemoveElement
  <2> QED
    BY <1>3, <2>1 DEF Base
<1>6. \A b \in Kind : b # c => IsFiniteSet(Bindings(sd, L, b)) /\ Base(sd, L, b) = Base(sc, L, b)
  BY <1>0, <1>3 DEF Base
<1>7. Len(cd) = Base(sd, L, "constant") /\ Len(vd) = Base(sd, L, "variable")
  BY <1>0, <1>5, <1>6 DEF Kind
<1>8. \A m \in DOMAIN T : /\ Base(sc, L - 1, KindOf(T[m])) < T[m].index
                          /\ \A k \in DOMAIN T : T[k] = T[m] => k = m
  BY <1>0 DEF StoreOK, EntriesOK, EntryOK
<1>9. \A b \in Kind : Base(sd, L - 1, b) = Base(sc, L - 1, b) /\ Base(sc, L - 1, b) \in Nat
  BY <1>0, <1>1 DEF SameBelow
<1>10. ASSUME NEW n \in DOMAIN U
       PROVE  EntryOK(sd, L - 1, L, n)
  <2>1. n \in DOMAIN T /\ U[n] = T[n] /\ KindOf(T[n]) \in Kind
    BY <1>2
  <2>2. Base(sd, L - 1, KindOf(U[n])) < U[n].index
    BY <1>8, <1>9, <2>1
  <2>3. \A k \in DOMAIN U : U[k] = U[n] => k = n
    BY <1>2, <1>8, <2>1
  <2>4. ~(L =< L - 1)
    BY <1>0
  <2> QED
    BY <2>2, <2>3, <2>4 DEF EntryOK
<1>11. \A s \in 1 .. L : s = L \/ s \in 1 .. L - 1
  BY <1>0
<1>12. EntriesOK(sd, L - 1, L)
  BY <1>1, <1>10, <1>11 DEF EntriesOK
<1>13. StoreOK(sd, cd, vd, L - 1)
  BY <1>5, <1>6, <1>7, <1>12 DEF StoreOK
<1>14. Base(sc, L - 1, c) < T[name].index /\ Base(sc, L - 1, c) < Base(sc, L, c)
  BY <1>0, <1>4, <1>8, <1>9
<1>15. AgreeBelow(sc, cs, vs, cd, vd, L - 1)
  <2>1. \A b \in Kind : Base(sc, L - 1, b) \in Nat /\ Base(sc, L - 1, b) =< Base(sc, L, b)
    BY <1>0, <1>1 DEF SameBelow
  <2>2. \A i \in 1 .. Base(sc, L - 1, "constant") : cd[i] = cs[i]
    <3>1. CASE c = "constant"
      BY <1>0, <1>2, <1>14, <2>1, <3>1 DEF Kind
    <3>2. CASE c = "variable"
      BY <3>2
    <3> QED
      BY <3>1, <3>2 DEF Kind
  <2>3. \A i \in 1 .. Base(sc, L - 1, "variable") : vd[i] = vs[i]
    <3>1. CASE c = "variable"
      BY <1>0, <1>2, <1>14, <2>1, <3>1 DEF Kind
    <3>2. CASE c = "constant"
      BY <3>2
    <3> QED
      BY <3>1, <3>2 DEF Kind
  <2> QED
    BY <2>2, <2>3 DEF AgreeBelow
<1> QED
  BY <1>13, <1>15

\* The innermost scope is popped when all of its entries are gone.
LEMMA PopKeepsStore ==
    ASSUME NEW sc \in Seq(ScopeType) \ {<< >>}, NEW cs, NEW vs, NEW L, L = Len(sc), L > 1,
           StoreOK(sc, cs, vs, L - 1), DOMAIN sc[L].table = {},
           NEW sd \in Seq(ScopeType), Len(sd) = L - 1,
           \A t \in 1 .. L - 1 : sd[t].table = sc[t].table
    PROVE  /\ StoreOK(sd, cs, vs, L - 1)
           /\ Len(cs) = Base(sc, L - 1, "constant") /\ Len(vs) = Base(sc, L - 1, "variable")
<1>0. /\ L \in Nat \ {0, 1} /\ L - 1 \in 0 .. L - 1 /\ L - 1 \in Nat
      /\ cs \in Seq(Value \cup {NoValue}) /\ vs \in Seq(Value)
      /\ Len(cs) = Base(sc, L, "constant") /\ Len(vs) = Base(sc, L, "variable")
      /\ \A b \in Kind : IsFiniteSet(Bindings(sc, L, b))
      /\ EntriesOK(sc, L - 1, L)
  BY DEF StoreOK
<1>1. \A t \in 1 .. L : t = L \/ t \in 1 .. L - 1
  BY <1>0
<1>2. \A b \in Kind : Bindings(sc, L, b) = Bindings(sc, L - 1, b)
  BY <1>0, <1>1 DEF Bindings
<1>3. \A b \in Kind, s \in 0 .. L - 1 : Bindings(sd, s, b) = Bindings(sc, s, b) /\ Base(sd, s, b) = Base(sc, s, b)
  <2> TAKE b \in Kind, s \in 0 .. L - 1
  <2>1. s \in Nat /\ \A t \in 1 .. s : sd[t].table = sc[t].table
    BY <1>0
  <2> QED
    BY <2>1, BindingsAgree
<1>4. /\ \A b \in Kind : IsFiniteSet(Bindings(sd, L - 1, b))
      /\ Len(cs) = Base(sd, L - 1, "constant") /\ Len(vs) = Base(sd, L - 1, "variable")
  BY <1>0, <1>2, <1>3 DEF Base, Kind
<1>5. ASSUME NEW s \in 1 .. L - 1, NEW n \in DOMAIN sd[s].table
      PROVE  EntryOK(sd, L - 1, s, n)
  <2>1. s \in 1 .. L /\ s \in 0 .. L - 1 /\ s - 1 \in 0 .. L - 1 /\ s \in 1 .. Len(sc)
    BY <1>0
  <2>2. sd[s].table = sc[s].table /\ EntryOK(sc, L - 1, s, n)
    BY <1>0, <2>1 DEF EntriesOK
  <2>3. KindOf(sc[s].table[n]) \in Kind
    BY <2>1, <2>2, ScopesTyped
  <2> QED
    BY <1>3, <2>1, <2>2, <2>3 DEF EntryOK
<1> QED
  BY <1>0, <1>3, <1>4, <1>5 DEF StoreOK, EntriesOK, Kind

-------------------------------------------------------------------------------
\* What r, saved at a call, says is still there, below the scope of the function.
SavedAt(sc, cs, vs, r) ==
    LET p == Len(r.scopes)
    IN  /\ p \in 1 .. Len(sc) - 1 /\ ~sc[p + 1].inherits
        /\ \A s \in 1 .. p : r.scopes[s] = sc[s]
        /\ Len(r.constants) = Base(sc, p, "constant")
        /\ \A i \in 1 .. Base(sc, p, "constant") : r.constants[i] = cs[i]
        /\ Len(r.variables) = Base(sc, p, "variable")
        /\ \A i \in 1 .. Base(sc, p, "variable") : r.variables[i] = vs[i]

SavedOK(sc, cs, vs, sv) ==
    /\ sv \in Seq(SavedType)
    /\ \A k \in 1 .. Len(sv) : SavedAt(sc, cs, vs, sv[k])
    /\ \A j, k \in 1 .. Len(sv) : j < k => Len(sv[j].scopes) < Len(sv[k].scopes)
    /\ \A s \in 2 .. Len(sc) : ~sc[s].inherits => \E k \in 1 .. Len(sv) : Len(sv[k].scopes) = s - 1

\* Everything that was saved is at or below scope m.
SavedBelow(sv, m) == \A k \in 1 .. Len(sv) : Len(sv[k].scopes) =< m

\* What is saved stays right while the scopes and elements it consists of stay.
LEMMA SavedAtKept ==
    ASSUME NEW sc \in Seq(ScopeType), NEW cs, NEW vs, NEW u, StoreOK(sc, cs, vs, u),
           NEW r \in SavedType, SavedAt(sc, cs, vs, r),
           NEW sd \in Seq(ScopeType), NEW cd, NEW vd, NEW m \in 0 .. Len(sc), Len(r.scopes) =< m,
           Len(r.scopes) < Len(sd),
           \A s \in 1 .. Len(r.scopes) : sd[s] = sc[s],
           ~sd[Len(r.scopes) + 1].inherits,
           AgreeBelow(sc, cs, vs, cd, vd, m)
    PROVE  SavedAt(sd, cd, vd, r)
<1> DEFINE p == Len(r.scopes)
<1>1. p \in 1 .. Len(sc) - 1 /\ p \in Nat /\ p \in 0 .. m /\ p \in 1 .. Len(sd) - 1 /\ Len(sc) \in Nat
  BY DEF SavedAt
<1>2. \A b \in Kind : Base(sd, p, b) = Base(sc, p, b)
  <2>1. \A t \in 1 .. p : sd[t].table = sc[t].table
    OBVIOUS
  <2>2. \A b \in Kind : Bindings(sd, p, b) = Bindings(sc, p, b) /\ Base(sd, p, b) = Base(sc, p, b)
    BY <1>1, <2>1, BindingsAgree
  <2> QED
    BY <2>2
<1>3. \A b \in Kind : /\ Base(sc, p, b) =< Base(sc, m, b)
                      /\ Base(sc, p, b) \in Nat /\ Base(sc, m, b) \in Nat
  <2> TAKE b \in Kind
  <2>1. IsFiniteSet(Bindings(sc, Len(sc), b))
    BY DEF StoreOK
  <2>2. m \in 0 .. Len(sc) /\ p \in 0 .. Len(sc) /\ p \in 0 .. m /\ p \in 0 .. p
    BY <1>1
  <2> QED
    BY <1>1, <2>1, <2>2, BindingsMonotone
<1>4. \A i \in 1 .. Base(sc, p, "constant") : cd[i] = cs[i]
  BY <1>3 DEF AgreeBelow, Kind
<1>5. \A i \in 1 .. Base(sc, p, "variable") : vd[i] = vs[i]
  BY <1>3 DEF AgreeBelow, Kind
<1> QED
  BY <1>1, <1>2, <1>4, <1>5 DEF SavedAt, Kind

\* Nothing below the innermost scope and nothing that it inherits from a caller has
\* changed; scopes that have been pushed inherit.
LEMMA SavedKept ==
    ASSUME NEW sc \in Seq(ScopeType) \ {<< >>}, NEW cs, NEW vs, NEW u, StoreOK(sc, cs, vs, u),
           NEW sv, SavedOK(sc, cs, vs, sv),
           NEW sd \in Seq(ScopeType), NEW cd, NEW vd, NEW m \in 0 .. Len(sc), SavedBelow(sv, m),
           Len(sc) =< Len(sd),
           \A s \in 1 .. Len(sc) - 1 : sd[s] = sc[s],
           sd[Len(sc)].inherits = sc[Len(sc)].inherits,
           \A s \in Len(sc) + 1 .. Len(sd) : sd[s].inherits,
           AgreeBelow(sc, cs, vs, cd, vd, m)
    PROVE  SavedOK(sd, cd, vd, sv)
<1>0. Len(sc) \in Nat \ {0} /\ Len(sd) \in Nat
  OBVIOUS
<1>1. ASSUME NEW k \in 1 .. Len(sv) PROVE SavedAt(sd, cd, vd, sv[k])
  <2>1. sv[k] \in SavedType /\ SavedAt(sc, cs, vs, sv[k]) /\ Len(sv[k].scopes) =< m
    BY DEF SavedOK, SavedBelow
  <2> DEFINE p == Len(sv[k].scopes)
  <2>2. p \in 1 .. Len(sc) - 1 /\ ~sc[p + 1].inherits
    BY <2>1 DEF SavedAt
  <2>3. sd[p + 1].inherits = sc[p + 1].inherits
    <3>1. p + 1 = Len(sc) \/ p + 1 \in 1 .. Len(sc) - 1
      BY <1>0, <2>2
    <3> QED
      BY <3>1
  <2>4. p < Len(sd) /\ \A s \in 1 .. p : sd[s] = sc[s]
    BY <1>0, <2>2
  <2> QED
    BY <2>1, <2>2, <2>3, <2>4, SavedAtKept
<1>2. ASSUME NEW s \in 2 .. Len(sd), ~sd[s].inherits
      PROVE  \E k \in 1 .. Len(sv) : Len(sv[k].scopes) = s - 1
  <2>1. s \in 2 .. Len(sc) /\ (s = Len(sc) \/ s \in 1 .. Len(sc) - 1)
    BY <1>0, <1>2
  <2>2. ~sc[s].inherits
    BY <1>2, <2>1
  <2> QED
    BY <2>1, <2>2 DEF SavedOK
<1> QED
  BY <1>1, <1>2 DEF SavedOK

\* What is saved is below every scope from which only inheriting scopes lead to the innermost one.
LEMMA VisibleAbove ==
    ASSUME NEW sc \in Seq(ScopeType), NEW cs, NEW vs, NEW sv, SavedOK(sc, cs, vs, sv),
           NEW s \in 1 .. Len(sc), \A t \in s + 1 .. Len(sc) : sc[t].inherits
    PROVE  SavedBelow(sv, s - 1)
<1>1. ASSUME NEW k \in 1 .. Len(sv) PROVE Len(sv[k].scopes) =< s - 1
  <2>1. Len(sv[k].scopes) \in 1 .. Len(sc) - 1 /\ ~sc[Len(sv[k].scopes) + 1].inherits
    BY DEF SavedOK, SavedAt
  <2>2. ~(Len(sv[k].scopes) + 1 \in s + 1 .. Len(sc))
    BY <2>1
  <2> QED
    BY <2>1, <2>2
<1> QED
  BY <1>1 DEF SavedBelow

\* A call saves the store and pushes a scope that does not inherit.
LEMMA CallSaves ==
    ASSUME NEW sc \in Seq(ScopeType) \ {<< >>}, NEW cs, NEW vs, NEW L, L = Len(sc),
           StoreOK(sc, cs, vs, L), NEW sv, SavedOK(sc, cs, vs, sv),
           NEW sd \in Seq(ScopeType), Len(sd) = L + 1, NEW cd,
           \A s \in 1 .. L : sd[s] = sc[s],
           ~sd[L + 1].inherits,
           \A i \in 1 .. Len(cs) : cd[i] = cs[i]
    PROVE  SavedOK(sd, cd, vs, Append(sv, [constants |-> cs, variables |-> vs, scopes |-> sc]))
<1> DEFINE r == [constants |-> cs, variables |-> vs, scopes |-> sc]
           K == Len(sv)
           tv == Append(sv, r)
<1>0. /\ L \in Nat \ {0} /\ L \in 0 .. Len(sc) /\ K \in Nat /\ sv \in Seq(SavedType)
      /\ cs \in Seq(Value \cup {NoValue}) /\ vs \in Seq(Value)
      /\ Len(cs) = Base(sc, L, "constant") /\ Len(vs) = Base(sc, L, "variable")
  BY DEF StoreOK, SavedOK
<1>1. r \in SavedType /\ r.constants = cs /\ r.variables = vs /\ r.scopes = sc
  BY <1>0 DEF SavedType
<1>2. /\ tv \in Seq(SavedType) /\ Len(tv) = K + 1 /\ tv[K + 1] = r
      /\ \A k \in 1 .. K : tv[k] = sv[k]
  BY <1>0, <1>1
<1>3. \A k \in 1 .. K : Len(sv[k].scopes) \in 1 .. L - 1 /\ SavedAt(sc, cs, vs, sv[k]) /\ sv[k] \in SavedType
  BY DEF SavedOK, SavedAt
<1>4. AgreeBelow(sc, cs, vs, cd, vs, L)
  BY <1>0 DEF AgreeBelow
<1>5. \A k \in 1 .. K : SavedAt(sd, cd, vs, sv[k])
  <2> TAKE k \in 1 .. K
  <2> DEFINE p == Len(sv[k].scopes)
  <2>1. p \in 1 .. L - 1 /\ SavedAt(sc, cs, vs, sv[k]) /\ sv[k] \in SavedType
    BY <1>3
  <2>2. ~sc[p + 1].inherits
    BY <2>1 DEF SavedAt
  <2>3. ~sd[p + 1].inherits /\ p < Len(sd) /\ p =< L /\ \A s \in 1 .. p : sd[s] = sc[s]
    BY <1>0, <2>1, <2>2
  <2> HIDE DEF tv, r, K
  <2> QED
    BY <1>0, <1>4, <2>1, <2>3, SavedAtKept
<1>6. SavedAt(sd, cd, vs, r)
  <2>1. \A b \in Kind : Base(sd, L, b) = Base(sc, L, b)
    <3>1. /\ sd \in Seq(ScopeType) \ {<< >>}
          /\ Len(sd) - 1 =< Len(sc) /\ Len(sc) \in Nat /\ Len(sd) - 1 = L
          /\ \A t \in 1 .. Len(sd) - 1 : sd[t].table = sc[t].table
          /\ StoreOK(sc, cs, vs, Len(sc))
      BY <1>0
    <3>2. SameBelow(sc, sd, Len(sd) - 1)
      BY <3>1, StoreFromLower
    <3> QED
      BY <1>0, <3>1, <3>2 DEF SameBelow
  <2>2. L \in 1 .. Len(sd) - 1
    BY <1>0
  <2> HIDE DEF r
  <2> QED
    BY <1>0, <1>1, <2>1, <2>2 DEF SavedAt, Kind
<1>7. \A k \in 1 .. Len(tv) : k = K + 1 \/ k \in 1 .. K
  BY <1>0, <1>2
<1>8. \A k \in 1 .. Len(tv) : SavedAt(sd, cd, vs, tv[k])
  BY <1>2, <1>5, <1>6, <1>7
<1>9. ASSUME NEW j \in 1 .. Len(tv), NEW k \in 1 .. Len(tv), j < k
      PROVE  Len(tv[j].scopes) < Len(tv[k].scopes)
  <2>1. j \in 1 .. K
    BY <1>0, <1>2, <1>9
  <2>2. CASE k = K + 1
    BY <1>0, <1>1, <1>2, <1>3, <2>1, <2>2
  <2>3. CASE k \in 1 .. K
    BY <1>2, <1>9, <2>1, <2>3 DEF SavedOK
  <2> QED
    BY <1>7, <2>2, <2>3
<1>10. ASSUME NEW s \in 2 .. Len(sd), ~sd[s].inherits
       PROVE  \E k \in 1 .. Len(tv) : Len(tv[k].scopes) = s - 1
  <2>1. s = L + 1 \/ s \in 2 .. L
    BY <1>0
  <2>2. CASE s = L + 1
    BY <1>0, <1>1, <1>2, <2>2
  <2>3. CASE s \in 2 .. L
    <3>1. ~sc[s].inherits
      BY <1>10, <2>3
    <3>2. PICK k \in 1 .. K : Len(sv[k].scopes) = s - 1
      BY <2>3, <3>1 DEF SavedOK
    <3> QED
      BY <1>0, <1>2, <3>2
  <2> QED
    BY <2>1, <2>2, <2>3
<1> HIDE DEF tv
<1>11. SavedOK(sd, cd, vs, tv)
  BY <1>2, <1>8, <1>9, <1>10 DEF SavedOK
<1> QED
  BY <1>11 DEF tv

\* A scope is popped: what was saved when it was pushed, if it does not inherit, goes with it.
LEMMA PopKeepsSaved ==
    ASSUME NEW sc \in Seq(ScopeType) \ {<< >>}, NEW cs, NEW vs, Len(sc) > 1,
           NEW u, StoreOK(sc, cs, vs, u), NEW sv, SavedOK(sc, cs, vs, sv),
           NEW sd \in Seq(ScopeType), Len(sd) = Len(sc) - 1, \A s \in 1 .. Len(sc) - 1 : sd[s] = sc[s],
           NEW sw, sc[Len(sc)].inherits => sw = sv,
           ~sc[Len(sc)].inherits => sw = SubSeq(sv, 1, Len(sv) - 1)
    PROVE  /\ SavedOK(sd, cs, vs, sw)
           /\ ~sc[Len(sc)].inherits => /\ sv # << >> /\ Len(sv[Len(sv)].scopes) = Len(sc) - 1
                                       /\ sv[Len(sv)] \in SavedType
                                       /\ SavedAt(sc, cs, vs, sv[Len(sv)])
<1> SUFFICES ASSUME NEW L, L = Len(sc)
    PROVE  /\ SavedOK(sd, cs, vs, sw)
           /\ ~sc[L].inherits => /\ sv # << >> /\ Len(sv[Len(sv)].scopes) = L - 1
                                 /\ sv[Len(sv)] \in SavedType /\ SavedAt(sc, cs, vs, sv[Len(sv)])
  OBVIOUS
<1> DEFINE K == Len(sv)
<1>0. L \in Nat \ {0, 1} /\ K \in Nat /\ sv \in Seq(SavedType)
  BY DEF SavedOK
<1>1. \A k \in 1 .. K : /\ sv[k] \in SavedType /\ SavedAt(sc, cs, vs, sv[k])
                        /\ Len(sv[k].scopes) \in 1 .. L - 1
                        /\ ~sc[Len(sv[k].scopes) + 1].inherits
  BY DEF SavedOK, SavedAt
<1>2. ASSUME ~sc[L].inherits
      PROVE  /\ K \in 1 .. K /\ Len(sv[K].scopes) = L - 1
             /\ sw \in Seq(SavedType) /\ Len(sw) = K - 1 /\ \A k \in 1 .. K - 1 : sw[k] = sv[k]
  <2>1. PICK k \in 1 .. K : Len(sv[k].scopes) = L - 1
    BY <1>0, <1>2 DEF SavedOK
  <2>2. K \in 1 .. K
    BY <1>0, <2>1
  <2>3. k = K
    <3>1. ~(k < K)
      <4> SUFFICES ASSUME k < K PROVE FALSE
        OBVIOUS
      <4>1. Len(sv[k].scopes) < Len(sv[K].scopes)
        BY <2>1, <2>2 DEF SavedOK
      <4>2. Len(sv[K].scopes) \in 1 .. L - 1
        BY <1>1, <2>2
      <4> QED
        BY <1>0, <2>1, <4>1, <4>2
    <3> QED
      BY <1>0, <2>1, <3>1
  <2>4. sw = SubSeq(sv, 1, K - 1)
    BY <1>2
  <2>5. sw \in Seq(SavedType) /\ Len(sw) = K - 1 /\ \A i \in 1 .. K - 1 : sw[i] = sv[i]
    BY <1>0, <2>2, <2>4, FrontOf
  <2> QED
    BY <2>1, <2>2, <2>3, <2>5
<1>3. sc[L].inherits => sw = sv
  OBVIOUS
<1>4. /\ sw \in Seq(SavedType) /\ Len(sw) \in 0 .. K /\ \A k \in 1 .. Len(sw) : sw[k] = sv[k]
      /\ \A k \in 1 .. Len(sw) : Len(sv[k].scopes) < L - 1
  <2>1. CASE sc[L].inherits
    <3>1. \A k \in 1 .. K : Len(sv[k].scopes) + 1 # L
      BY <1>1, <2>1
    <3> QED
      BY <1>0, <1>1, <1>3, <2>1, <3>1
  <2>2. CASE ~sc[L].inherits
    <3>1. \A k \in 1 .. K - 1 : Len(sv[k].scopes) < Len(sv[K].scopes)
      <4>1. \A k \in 1 .. K - 1 : k \in 1 .. K /\ k < K
        BY <1>0
      <4> QED
        BY <1>2, <2>2, <4>1 DEF SavedOK
    <3> QED
      BY <1>0, <1>2, <2>2, <3>1
  <2> QED
    BY <2>1, <2>2
<1>5. AgreeBelow(sc, cs, vs, cs, vs, L)
  BY DEF AgreeBelow
<1>6. ASSUME NEW k \in 1 .. Len(sw)
      PROVE  SavedAt(sd, cs, vs, sw[k])
  <2> DEFINE p == Len(sv[k].scopes)
  <2>1. /\ k \in 1 .. K /\ sw[k] = sv[k] /\ sv[k] \in SavedType /\ SavedAt(sc, cs, vs, sv[k])
        /\ p \in 1 .. L - 1 /\ p < L - 1 /\ ~sc[p + 1].inherits
    BY <1>0, <1>1, <1>4
  <2>2. p < Len(sd) /\ p + 1 \in 1 .. L - 1 /\ p =< L /\ \A s \in 1 .. p : sd[s] = sc[s]
    <3>1. p < Len(sd) /\ p + 1 \in 1 .. L - 1 /\ p =< L /\ \A s \in 1 .. p : s \in 1 .. L - 1
      BY <1>0, <2>1
    <3> QED
      BY <3>1
  <2>3. ~sd[p + 1].inherits /\ L \in 0 .. Len(sc)
    BY <1>0, <2>1, <2>2
  <2> QED
    BY <1>5, <2>1, <2>2, <2>3, SavedAtKept
<1>7. \A j, k \in 1 .. Len(sw) : j < k => Len(sw[j].scopes) < Len(sw[k].scopes)
  <2>1. \A j \in 1 .. Len(sw) : j \in 1 .. K /\ sw[j] = sv[j]
    BY <1>0, <1>4
  <2> QED
    BY <2>1 DEF SavedOK
<1>8. ASSUME NEW s \in 2 .. Len(sd), ~sd[s].inherits
      PROVE  \E k \in 1 .. Len(sw) : Len(sw[k].scopes) = s - 1
  <2>1. s \in 2 .. L /\ s < L /\ ~sc[s].inherits
    BY <1>0, <1>8
  <2>2. PICK k \in 1 .. K : Len(sv[k].scopes) = s - 1
    BY <2>1 DEF SavedOK
  <2>3. k \in 1 .. Len(sw)
    BY <1>0, <1>2, <1>3, <2>1, <2>2
  <2> QED
    BY <1>4, <2>2, <2>3
<1>9. SavedOK(sd, cs, vs, sw)
  BY <1>4, <1>6, <1>7, <1>8 DEF SavedOK
<1>10. ~sc[L].inherits => /\ sv # << >> /\ Len(sv[K].scopes) = L - 1
                          /\ sv[K] \in SavedType /\ SavedAt(sc, cs, vs, sv[K])
  BY <1>0, <1>1, <1>2
<1> QED
  BY <1>9, <1>10

-------------------------------------------------------------------------------
\* The places of a handler, by the type of its node.
Labels(type) ==
    IF type = "program" THEN {"body"}
    ELSE IF type \in {"assignment", "update_expression"} THEN {"start", "rhs", "lhs"}
    ELSE IF type \in {"variable_decl", "variable_ref", "numeric_constant"} THEN {"start"}
    ELSE IF type \in {"arithmetic_operator", "relational_operator"} THEN {"start", "lhs", "rhs"}
    ELSE IF type = "unary_operator" THEN {"start", "operand"}
    ELSE IF type \in {"conditional_construct", "loop"} THEN {"start", "condition", "body", "leave"}
    ELSE IF type = "function_call" THEN {"start", "arguments", "argument", "body", "leave"}
    ELSE {"start", "value"}

AllNumbers(q)   == \A k \in 1 .. Len(q) : IsNumber(q[k])
EndsInReturn(q) == q # << >> => q[Len(q)].type = "function_return"

\* A call whose function has been found: the arguments that are left and those that
\* have been evaluated are as many as the function has; its body ends in a return.
CallOK(p, f) ==
    /\ f.node.callee \in DOMAIN p.functions
    /\ Len(f.node.arguments) = Len(p.functions[f.node.callee].arguments)
    /\ f.at \in {"arguments", "argument"} => AllNumbers(f.rest)
    /\ f.at = "arguments" => Len(f.values) + Len(f.rest) = Len(f.node.arguments)
    /\ f.at = "argument" => Len(f.values) + Len(f.rest) + 1 = Len(f.node.arguments)
    /\ f.at = "body" => EndsInReturn(f.rest)

FrameOK(p, f) ==
    /\ f.at \in Labels(f.node.type)
    /\ f.at = "start" => f.values = << >>
    /\ f.scoped <=> f.node.type # "program" /\ f.at \in {"body", "leave"}
    /\ f.node.type \in {"arithmetic_operator", "relational_operator"} /\ f.at = "rhs" => Len(f.values) = 1
    /\ f.node.type = "function_call" /\ f.at # "start" => CallOK(p, f)

\* g runs what f has called.
Called(f, g) ==
    \/ f.at = "lhs" /\ g.node = f.node.lhs
    \/ f.at = "rhs" /\ g.node = f.node.rhs
    \/ f.at = "operand" /\ g.node = f.node.operand
    \/ f.at = "condition" /\ g.node = f.node.condition
    \/ f.at = "value" /\ g.node = f.node.return_value
    \/ f.at = "argument" /\ IsNumber(g.node)
    \/ f.at = "body" /\ (f.node.type = "function_call" /\ f.rest = << >> => g.node.type = "function_return")

ControlOK(p, ct) ==
    /\ ct \in Seq(FrameType)
    /\ \A i \in 1 .. Len(ct) : FrameOK(p, ct[i]) /\ (i = 1 <=> ct[i].node = ProgramNode)
    /\ \A i \in 1 .. Len(ct) - 1 : Called(ct[i], ct[i + 1])

\* A node of a program is not the program.
LEMMA NodeTypes ==
    ASSUME NEW n \in Node
    PROVE  n # ProgramNode /\ n.type # "program"
BY NodeAssumption DEF WellFormedNode, ProgramNode

\* The handler of a node that execute_node has just called.
LEMMA NewFrame ==
    ASSUME NEW n \in Node, NEW p
    PROVE  /\ Frame(n) \in FrameType /\ FrameOK(p, Frame(n))
           /\ Frame(n).node = n /\ Frame(n).at = "start" /\ ~Frame(n).scoped
<1>1. Frame(n) \in FrameType
  BY DEF Frame, FrameType, Label
<1>2. Frame(n).node = n /\ Frame(n).at = "start" /\ ~Frame(n).scoped /\ Frame(n).values = << >>
  BY DEF Frame
<1>3. FrameOK(p, Frame(n))
  <2> HIDE DEF Frame
  <2> QED
    BY <1>2, NodeTypes DEF FrameOK, Labels
<1> QED
  BY <1>1, <1>2, <1>3

\* The innermost handler is gone.
LEMMA ReturnKeepsControl ==
    ASSUME NEW p, NEW ct, ControlOK(p, ct), ct # << >>
    PROVE  LET cd == SubSeq(ct, 1, Len(ct) - 1)
           IN  /\ ControlOK(p, cd) /\ Len(cd) = Len(ct) - 1 /\ Len(ct) \in Nat \ {0}
               /\ \A i \in 1 .. Len(cd) : cd[i] = ct[i]
<1> DEFINE cd == SubSeq(ct, 1, Len(ct) - 1)
<1>1. ct \in Seq(FrameType)
  BY DEF ControlOK
<1>2. /\ cd \in Seq(FrameType) /\ Len(ct) \in Nat \ {0} /\ Len(cd) = Len(ct) - 1
      /\ \A i \in 1 .. Len(cd) : cd[i] = ct[i]
  BY <1>1, FrontOf
<1> HIDE DEF cd
<1>3. \A i \in 1 .. Len(cd) : FrameOK(p, cd[i]) /\ (i = 1 <=> cd[i].node = ProgramNode)
  BY <1>2 DEF ControlOK
<1>4. \A i \in 1 .. Len(cd) - 1 : Called(cd[i], cd[i + 1])
  <2>1. \A i \in 1 .. Len(cd) - 1 : /\ i \in 1 .. Len(cd) /\ i + 1 \in 1 .. Len(cd)
                                    /\ i \in 1 .. Len(ct) - 1
    BY <1>2
  <2> QED
    BY <1>2, <2>1 DEF ControlOK
<1>5. ControlOK(p, cd)
  BY <1>2, <1>3, <1>4 DEF ControlOK
<1> QED
  BY <1>2, <1>5 DEF cd

\* The innermost handler calls another one.
LEMMA AppendKeepsControl ==
    ASSUME NEW p, NEW ct, ControlOK(p, ct), NEW f \in FrameType, FrameOK(p, f),
           ct = << >> <=> f.node = ProgramNode,
           ct # << >> => Called(ct[Len(ct)], f)
    PROVE  LET cd == Append(ct, f)
           IN  /\ ControlOK(p, cd) /\ Len(cd) = Len(ct) + 1 /\ Len(ct) \in Nat
               /\ cd[Len(cd)] = f /\ \A i \in 1 .. Len(ct) : cd[i] = ct[i]
<1> DEFINE cd == Append(ct, f)
<1>1. ct \in Seq(FrameType)
  BY DEF ControlOK
<1>2. /\ cd \in Seq(FrameType) /\ Len(cd) = Len(ct) + 1 /\ Len(ct) \in Nat
      /\ cd[Len(cd)] = f /\ \A i \in 1 .. Len(ct) : cd[i] = ct[i]
  BY <1>1
<1> HIDE DEF cd
<1>3. ASSUME NEW i \in 1 .. Len(cd)
      PROVE  FrameOK(p, cd[i]) /\ (i = 1 <=> cd[i].node = ProgramNode)
  <2>1. CASE i \in 1 .. Len(ct)
    BY <1>2, <2>1 DEF ControlOK
  <2>2. CASE i = Len(cd)
    <3>1. i = 1 <=> ct = << >>
      BY <1>1, <1>2, <2>2
    <3> QED
      BY <1>2, <2>2, <3>1
  <2> QED
    BY <1>2, <2>1, <2>2
<1>4. ASSUME NEW i \in 1 .. Len(cd) - 1
      PROVE  Called(cd[i], cd[i + 1])
  <2>1. CASE i \in 1 .. Len(ct) - 1
    <3>1. i \in 1 .. Len(ct) /\ i + 1 \in 1 .. Len(ct)
      BY <1>2, <2>1
    <3> QED
      BY <1>2, <2>1, <3>1 DEF ControlOK
  <2>2. CASE i = Len(ct)
    <3>1. ct # << >> /\ i + 1 = Len(cd) /\ i \in 1 .. Len(ct)
      BY <1>1, <1>2, <2>2
    <3> QED
      BY <1>2, <2>2, <3>1
  <2> QED
    BY <1>2, <2>1, <2>2
<1>5. ControlOK(p, cd)
  BY <1>2, <1>3, <1>4 DEF ControlOK
<1> QED
  BY <1>2, <1>5 DEF cd

\* The innermost handler goes on: what its caller knows of it is its node.
LEMMA BecomeKeepsControl ==
    ASSUME NEW p, NEW ct, ControlOK(p, ct), ct # << >>,
           NEW f \in FrameType, FrameOK(p, f), f.node = ct[Len(ct)].node
    PROVE  LET cd == Append(SubSeq(ct, 1, Len(ct) - 1), f)
           IN  /\ ControlOK(p, cd) /\ Len(cd) = Len(ct) /\ Len(ct) \in Nat \ {0}
               /\ cd[Len(ct)] = f /\ \A i \in 1 .. Len(ct) - 1 : cd[i] = ct[i]
<1> DEFINE n == Len(ct)
           front == SubSeq(ct, 1, n - 1)
<1>1. /\ ControlOK(p, front) /\ Len(front) = n - 1 /\ n \in Nat \ {0}
      /\ \A i \in 1 .. Len(front) : front[i] = ct[i]
  BY ReturnKeepsControl
<1> HIDE DEF front
<1>2. front = << >> <=> f.node = ProgramNode
  <2>1. n \in 1 .. n /\ (n = 1 <=> ct[n].node = ProgramNode)
    BY <1>1 DEF ControlOK
  <2>2. front \in Seq(FrameType)
    BY <1>1 DEF ControlOK
  <2>3. front = << >> <=> Len(front) = 0
    BY <2>2
  <2> QED
    BY <1>1, <2>1, <2>3
<1>3. front # << >> => Called(front[Len(front)], f)
  <2> HAVE front # << >>
  <2>1. n - 1 \in 1 .. n - 1 /\ n - 1 \in 1 .. Len(front)
    <3>1. front \in Seq(FrameType)
      BY <1>1 DEF ControlOK
    <3> QED
      BY <1>1, <3>1
  <2>2. Called(ct[n - 1], ct[n - 1 + 1]) /\ n - 1 + 1 = n
    BY <1>1, <2>1 DEF ControlOK
  <2> QED
    BY <1>1, <2>1, <2>2 DEF Called
<1> DEFINE cd == Append(front, f)
<1>4. /\ ControlOK(p, cd) /\ Len(cd) = Len(front) + 1
      /\ cd[Len(cd)] = f /\ \A i \in 1 .. Len(front) : cd[i] = front[i]
  BY <1>1, <1>2, <1>3, AppendKeepsControl
<1> HIDE DEF cd
<1>5. /\ ControlOK(p, cd) /\ Len(cd) = Len(ct) /\ Len(ct) \in Nat \ {0}
      /\ cd[Len(ct)] = f /\ \A i \in 1 .. Len(ct) - 1 : cd[i] = ct[i]
  BY <1>1, <1>4
<1> QED
  BY <1>5 DEF cd, front

-------------------------------------------------------------------------------
\* The number of scopes that the first i handlers have pushed.
ScopeCount(ct, i) == Cardinality({ j \in 1 .. i : ct[j].scoped })

\* Every scope but the global one belongs to a handler: only the scope of a function
\* does not inherit.
DepthOK(ct, sc) ==
    /\ Len(sc) = 1 + ScopeCount(ct, Len(ct))
    /\ \A i \in 1 .. Len(ct) : ct[i].scoped =>
         (sc[ScopeCount(ct, i) + 1].inherits <=> ct[i].node.type # "function_call")

\* One handler more has one scope more, or none.
LEMMA ScopeCountStep ==
    ASSUME NEW ct, NEW i \in Nat
    PROVE  /\ ScopeCount(ct, i) \in Nat
           /\ ScopeCount(ct, i + 1) = IF ct[i + 1].scoped THEN ScopeCount(ct, i) + 1 ELSE ScopeCount(ct, i)
<1> DEFINE S == { j \in 1 .. i : ct[j].scoped }
           W == { j \in 1 .. i + 1 : ct[j].scoped }
<1>1. IsFiniteSet(S) /\ Cardinality(S) \in Nat
  <2>1. IsFiniteSet(1 .. i)
    BY FS_Interval
  <2>2. S \subseteq 1 .. i
    OBVIOUS
  <2> QED
    BY <2>1, <2>2, FS_Subset, FS_CardinalityType
<1>2. i + 1 \notin S
  OBVIOUS
<1>3. W = IF ct[i + 1].scoped THEN S \cup {i + 1} ELSE S
  OBVIOUS
<1> HIDE DEF S, W
<1>4. Cardinality(S \cup {i + 1}) = Cardinality(S) + 1
  BY <1>1, <1>2, FS_AddElement
<1>5. Cardinality(W) = IF ct[i + 1].scoped THEN Cardinality(S) + 1 ELSE Cardinality(S)
  BY <1>3, <1>4
<1> QED
  BY <1>1, <1>5 DEF ScopeCount, S, W

\* Handlers that agree on which of them have a scope have as many.
LEMMA ScopeCountSame ==
    ASSUME NEW ct, NEW cd, NEW i \in Nat, \A j \in 1 .. i : ct[j].scoped = cd[j].scoped
    PROVE  ScopeCount(ct, i) = ScopeCount(cd, i)
<1>1. { j \in 1 .. i : ct[j].scoped } = { j \in 1 .. i : cd[j].scoped }
  OBVIOUS
<1> QED
  BY <1>1 DEF ScopeCount

\* Without a handler there is no scope to count.
LEMMA ScopeCountZero ==
    ASSUME NEW ct
    PROVE  ScopeCount(ct, 0) = 0
<1>1. { j \in 1 .. 0 : ct[j].scoped } = {}
  OBVIOUS
<1> QED
  BY <1>1, FS_EmptySet DEF ScopeCount

\* Fewer handlers have no more scopes.
LEMMA ScopeCountBound ==
    ASSUME NEW ct, NEW n \in Nat, NEW i \in 1 .. n
    PROVE  /\ ScopeCount(ct, i) \in Nat /\ ScopeCount(ct, n) \in Nat
           /\ ScopeCount(ct, i) =< ScopeCount(ct, n)
<1>1. /\ { j \in 1 .. i : ct[j].scoped } \subseteq { j \in 1 .. n : ct[j].scoped }
      /\ { j \in 1 .. n : ct[j].scoped } \subseteq 1 .. n
  OBVIOUS
<1>2. IsFiniteSet(1 .. n)
  BY FS_Interval
<1>3. IsFiniteSet({ j \in 1 .. n : ct[j].scoped })
  BY <1>1, <1>2, FS_Subset
<1> QED
  BY <1>1, <1>3, FS_Subset, FS_CardinalityType DEF ScopeCount

\* The handlers and the scopes are as they were as far as their depths are concerned.
LEMMA SameKeepsDepth ==
    ASSUME NEW ct, NEW sc, DepthOK(ct, sc), Len(ct) \in Nat,
           NEW cd, Len(cd) = Len(ct), NEW sd, Len(sd) = Len(sc),
           \A i \in 1 .. Len(ct) : cd[i].scoped = ct[i].scoped /\ cd[i].node = ct[i].node,
           \A s \in 1 .. Len(sc) : sd[s].inherits = sc[s].inherits
    PROVE  DepthOK(cd, sd)
<1>1. \A i \in 0 .. Len(ct) : ScopeCount(cd, i) = ScopeCount(ct, i)
  BY ScopeCountSame
<1>2. Len(sd) = 1 + ScopeCount(cd, Len(cd))
  BY <1>1 DEF DepthOK
<1>3. ASSUME NEW i \in 1 .. Len(cd), cd[i].scoped
      PROVE  sd[ScopeCount(cd, i) + 1].inherits <=> cd[i].node.type # "function_call"
  <2>1. i \in 1 .. Len(ct) /\ ct[i].scoped /\ cd[i].node = ct[i].node /\ i \in 0 .. Len(ct)
    BY <1>3
  <2>2. sc[ScopeCount(ct, i) + 1].inherits <=> ct[i].node.type # "function_call"
    BY <2>1 DEF DepthOK
  <2>3. ScopeCount(ct, i) + 1 \in 1 .. Len(sc)
    <3>1. /\ ScopeCount(ct, i) \in Nat /\ ScopeCount(ct, Len(ct)) \in Nat
          /\ ScopeCount(ct, i) =< ScopeCount(ct, Len(ct))
      BY <2>1, ScopeCountBound
    <3>2. Len(sc) = 1 + ScopeCount(ct, Len(ct))
      BY DEF DepthOK
    <3> QED
      BY <3>1, <3>2
  <2> QED
    BY <1>1, <2>1, <2>2, <2>3
<1> QED
  BY <1>2, <1>3 DEF DepthOK

\* A handler that has no scope returns.
LEMMA ReturnKeepsDepth ==
    ASSUME NEW ct, NEW sc, DepthOK(ct, sc), Len(ct) \in Nat \ {0}, ~ct[Len(ct)].scoped,
           NEW cd, Len(cd) = Len(ct) - 1, \A i \in 1 .. Len(cd) : cd[i] = ct[i]
    PROVE  DepthOK(cd, sc)
<1>1. \A i \in 0 .. Len(cd) : ScopeCount(cd, i) = ScopeCount(ct, i)
  BY ScopeCountSame
<1>2. Len(cd) \in Nat /\ Len(cd) + 1 = Len(ct) /\ Len(cd) \in 0 .. Len(cd)
  OBVIOUS
<1>3. ScopeCount(ct, Len(ct)) = ScopeCount(ct, Len(cd))
  BY <1>2, ScopeCountStep
<1>4. Len(sc) = 1 + ScopeCount(cd, Len(cd))
  BY <1>1, <1>2, <1>3 DEF DepthOK
<1>5. ASSUME NEW i \in 1 .. Len(cd), cd[i].scoped
      PROVE  sc[ScopeCount(cd, i) + 1].inherits <=> cd[i].node.type # "function_call"
  <2>1. i \in 1 .. Len(ct) /\ ct[i].scoped /\ cd[i] = ct[i] /\ i \in 0 .. Len(cd)
    BY <1>2, <1>5
  <2> QED
    BY <1>1, <2>1 DEF DepthOK
<1> QED
  BY <1>4, <1>5 DEF DepthOK

\* A handler that has no scope yet is called.
LEMMA AppendKeepsDepth ==
    ASSUME NEW ct, NEW sc, DepthOK(ct, sc), Len(ct) \in Nat,
           NEW cd, Len(cd) = Len(ct) + 1, \A i \in 1 .. Len(ct) : cd[i] = ct[i],
           ~cd[Len(cd)].scoped
    PROVE  DepthOK(cd, sc)
<1>1. \A i \in 0 .. Len(ct) : ScopeCount(cd, i) = ScopeCount(ct, i)
  BY ScopeCountSame
<1>2. ScopeCount(cd, Len(cd)) = ScopeCount(cd, Len(ct)) /\ Len(ct) \in 0 .. Len(ct)
  <2>1. ~cd[Len(ct) + 1].scoped
    OBVIOUS
  <2>2. ScopeCount(cd, Len(ct) + 1) = ScopeCount(cd, Len(ct))
    BY <2>1, ScopeCountStep
  <2> QED
    BY <2>2
<1>3. Len(sc) = 1 + ScopeCount(cd, Len(cd))
  BY <1>1, <1>2 DEF DepthOK
<1>4. ASSUME NEW i \in 1 .. Len(cd), cd[i].scoped
      PROVE  sc[ScopeCount(cd, i) + 1].inherits <=> cd[i].node.type # "function_call"
  <2>1. i # Len(cd)
    BY <1>4
  <2>2. i \in 1 .. Len(ct) /\ i \in 0 .. Len(ct)
    BY <2>1
  <2>3. ct[i].scoped /\ cd[i] = ct[i]
    BY <1>4, <2>2
  <2> QED
    BY <1>1, <2>2, <2>3 DEF DepthOK
<1> QED
  BY <1>3, <1>4 DEF DepthOK

\* A handler that has just pushed a scope.
LEMMA EnterKeepsDepth ==
    ASSUME NEW ct, NEW sc, DepthOK(ct, sc), Len(ct) \in Nat,
           NEW cd, Len(cd) = Len(ct) + 1, \A i \in 1 .. Len(ct) : cd[i] = ct[i],
           cd[Len(cd)].scoped,
           NEW sd, Len(sd) = Len(sc) + 1, \A s \in 1 .. Len(sc) : sd[s] = sc[s],
           sd[Len(sd)].inherits <=> cd[Len(cd)].node.type # "function_call"
    PROVE  DepthOK(cd, sd)
<1>1. \A i \in 0 .. Len(ct) : ScopeCount(cd, i) = ScopeCount(ct, i)
  BY ScopeCountSame
<1>2. ScopeCount(cd, Len(cd)) = ScopeCount(cd, Len(ct)) + 1 /\ Len(ct) \in 0 .. Len(ct)
  BY ScopeCountStep
<1>3. Len(sc) = 1 + ScopeCount(ct, Len(ct)) /\ ScopeCount(ct, Len(ct)) \in Nat
  BY ScopeCountStep DEF DepthOK
<1>4. Len(sd) = 1 + ScopeCount(cd, Len(cd))
  BY <1>1, <1>2, <1>3
<1>5. ASSUME NEW i \in 1 .. Len(cd), cd[i].scoped
      PROVE  sd[ScopeCount(cd, i) + 1].inherits <=> cd[i].node.type # "function_call"
  <2>1. CASE i = Len(cd)
    <3>1. ScopeCount(cd, i) + 1 = Len(sd)
      BY <1>1, <1>2, <1>3, <1>4, <2>1
    <3> QED
      BY <2>1, <3>1
  <2>2. CASE i # Len(cd)
    <3>1. i \in 1 .. Len(ct) /\ i \in 0 .. Len(ct)
      BY <2>2
    <3>2. ct[i].scoped /\ cd[i] = ct[i]
      BY <1>5, <3>1
    <3>3. ScopeCount(ct, i) + 1 \in 1 .. Len(sc)
      BY <1>3, <3>1, ScopeCountBound
    <3>4. sc[ScopeCount(ct, i) + 1].inherits <=> ct[i].node.type # "function_call"
      BY <3>1, <3>2 DEF DepthOK
    <3> QED
      BY <1>1, <3>1, <3>2, <3>3, <3>4
  <2> QED
    BY <2>1, <2>2
<1> QED
  BY <1>4, <1>5 DEF DepthOK

\* A handler is left and its scope is popped.
LEMMA LeaveKeepsDepth ==
    ASSUME NEW ct, NEW sc, DepthOK(ct, sc), Len(ct) \in Nat \ {0}, ct[Len(ct)].scoped
    PROVE  /\ Len(sc) \in Nat /\ Len(sc) > 1
           /\ sc[Len(sc)].inherits <=> ct[Len(ct)].node.type # "function_call"
           /\ \A cd, sd :
                /\ Len(cd) = Len(ct) - 1 /\ \A i \in 1 .. Len(cd) : cd[i] = ct[i]
                /\ Len(sd) = Len(sc) - 1 /\ \A s \in 1 .. Len(sd) : sd[s] = sc[s]
                => DepthOK(cd, sd)
<1> DEFINE n == Len(ct) - 1
<1>0. n \in Nat /\ Len(ct) = n + 1 /\ Len(ct) \in 1 .. Len(ct) /\ n \in 0 .. n
  OBVIOUS
<1>1. ScopeCount(ct, n) \in Nat /\ ScopeCount(ct, Len(ct)) = ScopeCount(ct, n) + 1
  BY <1>0, ScopeCountStep
<1>2. Len(sc) = 2 + ScopeCount(ct, n) /\ Len(sc) = ScopeCount(ct, Len(ct)) + 1
  BY <1>1 DEF DepthOK
<1>3. sc[Len(sc)].inherits <=> ct[Len(ct)].node.type # "function_call"
  BY <1>0, <1>2 DEF DepthOK
<1>4. ASSUME NEW cd, NEW sd,
             Len(cd) = n, \A i \in 1 .. Len(cd) : cd[i] = ct[i],
             Len(sd) = Len(sc) - 1, \A s \in 1 .. Len(sd) : sd[s] = sc[s]
      PROVE  DepthOK(cd, sd)
  <2>1. \A i \in 0 .. n : ScopeCount(cd, i) = ScopeCount(ct, i)
    BY <1>0, <1>4, ScopeCountSame
  <2>2. Len(sd) = 1 + ScopeCount(cd, Len(cd))
    BY <1>0, <1>1, <1>2, <1>4, <2>1
  <2>3. ASSUME NEW i \in 1 .. Len(cd), cd[i].scoped
        PROVE  sd[ScopeCount(cd, i) + 1].inherits <=> cd[i].node.type # "function_call"
    <3>1. i \in 1 .. n /\ i \in 0 .. n /\ i \in 1 .. Len(ct) /\ cd[i] = ct[i] /\ ct[i].scoped
      BY <1>0, <1>4, <2>3
    <3>2. ScopeCount(ct, i) \in Nat /\ ScopeCount(ct, i) =< ScopeCount(ct, n)
      BY <1>0, <3>1, ScopeCountBound
    <3>3. ScopeCount(ct, i) + 1 \in 1 .. Len(sd)
      BY <1>1, <1>2, <1>4, <3>2
    <3>4. sc[ScopeCount(ct, i) + 1].inherits <=> ct[i].node.type # "function_call"
      BY <3>1 DEF DepthOK
    <3>5. ScopeCount(cd, i) = ScopeCount(ct, i)
      BY <2>1, <3>1
    <3>6. sd[ScopeCount(ct, i) + 1] = sc[ScopeCount(ct, i) + 1]
      BY <1>4, <3>3
    <3> QED
      BY <3>1, <3>4, <3>5, <3>6
  <2> QED
    BY <2>2, <2>3 DEF DepthOK
<1> QED
  BY <1>1, <1>2, <1>3, <1>4
===============================================================================
