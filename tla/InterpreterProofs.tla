-------------------------- MODULE InterpreterProofs --------------------------
(***************************************************************************)
(* The theorems about the interpreter: scopes that are popped, on the way  *)
(* out of a body or after an error; the start and the end of a program;    *)
(* the inductive invariant holds of every behaviour; and what follows from *)
(* it for the properties that the runs of Interpreter check.               *)
(***************************************************************************)
EXTENDS InterpreterSteps

\* What is known while the innermost scope is being popped.
LEMMA LeavingFacts ==
    ASSUME IInv, Leaving
    PROVE  /\ phase = "running" /\ control # << >> /\ top.scoped /\ (top.at = "leave" \/ error # "ok")
           /\ Len(control) \in 1 .. Len(control) /\ Len(control) \in Nat \ {0} /\ top = control[Len(control)]
           /\ top \in FrameType /\ FrameOK(ast, top) /\ node = top.node /\ node \in Node
           /\ HandlersOK(ast, control, scopes)
           /\ scopes \in Seq(ScopeType) \ {<< >>}
           /\ StoreOK(scopes, constants, variables, Len(scopes) - 1)
           /\ SavedOK(scopes, constants, variables, saved)
           /\ error = "ok" => /\ top.at = "leave"
                              /\ ModeOK(control, load_references)
                              /\ ReturnOK(control, load_references, flags)
<1>1. /\ phase = "running" /\ control # << >> /\ top.scoped /\ (top.at = "leave" \/ error # "ok")
      /\ top = control[Len(control)] /\ node = top.node
  BY DEF Leaving, top, node
<1>2. ControlOK(ast, control) /\ control \in Seq(FrameType)
  BY DEF IInv, HandlersOK, ControlOK
<1>3. Len(control) \in 1 .. Len(control) /\ Len(control) \in Nat \ {0}
  BY <1>1, <1>2
<1>4. /\ top \in FrameType /\ FrameOK(ast, top) /\ (node.type # "program" <=> node \in Node)
  BY <1>1, <1>2, <1>3, FrameFacts
<1>5. node.type # "program"
  BY <1>1, <1>4 DEF FrameOK
<1>6. Settled = Len(scopes) - 1
  BY DEF Settled
<1>7. /\ HandlersOK(ast, control, scopes)
      /\ StoreOK(scopes, constants, variables, Len(scopes) - 1)
      /\ SavedOK(scopes, constants, variables, saved)
      /\ scopes # << >>
  BY <1>6 DEF IInv, TypesOK
<1>8. error = "ok" => ModeOK(control, load_references) /\ ReturnOK(control, load_references, flags)
  BY <1>1 DEF IInv, ExecutingOK, ModesOK
<1>9. scopes \in Seq(ScopeType)
  BY <1>7 DEF StoreOK
<1> QED
  BY <1>1, <1>3, <1>4, <1>5, <1>7, <1>8, <1>9

\* A vector without one of its elements.
LEMMA WithoutFacts ==
    ASSUME NEW S, NEW s \in Seq(S), Len(s) > 0, NEW i \in Nat
    PROVE  /\ Without(s, i) \in Seq(S) /\ Len(Without(s, i)) = Len(s) - 1
           /\ \A k \in 1 .. Len(s) - 1 : k < i => Without(s, i)[k] = s[k]
<1> DEFINE n == Len(s) - 1
           index(k) == IF k < i THEN k ELSE k + 1
           w == [k \in 1 .. n |-> s[index(k)]]
<1>1. n \in Nat /\ Len(s) = n + 1
  OBVIOUS
<1>2. \A k \in 1 .. n : index(k) \in 1 .. Len(s)
  BY <1>1
<1>3. \A k \in 1 .. n : s[index(k)] \in S
  <2> HIDE DEF index
  <2> QED
    BY <1>2
<1>4. w \in Seq(S) /\ Len(w) = n /\ \A k \in 1 .. n : w[k] = s[index(k)]
  <2> HIDE DEF index, n
  <2> QED
    BY <1>1, <1>3
<1>5. Without(s, i) = w
  BY DEF Without
<1> HIDE DEF w
<1>6. \A k \in 1 .. n : k < i => w[k] = s[k]
  BY <1>4
<1> QED
  BY <1>4, <1>5, <1>6

\* The entry of a name is erased, and the name unbound.
LEMMA EraseKeeps ==
    ASSUME NEW sc \in Seq(ScopeType) \ {<< >>}, NEW cs, NEW vs, StoreOK(sc, cs, vs, Len(sc) - 1),
           NEW sv, SavedOK(sc, cs, vs, sv), Len(sc) > 1,
           NEW sd, NEW name, Unbinds(sc, name, sd),
           NEW d, d = sc[Len(sc)].table[name], NEW cd, NEW vd,
           IF d.is_constant THEN cd = Without(cs, d.index) /\ vd = vs
                            ELSE vd = Without(vs, d.index) /\ cd = cs
    PROVE  StoreOK(sd, cd, vd, Len(sd) - 1) /\ SavedOK(sd, cd, vd, sv)
<1> DEFINE L == Len(sc)
<1>1. /\ cs \in Seq(Value \cup {NoValue}) /\ vs \in Seq(Value) /\ L \in Nat \ {0, 1} /\ L \in 1 .. L
      /\ Len(cs) = Base(sc, L, "constant") /\ Len(vs) = Base(sc, L, "variable")
      /\ \A c \in Kind : IsFiniteSet(Bindings(sc, L, c))
  BY DEF StoreOK
<1>2. /\ sd \in Seq(ScopeType) \ {<< >>} /\ Len(sd) = L /\ \A t \in 1 .. L - 1 : sd[t] = sc[t]
      /\ sd[L].inherits = sc[L].inherits /\ name \in DOMAIN sc[L].table
  BY DEF Unbinds
<1>3. d \in Descriptor /\ d.index \in Nat /\ KindOf(d) \in Kind
  BY <1>1, <1>2, ScopesTyped
<1>4. Base(sc, L, KindOf(d)) > 0
  <2>1. Base(sc, L - 1, KindOf(d)) + 1 =< Base(sc, L, KindOf(d))
    <3>1. L \in Nat /\ L =< L /\ IsFiniteSet(Bindings(sc, L, KindOf(d)))
      BY <1>1, <1>3
    <3> QED
      BY <1>1, <1>2, <3>1, OwnBinding
  <2>2. Base(sc, L - 1, KindOf(d)) \in Nat /\ Base(sc, L, KindOf(d)) \in Nat
    <3>1. /\ L \in Nat /\ IsFiniteSet(Bindings(sc, L, KindOf(d)))
          /\ L - 1 \in 0 .. L /\ L \in 0 .. L /\ L - 1 \in 0 .. L - 1
      BY <1>1, <1>3
    <3>2. Base(sc, L - 1, KindOf(d)) \in Nat
      BY <3>1, BindingsMonotone
    <3>3. Base(sc, L, KindOf(d)) \in Nat
      BY <3>1, BindingsMonotone
    <3> QED
      BY <3>2, <3>3
  <2> QED
    BY <2>1, <2>2
<1>5. Shrunk(cs, vs, d, cd, vd)
  <2>1. CASE d.is_constant
    <3>1. cd = Without(cs, d.index) /\ vd = vs /\ KindOf(d) = "constant"
      BY <2>1 DEF KindOf
    <3>2. Len(cs) > 0
      BY <1>1, <1>4, <3>1
    <3> QED
      BY <1>1, <1>3, <3>1, <3>2, WithoutFacts DEF Shrunk
  <2>2. CASE ~d.is_constant
    <3>1. vd = Without(vs, d.index) /\ cd = cs /\ KindOf(d) = "variable"
      BY <2>2 DEF KindOf
    <3>2. Len(vs) > 0
      BY <1>1, <1>4, <3>1
    <3> QED
      BY <1>1, <1>3, <3>1, <3>2, WithoutFacts DEF Shrunk
  <2> QED
    BY <2>1, <2>2
<1>6. StoreOK(sd, cd, vd, L - 1) /\ AgreeBelow(sc, cs, vs, cd, vd, L - 1)
  BY <1>5, EraseKeepsStore
<1>7. SavedBelow(sv, L - 1)
  <2>1. \A k \in 1 .. Len(sv) : Len(sv[k].scopes) \in 1 .. L - 1
    BY DEF SavedOK, SavedAt
  <2> QED
    BY <1>1, <2>1 DEF SavedBelow
<1>8. SavedOK(sd, cd, vd, sv)
  <2>1. /\ L - 1 \in 0 .. L /\ L =< Len(sd) /\ \A s \in L + 1 .. Len(sd) : sd[s].inherits
        /\ sd \in Seq(ScopeType) /\ \A s \in 1 .. L - 1 : sd[s] = sc[s]
    BY <1>1, <1>2
  <2> QED
    BY <1>2, <1>6, <1>7, <2>1, SavedKept
<1> QED
  BY <1>2, <1>6, <1>8

\* Interpreter.cpp pop_scope, one entry of the scope: the invariant is kept.
LEMMA EraseStep ==
    ASSUME IInv, erase_entry PROVE IInv'
<1>1. /\ Leaving /\ UNCHANGED <<program, control, registers, reference, error, saved>>
  BY DEF erase_entry
<1>2. /\ phase = "running" /\ control # << >> /\ top.scoped /\ (top.at = "leave" \/ error # "ok")
      /\ top = control[Len(control)]
      /\ HandlersOK(ast, control, scopes)
      /\ scopes \in Seq(ScopeType) \ {<< >>}
      /\ StoreOK(scopes, constants, variables, Len(scopes) - 1)
      /\ SavedOK(scopes, constants, variables, saved)
      /\ error = "ok" => /\ top.at = "leave"
                         /\ ModeOK(control, load_references)
                         /\ ReturnOK(control, load_references, flags)
  BY <1>1, LeavingFacts
<1> DEFINE L == Len(scopes)
           T == scopes[L].table
<1>3. PICK name \in DOMAIN T :
        LET d == T[name]
        IN  /\ IF d.is_constant
                 THEN constants' = Without(constants, d.index) /\ UNCHANGED variables
                 ELSE variables' = Without(variables, d.index) /\ UNCHANGED constants
            /\ scopes' = [scopes EXCEPT ![L].table = [n \in DOMAIN @ \ {name} |-> @[n]]]
            /\ phase' \in {"running", "crashed"}
  BY DEF erase_entry, Innermost
<1> DEFINE U == [n \in DOMAIN T \ {name} |-> T[n]]
           d == T[name]
<1>4. scopes' = [scopes EXCEPT ![L].table = U]
  BY <1>3
<1>5. U \in TableType /\ DOMAIN U = DOMAIN T \ {name} /\ \A n \in DOMAIN U : U[n] = T[n]
  <2>1. L \in 1 .. L
    BY <1>2
  <2>2. DOMAIN T \subseteq Name /\ T \in [DOMAIN T -> Descriptor]
    BY <1>2, <2>1, ScopesTyped
  <2>3. U \in [DOMAIN T \ {name} -> Descriptor] /\ DOMAIN T \ {name} \subseteq Name
    BY <2>2
  <2> QED
    BY <2>3 DEF TableType
<1> HIDE DEF U
<1>6. /\ scopes' \in Seq(ScopeType) \ {<< >>} /\ Len(scopes') = L /\ L \in Nat \ {0}
      /\ scopes'[L].table = U /\ scopes'[L].inherits = scopes[L].inherits
      /\ \A t \in 1 .. L - 1 : scopes'[t] = scopes[t]
  BY <1>2, <1>4, <1>5, TableReplaced
<1>7. Unbinds(scopes, name, scopes')
  BY <1>3, <1>5, <1>6 DEF Unbinds
<1>8. L > 1
  <2>1. Len(control) \in Nat \ {0} /\ DepthOK(control, scopes)
    BY <1>2 DEF HandlersOK, ControlOK
  <2> QED
    BY <1>2, <2>1, LeaveKeepsDepth
<1>9. /\ StoreOK(scopes', constants', variables', Len(scopes') - 1)
      /\ SavedOK(scopes', constants', variables', saved)
  <2>1. IF d.is_constant THEN constants' = Without(constants, d.index) /\ variables' = variables
                         ELSE variables' = Without(variables, d.index) /\ constants' = constants
    BY <1>3
  <2>2. d = scopes[Len(scopes)].table[name]
    OBVIOUS
  <2> HIDE DEF d
  <2> QED
    BY <1>2, <1>7, <1>8, <2>1, <2>2, EraseKeeps
<1>10. HandlersOK(ast, control, scopes')
  <2>1. \A s \in 1 .. L : scopes'[s].inherits = scopes[s].inherits
    <3>1. \A s \in 1 .. L : s = L \/ s \in 1 .. L - 1
      BY <1>6
    <3> QED
      BY <1>6, <3>1
  <2>2. Len(control) \in Nat /\ DepthOK(control, scopes)
    BY <1>2 DEF HandlersOK, ControlOK
  <2>3. DepthOK(control, scopes')
    BY <1>6, <2>1, <2>2, SameKeepsDepth
  <2> QED
    BY <1>2, <2>3 DEF HandlersOK
<1>11. /\ ast' = ast /\ parameters' = parameters /\ result' = result /\ flags' = flags /\ control' = control
       /\ load_references' = load_references /\ current_descriptor' = current_descriptor
       /\ error' = error /\ saved' = saved /\ phase' \in {"running", "crashed"}
  BY <1>1, <1>3 DEF program, registers, reference
<1>12. TypesOK'
  BY <1>6, <1>11 DEF IInv, TypesOK
<1>13. StartOK'
  BY <1>11 DEF StartOK
<1>14. Settled' = Len(scopes') - 1
  <2>1. phase' = "running" => Leaving'
    BY <1>2, <1>11 DEF Leaving, top
  <2> QED
    BY <1>11, <2>1 DEF Settled
<1>15. ExecutingOK'
  <2>1. ASSUME phase' = "running", error' = "ok"
        PROVE  ModesOK(control, scopes', load_references, flags, current_descriptor)
    BY <1>2, <1>11, <2>1 DEF ModesOK, CurrentOK, IsTarget
  <2> QED
    BY <1>11, <2>1 DEF ExecutingOK
<1>16. StoreOK(scopes, constants, variables, Settled)' /\ SavedOK(scopes, constants, variables, saved)'
  BY <1>9, <1>11, <1>14
<1>17. HandlersOK(ast, control, scopes)'
  BY <1>10, <1>11
<1> QED
  BY <1>12, <1>13, <1>15, <1>16, <1>17 DEF IInv

\* All entries of a scope are gone: it is popped, and its handler returns or starts again.
LEMMA PopStep ==
    ASSUME IInv, pop_scope PROVE IInv'
<1>1. /\ Leaving /\ Innermost.table = NoNames
      /\ scopes' = SubSeq(scopes, 1, Len(scopes) - 1)
      /\ current_descriptor' = NoDescriptor
      /\ IF error = "ok" /\ node.type = "loop" THEN Become(Frame(node)) ELSE control' = Callers
      /\ saved' = IF node.type = "function_call" THEN SubSeq(saved, 1, Len(saved) - 1) ELSE saved
      /\ UNCHANGED <<phase, program, constants, variables, registers, load_references, error>>
  BY DEF pop_scope
<1>2. /\ phase = "running" /\ control # << >> /\ top.scoped
      /\ Len(control) \in Nat \ {0}
      /\ top = control[Len(control)] /\ node = top.node /\ node \in Node /\ FrameOK(ast, top)
      /\ HandlersOK(ast, control, scopes)
      /\ scopes \in Seq(ScopeType) \ {<< >>}
      /\ StoreOK(scopes, constants, variables, Len(scopes) - 1)
      /\ SavedOK(scopes, constants, variables, saved)
      /\ error = "ok" => /\ top.at = "leave"
                         /\ ModeOK(control, load_references)
                         /\ ReturnOK(control, load_references, flags)
  BY <1>1, LeavingFacts
<1> DEFINE L  == Len(scopes)
           ce == SubSeq(control, 1, Len(control) - 1)
           cd == Append(ce, Frame(node))
           sd == SubSeq(scopes, 1, L - 1)
<1>3. /\ L > 1 /\ (scopes[L].inherits <=> node.type # "function_call")
      /\ HandlersOK(ast, ce, sd) /\ HandlersOK(ast, cd, sd)
      /\ \A load, fl, d : /\ IsReturning(fl) => load
                          /\ node.type = "loop"
                          => ModesOK(cd, sd, load, fl, d)
  <2>1. control[Len(control)].scoped /\ scopes \in Seq(ScopeType) /\ control[Len(control)].node = node
    BY <1>2
  <2> QED
    BY <1>2, <2>1, LeaveKeeps
<1>4. /\ sd \in Seq(ScopeType) /\ Len(sd) = L - 1 /\ L \in Nat \ {0} /\ \A s \in 1 .. L - 1 : sd[s] = scopes[s]
  BY <1>2, FrontOf
<1>5. scopes' = sd /\ control' \in {ce, cd}
  BY <1>1 DEF Become, Callers
<1> HIDE DEF ce, cd, sd
<1>6. StoreOK(sd, constants, variables, L - 1)
  <2>1. DOMAIN scopes[L].table = {}
    BY <1>1 DEF Innermost, NoNames
  <2>2. \A t \in 1 .. L - 1 : sd[t].table = scopes[t].table
    BY <1>4
  <2> QED
    BY <1>2, <1>3, <1>4, <2>1, <2>2, PopKeepsStore
<1>7. SavedOK(sd, constants, variables, saved')
  <2>1. saved' = IF scopes[L].inherits THEN saved ELSE SubSeq(saved, 1, Len(saved) - 1)
    BY <1>1, <1>3
  <2> QED
    <3>1. /\ scopes[Len(scopes)].inherits => saved' = saved
          /\ ~scopes[Len(scopes)].inherits => saved' = SubSeq(saved, 1, Len(saved) - 1)
      BY <2>1
    <3>2. /\ Len(scopes) > 1 /\ sd \in Seq(ScopeType) /\ Len(sd) = Len(scopes) - 1
          /\ \A s \in 1 .. Len(scopes) - 1 : sd[s] = scopes[s]
      BY <1>3, <1>4
    <3> QED
      BY <1>2, <3>1, <3>2, PopKeepsSaved
<1>8. /\ phase' = phase /\ ast' = ast /\ parameters' = parameters /\ result' = result /\ flags' = flags
      /\ constants' = constants /\ variables' = variables /\ load_references' = load_references
      /\ error' = error /\ current_descriptor' = NoDescriptor
  BY <1>1 DEF program, registers
<1>9. TypesOK'
  <2>1. NoDescriptor \in Descriptor
    BY DEF NoDescriptor, Descriptor
  <2>2. sd # << >>
    BY <1>3, <1>4
  <2> QED
    BY <1>5, <1>8, <2>1, <2>2 DEF IInv, TypesOK
<1>10. ASSUME error = "ok"
       PROVE  ModesOK(control', sd, load_references, flags, NoDescriptor)
  <2>1. top.at = "leave" /\ ModeOK(control, load_references) /\ ReturnOK(control, load_references, flags)
    BY <1>2, <1>10
  <2>2. IsReturning(flags) => load_references
    BY <2>1 DEF ReturnOK
  <2>3. CASE node.type = "loop"
    <3>1. control' = cd
      BY <1>1, <1>10, <2>3 DEF Become, Callers, cd, ce
    <3> QED
      BY <1>3, <2>2, <2>3, <3>1
  <2>4. CASE node.type # "loop"
    <3>1. control' = SubSeq(control, 1, Len(control) - 1)
      BY <1>1, <2>4 DEF Callers
    <3>2. node.type \in {"conditional_construct", "function_call"}
      BY <1>2, <2>1, <2>4, NodeAssumption DEF FrameOK, Labels
    <3>3. IsReturning(flags) => value_type(node) = "none"
      <4>1. IsReturning(flags) => node.type # "function_call"
        BY <1>2, <2>1, <2>4 DEF ReturnOK
      <4> QED
        BY <3>2, <4>1 DEF value_type, NumberType
    <3>4. ASSUME Len(control) > 1
          PROVE  LET g == control[Len(control) - 1]
                 IN  ~IsTarget(g) /\ (g.at \in OperandLabel => load_references)
      <4>1. Len(control) - 1 \in 1 .. Len(control) - 1 /\ (Len(control) - 1) + 1 = Len(control)
        BY <1>2, <3>4
      <4>2. ~IsTarget(control[Len(control) - 1])
        <5>1. ~is_lvalue(node)
          BY <3>2 DEF is_lvalue
        <5> QED
          BY <1>2, <4>1, <5>1, CallerFacts DEF HandlersOK
      <4>3. CASE node.type = "function_call"
        BY <1>2, <2>1, <4>2, <4>3 DEF ModeOK
      <4>4. CASE node.type = "conditional_construct"
        <5>1. value_type(node) = "none"
          BY <4>4 DEF value_type, NumberType
        <5>2. control[Len(control) - 1].at \notin OperandLabel
          BY <1>2, <4>1, <5>1, CallerFacts DEF HandlersOK
        <5> QED
          BY <4>2, <5>2
      <4> QED
        BY <3>2, <4>3, <4>4
    <3>5. /\ ControlOK(ast, control) /\ node.type # "function_return"
          /\ control[Len(control)].node = node
      BY <1>2, <3>2 DEF HandlersOK
    <3> QED
      BY <1>2, <2>2, <3>1, <3>3, <3>4, <3>5, ReturnModes
  <2> QED
    BY <2>3, <2>4
<1>11. HandlersOK(ast', control', scopes')
  BY <1>3, <1>5, <1>8
<1> QED
  BY <1>2, <1>4, <1>5, <1>6, <1>7, <1>8, <1>9, <1>10, <1>11, Conclude

\* An error is handed on to the caller, whose scope is popped first if it has one.
LEMMA PropagateStep ==
    ASSUME IInv, propagate_error PROVE IInv'
<1>1. /\ phase = "running" /\ error # "ok" /\ control # << >> /\ ~top.scoped
      /\ control' = SubSeq(control, 1, Len(control) - 1)
      /\ UNCHANGED <<phase, program, store, registers, reference, error, saved>>
  BY DEF propagate_error, Callers
<1>2. Settled = Len(scopes)
  BY <1>1 DEF Settled, Leaving
<1>3. /\ HandlersOK(ast, control, scopes)
      /\ StoreOK(scopes, constants, variables, Len(scopes))
      /\ SavedOK(scopes, constants, variables, saved)
  BY <1>2 DEF IInv
<1>4. HandlersOK(ast, control', scopes)
  BY <1>1, <1>3, ReturnKeepsHandlers DEF top
<1>5. /\ phase' = phase /\ ast' = ast /\ parameters' = parameters /\ result' = result /\ flags' = flags
      /\ constants' = constants /\ variables' = variables /\ scopes' = scopes
      /\ load_references' = load_references /\ current_descriptor' = current_descriptor
      /\ error' = error /\ saved' = saved
  BY <1>1 DEF program, store, registers, reference
<1>6. TypesOK'
  BY <1>5 DEF IInv, TypesOK
<1> QED
  BY <1>1, <1>3, <1>4, <1>5, <1>6, Conclude


\* Two elements, one after the other.
LEMMA TwoElements ==
    ASSUME NEW S, NEW f \in S, NEW g \in S
    PROVE  Append(Append(<< >>, f), g) = <<f, g>>
<1> DEFINE a == Append(Append(<< >>, f), g)
           b == <<f, g>>
<1>1. b \in Seq(S) /\ Len(b) = 2 /\ b[1] = f /\ b[2] = g
  OBVIOUS
<1>2. a \in Seq(S) /\ Len(a) = 2 /\ a[1] = f /\ a[2] = g
  OBVIOUS
<1>3. \A i \in 1 .. 2 : a[i] = b[i]
  BY <1>1, <1>2
<1> HIDE DEF a, b
<1>4. a = b
  BY <1>1, <1>2, <1>3, SeqEqual
<1> QED
  BY <1>4 DEF a, b

\* Nothing is stored before the first scope is pushed.
LEMMA EmptyStore == StoreOK(<< >>, << >>, << >>, 0)
<1>1. \A c : Bindings(<< >>, 0, c) = {}
  BY DEF Bindings
<1>2. \A c : IsFiniteSet(Bindings(<< >>, 0, c)) /\ Base(<< >>, 0, c) = 0
  BY <1>1, FS_EmptySet DEF Base
<1> QED
  BY <1>2 DEF StoreOK, EntriesOK

\* The global scope, in which the inputs are constants and the outputs variables.
LEMMA GlobalScope ==
    ASSUME NEW a \in Seq(Name), NEW o \in Seq(Name), Distinct(a), Distinct(o),
           Elements(a) \cap Elements(o) = {},
           NEW cd \in Seq(Value \cup {NoValue}), NEW vd \in Seq(Value),
           Len(cd) = Len(a), Len(vd) = Len(o),
           NEW U \in TableType, DOMAIN U = Elements(a) \cup Elements(o),
           Numbered(U, a, 0, "constant"), Numbered(U, o, 0, "variable"),
           NEW sd, sd = <<Scope(FALSE, U)>>
    PROVE  StoreOK(sd, cd, vd, Len(sd)) /\ SavedOK(sd, cd, vd, << >>) /\ Len(sd) = 1 /\ sd # << >>
<1>1. sd \in Seq(ScopeType) /\ Len(sd) = 1 /\ sd[1].table = U
  <2> DEFINE s == Scope(FALSE, U)
  <2>1. s \in ScopeType /\ s.table = U
    BY DEF Scope, ScopeType
  <2>2. sd = <<s>>
    OBVIOUS
  <2> HIDE DEF s
  <2>3. <<s>> \in Seq(ScopeType) /\ Len(<<s>>) = 1 /\ <<s>>[1] = s
    BY <2>1
  <2> QED
    BY <2>1, <2>2, <2>3
<1>2. Pushed(<< >>, << >>, << >>, a, o, sd)
  <2>1. Len(<< >>) = 0 /\ 0 + 1 = 1 /\ \A t \in 1 .. 0 : FALSE
    OBVIOUS
  <2> QED
    BY <1>1, <2>1 DEF Pushed
<1>3. StoreOK(sd, cd, vd, Len(sd))
  <2>1. Len(<< >>) = 0 /\ Len(cd) = 0 + Len(a) /\ Len(vd) = 0 + Len(o)
    OBVIOUS
  <2> QED
    BY <1>2, <2>1, EmptyStore, NewScopeKeepsStore
<1>4. SavedOK(sd, cd, vd, << >>)
  BY <1>1 DEF SavedOK
<1> QED
  BY <1>1, <1>3, <1>4

\* The program waits to be executed: its inputs and outputs are not bound yet.
LEMMA InitStep ==
    ASSUME Init PROVE IInv
<1>1. /\ phase = "starting" /\ ast \in Programs /\ parameters \in Parameters
      /\ control = << >> /\ constants = << >> /\ variables = << >>
      /\ scopes = <<Scope(FALSE, NoNames)>> /\ result = Zero /\ flags = {}
      /\ current_descriptor = NoDescriptor /\ load_references = FALSE /\ error = "ok" /\ saved = << >>
  BY DEF Init
<1>2. NoNames \in TableType /\ DOMAIN NoNames = {}
  BY DEF NoNames, TableType
<1>3. /\ << >> \in Seq(Name) /\ << >> \in Seq(Value) /\ << >> \in Seq(Value \cup {NoValue})
      /\ Elements(<< >>) = {} /\ Distinct(<< >>)
      /\ \A c : Numbered(NoNames, << >>, 0, c)
  BY DEF Elements, Distinct, Numbered
<1>4. /\ StoreOK(scopes, constants, variables, Len(scopes))
      /\ SavedOK(scopes, constants, variables, saved)
      /\ Len(scopes) = 1 /\ scopes # << >>
  BY <1>1, <1>2, <1>3, GlobalScope
<1>5. HandlersOK(ast, control, scopes)
  <2>1. ControlOK(ast, << >>)
    BY DEF ControlOK
  <2>2. DepthOK(<< >>, scopes)
    BY <1>4, ScopeCountZero DEF DepthOK
  <2> QED
    BY <1>1, <2>1, <2>2 DEF HandlersOK
<1>6. Settled = Len(scopes)
  BY <1>1 DEF Settled, Leaving
<1>7. TypesOK
  BY <1>1, <1>4, ValueAssumption DEF TypesOK, NoDescriptor, Descriptor, ErrorCode
<1> QED
  BY <1>1, <1>4, <1>5, <1>6, <1>7 DEF IInv, StartOK, ExecutingOK

\* The program is over, or its first error has arrived at interpret.
LEMMA FinishStep ==
    ASSUME IInv, finish PROVE IInv'
<1>1. /\ phase = "running" /\ control = << >> /\ phase' \in {"done", "failed"}
      /\ ast' = ast /\ parameters' = parameters /\ control' = control /\ result' = result /\ flags' = flags
      /\ constants' = constants /\ variables' = variables /\ scopes' = scopes
      /\ current_descriptor' = current_descriptor /\ load_references' = load_references
      /\ error' = error /\ saved' = saved
  BY DEF finish, program, store, registers, reference
<1>2. Settled = Len(scopes) /\ Settled' = Len(scopes)
  BY <1>1 DEF Settled, Leaving
<1>3. /\ HandlersOK(ast, control, scopes)
      /\ StoreOK(scopes, constants, variables, Len(scopes))
      /\ SavedOK(scopes, constants, variables, saved)
  BY <1>2 DEF IInv
<1>4. TypesOK'
  BY <1>1 DEF IInv, TypesOK
<1>5. StartOK' /\ ExecutingOK'
  BY <1>1 DEF StartOK, ExecutingOK
<1> QED
  BY <1>1, <1>2, <1>3, <1>4, <1>5 DEF IInv

\* The next node of the program is executed, or the program is over.
LEMMA ProgramStep ==
    ASSUME IInv, execute_program PROVE IInv'
<1>1. /\ Active /\ node.type = "program" /\ top.at = "body" /\ top.at # "leave"
      /\ phase' = phase /\ ast' = ast /\ parameters' = parameters /\ scopes' = scopes
      /\ constants' = constants /\ variables' = variables /\ saved' = saved
  BY DEF execute_program, At, Active, program, store
<1>2. /\ top \in FrameType /\ node = top.node /\ FrameOK(ast, top)
      /\ phase = "running" /\ error = "ok" /\ control # << >> /\ top = control[Len(control)]
      /\ HandlersOK(ast, control, scopes) /\ Len(control) \in 1 .. Len(control)
      /\ StoreOK(scopes, constants, variables, Len(scopes))
      /\ SavedOK(scopes, constants, variables, saved)
  BY <1>1, ActiveFacts
<1>3. Len(control) = 1
  <2>1. ControlOK(ast, control)
    BY <1>2 DEF HandlersOK
  <2> QED
    BY <1>1, <1>2, <2>1, FrameFacts
<1>4. ~top.scoped
  BY <1>1, <1>2 DEF FrameOK
<1>5. CASE top.rest = << >>
  <2>1. /\ control' = SubSeq(control, 1, Len(control) - 1) /\ error' = error /\ result' = result
        /\ flags' = flags /\ current_descriptor' = current_descriptor
        /\ load_references' = load_references
    BY <1>5 DEF execute_program, Return, Callers, registers, reference
  <2>2. HandlersOK(ast, control', scopes)
    BY <1>2, <1>4, <2>1, ReturnKeepsHandlers
  <2>3. control' = << >>
    <3>1. control \in Seq(FrameType)
      BY <1>2 DEF HandlersOK, ControlOK
    <3> QED
      BY <1>3, <2>1, <3>1
  <2>4. TypesOK'
    BY <1>1, <2>1 DEF IInv, TypesOK
  <2> QED
    BY <1>1, <1>2, <2>2, <2>3, <2>4, Conclude DEF ModesOK
<1>6. CASE top.rest # << >>
  <2> DEFINE f == [top EXCEPT !.rest = Tail(@)]
             n == Head(top.rest)
  <2>1. /\ result' = Zero /\ flags' = {} /\ current_descriptor' = NoDescriptor
        /\ load_references' = TRUE /\ control' = <<f, Frame(n)>> /\ error' = error
    BY <1>6 DEF execute_program
  <2>2. f \in FrameType /\ f.at = "body" /\ f.node = node /\ f.scoped = top.scoped /\ n \in Node
    BY <1>1, <1>2, <1>6, FrameTail
  <2> HIDE DEF f, n
  <2>3. FrameOK(ast, f) /\ Called(f, Frame(n)) /\ ~IsReturning({}) /\ f.at \notin OperandLabel
    BY <1>1, <1>2, <1>4, <2>2 DEF FrameOK, Labels, Called, IsReturning, OperandLabel
  <2>4. control' = Append(Append(SubSeq(control, 1, Len(control) - 1), f), Frame(n))
    <3>1. control \in Seq(FrameType)
      BY <1>2 DEF HandlersOK, ControlOK
    <3>2. SubSeq(control, 1, Len(control) - 1) = << >>
      BY <1>3, <3>1
    <3> DEFINE g == Frame(n)
    <3>3. g \in FrameType /\ control' = <<f, g>>
      BY <2>1, <2>2, NewFrame
    <3> HIDE DEF g
    <3>4. Append(Append(<< >>, f), g) = <<f, g>>
      BY <2>2, <3>3, TwoElements
    <3> QED
      BY <3>2, <3>3, <3>4 DEF g
  <2>5. HandlersOK(ast, control', scopes) /\ ModesOK(control', scopes, TRUE, {}, NoDescriptor)
    <3>1. f.node = control[Len(control)].node /\ f.scoped = control[Len(control)].scoped
      BY <1>2, <2>2
    <3> QED
      BY <1>2, <2>2, <2>3, <2>4, <3>1, ExecuteKeeps
  <2>6. TypesOK'
    BY <1>1, <2>1, ValueAssumption DEF IInv, TypesOK, NoDescriptor, Descriptor
  <2> QED
    BY <1>1, <1>2, <2>1, <2>5, <2>6, Conclude
<1> QED
  BY <1>5, <1>6


\* populate reports an error unless every name of the config block is all right.
LEMMA PopulateFacts ==
    ASSUME ast \in Programs, parameters \in Parameters
    PROVE  /\ PopulateError \in ErrorCode
           /\ PopulateError = "ok" => \A k \in 1 .. Len(ast.inputs) + Len(ast.outputs) : ConfigError(k) = "ok"
<1> DEFINE count  == Len(ast.inputs) + Len(ast.outputs)
           failed == { k \in 1 .. count : ConfigError(k) # "ok" }
           least  == CHOOSE k \in failed : \A j \in failed : k =< j
<1>1. \A k : ConfigError(k) \in {"ok", "duplicate_name", "invalid_input_identifier"}
  BY DEF ConfigError
<1>2. failed # {} => least \in failed
  <2>1. failed \subseteq Nat
    <3>1. ast.inputs \in Seq(Name) /\ ast.outputs \in Seq(Name)
      BY ProgramAssumption DEF WellFormed
    <3>2. Len(ast.inputs) \in Nat /\ Len(ast.outputs) \in Nat
      BY <3>1
    <3> DEFINE i == Len(ast.inputs)
               o == Len(ast.outputs)
    <3>3. count \in Nat
      <4>1. i \in Nat /\ o \in Nat /\ count = i + o
        BY <3>2
      <4> HIDE DEF i, o, count
      <4> QED
        BY <4>1
    <3> HIDE DEF count
    <3> QED
      BY <3>3
  <2> HIDE DEF failed
  <2>2. failed # {} => \E m \in failed : \A k \in failed : m =< k
    BY <2>1, Least
  <2> QED
    BY <2>2
<1>3. failed # {} => ConfigError(least) \in {"duplicate_name", "invalid_input_identifier"}
  BY <1>1, <1>2
<1>4. /\ PopulateError \in {"ok", "not_enough_input_identifiers", "duplicate_name", "invalid_input_identifier"}
      /\ PopulateError = "ok" => failed = {}
  <2> HIDE DEF ConfigError, least
  <2>1. PopulateError = IF Len(ast.inputs) # Cardinality(DOMAIN parameters) THEN "not_enough_input_identifiers"
                        ELSE IF failed = {} THEN "ok" ELSE ConfigError(least)
    BY DEF PopulateError, least
  <2> HIDE DEF failed
  <2> QED
    BY <1>3, <2>1
<1> QED
  BY <1>4 DEF ErrorCode

\* The names of the config block that populate accepts: no two are the same, and
\* every input has a value.
LEMMA ConfigFacts ==
    ASSUME NEW p \in Programs, p = ast, parameters \in Parameters, PopulateError = "ok"
    PROVE  /\ p.inputs \in Seq(Name) /\ p.outputs \in Seq(Name)
           /\ Distinct(p.inputs) /\ Distinct(p.outputs)
           /\ Elements(p.inputs) \cap Elements(p.outputs) = {}
           /\ \A k \in 1 .. Len(p.inputs) : p.inputs[k] \in DOMAIN parameters
<1> DEFINE a == p.inputs
           o == p.outputs
           q == a \o o
           I == Len(a)
           N == Len(a) + Len(o)
<1>1. a \in Seq(Name) /\ o \in Seq(Name)
  BY ProgramAssumption DEF WellFormed
<1>2. I \in Nat /\ Len(o) \in Nat /\ N = I + Len(o) /\ N \in Nat /\ I =< N
  <2>1. Len(a) \in Nat /\ Len(o) \in Nat
    <3> HIDE DEF a, o
    <3> QED
      BY <1>1
  <2> HIDE DEF a, o
  <2> QED
    BY <2>1
<1>3. \A i \in 1 .. N : q[i] = IF i =< I THEN a[i] ELSE o[i - I]
  <2> HIDE DEF a, o
  <2> QED
    BY <1>1, ConcatProperties
<1>4. ASSUME NEW k \in 1 .. N
      PROVE  /\ ~\E j \in 1 .. k - 1 : q[j] = q[k]
             /\ k =< I => q[k] \in DOMAIN parameters
  <2>1. ConfigError(k) = "ok"
    BY <1>4, PopulateFacts
  <2> QED
    BY <2>1 DEF ConfigError
<1> HIDE DEF q
<1> HIDE DEF I, N
<1>5. ASSUME NEW j \in 1 .. N, NEW k \in 1 .. N, q[j] = q[k] PROVE j = k
  <2>1. ~(j < k)
    BY <1>2, <1>4, <1>5
  <2>2. ~(k < j)
    BY <1>2, <1>4, <1>5
  <2> QED
    BY <1>2, <2>1, <2>2
<1>6. \A k \in 1 .. I : k \in 1 .. N /\ q[k] = a[k]
  BY <1>2, <1>3
<1>7. \A k \in 1 .. Len(o) : k + I \in 1 .. N /\ q[k + I] = o[k]
  <2>1. ASSUME NEW k \in 1 .. Len(o)
        PROVE  k + I \in 1 .. N /\ ~(k + I =< I) /\ (k + I) - I = k
    <3> HIDE DEF a, o
    <3> QED
      BY <1>2
  <2> QED
    BY <1>3, <2>1
<1> HIDE DEF a, o
<1>8. I = Len(a)
  BY DEF I
<1>9. Distinct(a)
  BY <1>5, <1>6, <1>8 DEF Distinct
<1>10. Distinct(o)
  <2>1. ASSUME NEW j \in 1 .. Len(o), NEW k \in 1 .. Len(o), o[j] = o[k] PROVE j = k
    <3>1. j + I = k + I
      BY <1>5, <1>7, <2>1
    <3> QED
      BY <1>2, <3>1
  <2> QED
    BY <2>1 DEF Distinct
<1>11. Elements(a) \cap Elements(o) = {}
  <2>1. ASSUME NEW j \in 1 .. I, NEW k \in 1 .. Len(o), a[j] = o[k] PROVE FALSE
    <3>1. j = k + I
      BY <1>5, <1>6, <1>7, <2>1
    <3> QED
      BY <1>2, <3>1
  <2> QED
    BY <1>8, <2>1 DEF Elements
<1>12. \A k \in 1 .. I : a[k] \in DOMAIN parameters
  BY <1>2, <1>4, <1>6
<1> QED
  BY <1>1, <1>8, <1>9, <1>10, <1>11, <1>12 DEF a, o

\* The global scope binds the inputs to the first constants, the outputs to the first variables.
LEMMA GlobalTable ==
    ASSUME NEW a \in Seq(Name), NEW o \in Seq(Name), Distinct(a), Distinct(o),
           Elements(a) \cap Elements(o) = {},
           NEW U, U = [n \in Elements(a) \cup Elements(o) |->
                          IF n \in Elements(a)
                            THEN [index |-> CHOOSE k \in DOMAIN a : a[k] = n, is_constant |-> TRUE]
                            ELSE [index |-> CHOOSE k \in DOMAIN o : o[k] = n, is_constant |-> FALSE]]
    PROVE  /\ U \in TableType /\ DOMAIN U = Elements(a) \cup Elements(o)
           /\ Numbered(U, a, 0, "constant") /\ Numbered(U, o, 0, "variable")
<1>1. /\ DOMAIN U = Elements(a) \cup Elements(o) /\ Elements(a) \cup Elements(o) \subseteq Name
      /\ U = [n \in Elements(a) \cup Elements(o) |-> U[n]]
  BY DEF Elements
<1>2. ASSUME NEW k \in 1 .. Len(a)
      PROVE  U[a[k]] = [index |-> k, is_constant |-> TRUE] /\ a[k] \in Elements(a)
  <2>1. a[k] \in Elements(a)
    BY DEF Elements
  <2>2. (CHOOSE j \in DOMAIN a : a[j] = a[k]) = k
    BY Place
  <2>3. U[a[k]] = [index |-> CHOOSE j \in DOMAIN a : a[j] = a[k], is_constant |-> TRUE]
    BY <2>1
  <2> QED
    BY <2>1, <2>2, <2>3
<1>3. ASSUME NEW k \in 1 .. Len(o)
      PROVE  U[o[k]] = [index |-> k, is_constant |-> FALSE] /\ o[k] \in Elements(o)
  <2>1. o[k] \in Elements(o) /\ o[k] \notin Elements(a)
    BY DEF Elements
  <2>2. (CHOOSE j \in DOMAIN o : o[j] = o[k]) = k
    BY Place
  <2>3. U[o[k]] = [index |-> CHOOSE j \in DOMAIN o : o[j] = o[k], is_constant |-> FALSE]
    BY <2>1
  <2> QED
    BY <2>1, <2>2, <2>3
<1>4. Len(a) \in Nat /\ Len(o) \in Nat
  OBVIOUS
<1>6. ASSUME NEW k \in 1 .. Len(a)
      PROVE  U[a[k]] \in Descriptor /\ U[a[k]].index = 0 + k /\ KindOf(U[a[k]]) = "constant"
  <2> DEFINE r == [index |-> k, is_constant |-> TRUE]
  <2>1. k \in Nat /\ 0 + k = k
    BY <1>4
  <2>2. r \in Descriptor /\ r.index = 0 + k /\ KindOf(r) = "constant"
    BY <2>1 DEF Descriptor, KindOf
  <2>3. U[a[k]] = r
    BY <1>2
  <2> HIDE DEF r
  <2> QED
    BY <2>2, <2>3
<1>7. ASSUME NEW k \in 1 .. Len(o)
      PROVE  U[o[k]] \in Descriptor /\ U[o[k]].index = 0 + k /\ KindOf(U[o[k]]) = "variable"
  <2> DEFINE r == [index |-> k, is_constant |-> FALSE]
  <2>1. k \in Nat /\ 0 + k = k
    BY <1>4
  <2>2. r \in Descriptor /\ r.index = 0 + k /\ KindOf(r) = "variable"
    BY <2>1 DEF Descriptor, KindOf
  <2>3. U[o[k]] = r
    BY <1>3
  <2> HIDE DEF r
  <2> QED
    BY <2>2, <2>3
<1>8. Numbered(U, a, 0, "constant") /\ Numbered(U, o, 0, "variable")
  BY <1>6, <1>7 DEF Numbered
<1>9. \A n \in Elements(a) \cup Elements(o) : U[n] \in Descriptor
  BY <1>6, <1>7 DEF Elements
<1>10. U \in TableType
  <2> DEFINE D == Elements(a) \cup Elements(o)
  <2>1. D \in SUBSET Name /\ U = [n \in D |-> U[n]] /\ \A n \in D : U[n] \in Descriptor
    BY <1>1, <1>9
  <2> HIDE DEF D
  <2>2. [n \in D |-> U[n]] \in [D -> Descriptor]
    BY <2>1
  <2> QED
    BY <2>1, <2>2 DEF TableType
<1> QED
  BY <1>1, <1>8, <1>10


\* The handler that goes through the nodes of the program is the only one.
LEMMA TopLevelHandler ==
    ASSUME NEW p, NEW nodes \in Seq(Node), NEW sc, Len(sc) = 1
    PROVE  HandlersOK(p, <<TopLevel(nodes)>>, sc)
<1> DEFINE f == TopLevel(nodes)
           ct == <<f>>
<1>1. /\ f \in FrameType /\ f.node = ProgramNode /\ f.node.type = "program" /\ f.at = "body"
      /\ ~f.scoped
  BY DEF TopLevel, FrameType, ProgramNode, Label
<1> HIDE DEF f
<1>2. FrameOK(p, f)
  BY <1>1 DEF FrameOK, Labels
<1>3. ct \in Seq(FrameType) /\ Len(ct) = 1 /\ ct[1] = f
  BY <1>1
<1> HIDE DEF ct
<1>4. ControlOK(p, ct)
  <2>1. \A i \in 1 .. Len(ct) : i = 1 /\ ct[i] = f
    BY <1>3
  <2>2. \A i \in 1 .. Len(ct) - 1 : FALSE
    BY <1>3
  <2> QED
    BY <1>1, <1>2, <1>3, <2>1, <2>2 DEF ControlOK
<1>5. DepthOK(ct, sc)
  <2>1. ScopeCount(ct, 0) = 0 /\ ScopeCount(ct, 0 + 1) = IF ct[0 + 1].scoped THEN ScopeCount(ct, 0) + 1 ELSE ScopeCount(ct, 0)
    BY ScopeCountZero, ScopeCountStep
  <2>2. ScopeCount(ct, 1) = 0
    BY <1>1, <1>3, <2>1
  <2>3. \A i \in 1 .. Len(ct) : ~ct[i].scoped
    BY <1>1, <1>3
  <2> QED
    BY <1>3, <2>2, <2>3 DEF DepthOK
<1> QED
  BY <1>4, <1>5 DEF HandlersOK, ct, f

\* The inputs and outputs are bound, or an error ends the program before it starts.
LEMMA PopulateStep ==
    ASSUME IInv, populate PROVE IInv'
<1>1. /\ phase = "starting" /\ error' = PopulateError
      /\ ast' = ast /\ parameters' = parameters /\ result' = result /\ flags' = flags
      /\ current_descriptor' = current_descriptor /\ load_references' = load_references /\ saved' = saved
  BY DEF populate, program, registers, reference
<1>2. /\ ast \in Programs /\ parameters \in Parameters /\ saved = << >> /\ flags = {} /\ control = << >>
  BY <1>1 DEF IInv, TypesOK, StartOK
<1>3. PopulateError \in ErrorCode
  BY <1>2, PopulateFacts
<1>4. CASE PopulateError # "ok"
  <2>1. /\ phase' = "failed" /\ control' = control
        /\ constants' = constants /\ variables' = variables /\ scopes' = scopes
    BY <1>1, <1>4 DEF populate, store
  <2>2. Settled = Len(scopes) /\ Settled' = Len(scopes)
    BY <1>1, <2>1 DEF Settled, Leaving
  <2>3. /\ HandlersOK(ast, control, scopes)
        /\ StoreOK(scopes, constants, variables, Len(scopes))
        /\ SavedOK(scopes, constants, variables, saved)
    BY <2>2 DEF IInv
  <2>4. TypesOK'
    BY <1>1, <1>3, <2>1 DEF IInv, TypesOK
  <2>5. StartOK' /\ ExecutingOK'
    BY <1>2, <2>1 DEF StartOK, ExecutingOK
  <2> QED
    BY <1>1, <2>1, <2>2, <2>3, <2>4, <2>5 DEF IInv
<1>5. CASE PopulateError = "ok"
  <2> DEFINE a == ast.inputs
             o == ast.outputs
             U == [n \in Elements(a) \cup Elements(o) |->
                      IF n \in Elements(a)
                        THEN [index |-> CHOOSE k \in DOMAIN a : a[k] = n, is_constant |-> TRUE]
                        ELSE [index |-> CHOOSE k \in DOMAIN o : o[k] = n, is_constant |-> FALSE]]
  <2>1. /\ a \in Seq(Name) /\ o \in Seq(Name) /\ Distinct(a) /\ Distinct(o)
        /\ Elements(a) \cap Elements(o) = {}
        /\ \A k \in 1 .. Len(a) : a[k] \in DOMAIN parameters
    BY <1>2, <1>5, ConfigFacts
  <2>2. DOMAIN a = 1 .. Len(a) /\ DOMAIN o = 1 .. Len(o) /\ Len(a) \in Nat /\ Len(o) \in Nat
    <3> HIDE DEF a, o
    <3> QED
      BY <2>1
  <2>3. /\ phase' = "running" /\ control' = <<TopLevel(ast.nodes)>>
        /\ constants' = [k \in 1 .. Len(a) |-> parameters[a[k]]]
        /\ variables' = [k \in 1 .. Len(o) |-> Zero]
    BY <1>1, <1>5, <2>2 DEF populate
  <2>4. scopes' = <<Scope(FALSE, U)>>
    BY <1>1, <1>5, <2>2 DEF populate, Elements
  <2>5. /\ U \in TableType /\ DOMAIN U = Elements(a) \cup Elements(o)
        /\ Numbered(U, a, 0, "constant") /\ Numbered(U, o, 0, "variable")
    <3> HIDE DEF a, o
    <3> QED
      BY <2>1, GlobalTable
  <2>6. constants' \in Seq(Value \cup {NoValue}) /\ Len(constants') = Len(a)
    <3>1. \A k \in 1 .. Len(a) : parameters[a[k]] \in Value
      BY <1>2, <2>1, ParametersAssumption
    <3> HIDE DEF a
    <3> QED
      BY <2>2, <2>3, <3>1
  <2>7. variables' \in Seq(Value) /\ Len(variables') = Len(o)
    <3> HIDE DEF o
    <3> QED
      BY <2>2, <2>3, ValueAssumption
  <2> HIDE DEF U, a, o
  <2>8. /\ StoreOK(scopes', constants', variables', Len(scopes')) /\ SavedOK(scopes', constants', variables', << >>)
        /\ Len(scopes') = 1 /\ scopes' # << >>
    BY <2>1, <2>4, <2>5, <2>6, <2>7, GlobalScope
  <2>9. ast.nodes \in Seq(Node)
    BY <1>2, ProgramAssumption DEF WellFormed
  <2>10. HandlersOK(ast, control', scopes')
    BY <2>3, <2>8, <2>9, TopLevelHandler
  <2>11. ModesOK(control', scopes', load_references, {}, current_descriptor)
    <3> DEFINE f == TopLevel(ast.nodes)
    <3>1. f.node.type = "program" /\ f.at = "body" /\ control' = <<f>>
      BY <2>3 DEF TopLevel
    <3> HIDE DEF f
    <3>2. Len(<<f>>) = 1 /\ <<f>>[1] = f
      OBVIOUS
    <3> QED
      BY <3>1, <3>2 DEF ModesOK, ModeOK, ReturnOK, CurrentOK, IsTarget, IsReturning, OperandLabel
  <2>12. TypesOK'
    BY <1>1, <1>3, <2>3, <2>8 DEF IInv, TypesOK
  <2> QED
    BY <1>1, <1>2, <2>3, <2>8, <2>10, <2>11, <2>12, Conclude
<1> QED
  BY <1>4, <1>5

\* A step that changes nothing.
LEMMA StutterStep ==
    ASSUME IInv, UNCHANGED vars PROVE IInv'
<1>1. /\ phase' = phase /\ ast' = ast /\ parameters' = parameters /\ control' = control
      /\ constants' = constants /\ variables' = variables /\ scopes' = scopes /\ result' = result
      /\ flags' = flags /\ current_descriptor' = current_descriptor
      /\ load_references' = load_references /\ error' = error /\ saved' = saved
  BY DEF vars, program, store, registers, reference
<1>2. Settled' = Settled
  BY <1>1 DEF Settled, Leaving, top
<1> QED
  BY <1>1, <1>2 DEF IInv, TypesOK, StartOK, ExecutingOK

\* The inductive invariant of the interpreter: whatever handlers do to the store, the
\* stack of scopes and the registers, in whatever order calls, returns and errors come.
THEOREM IInvHolds == Spec => []IInv
<1>1. Init => IInv
  BY InitStep
<1>2. IInv /\ [Next]_vars => IInv'
  <2> SUFFICES ASSUME IInv, [Next]_vars PROVE IInv'
    OBVIOUS
  <2>1. CASE populate
    BY <2>1, PopulateStep
  <2>2. CASE execute_program
    BY <2>2, ProgramStep
  <2>3. CASE finish
    BY <2>3, FinishStep
  <2>4. CASE UNCHANGED vars
    BY <2>4, StutterStep
  <2>5. CASE Handler
    <3>1. CASE handle_assignment_node
      BY <3>1, AssignmentStep
    <3>2. CASE handle_variable_declaration
      BY <3>2, DeclarationStep
    <3>3. CASE handle_variable_reference
      BY <3>3, ReferenceStep
    <3>4. CASE handle_arithmetic_operation
      BY <3>4, ArithmeticStep
    <3>5. CASE handle_update_expression
      BY <3>5, UpdateStep
    <3>6. CASE handle_numeric_constant
      BY <3>6, NumericStep
    <3>7. CASE handle_unary_expression
      BY <3>7, UnaryStep
    <3>8. CASE handle_relational_operator
      BY <3>8, RelationalStep
    <3>9. CASE handle_conditional_construct
      BY <3>9, ConditionalStep
    <3>10. CASE handle_loop
      BY <3>10, LoopStep
    <3>11. CASE execute_body
      BY <3>11, BodyStep
    <3>12. CASE handle_function_call
      BY <3>12, CallStep
    <3>13. CASE handle_return
      BY <3>13, ReturnStatementStep
    <3>14. CASE erase_entry
      BY <3>14, EraseStep
    <3>15. CASE pop_scope
      BY <3>15, PopStep
    <3>16. CASE propagate_error
      BY <3>16, PropagateStep
    <3> QED
      BY <2>5, <3>1, <3>2, <3>3, <3>4, <3>5, <3>6, <3>7, <3>8, <3>9, <3>10, <3>11, <3>12, <3>13,
         <3>14, <3>15, <3>16 DEF Handler
  <2> QED
    BY <2>1, <2>2, <2>3, <2>4, <2>5 DEF Next
<1> QED
  BY <1>1, <1>2, PTL DEF Spec


\* A sequence is a prefix of another one when they agree as far as it goes.
LEMMA PrefixIs ==
    ASSUME NEW S, NEW s \in Seq(S), NEW t \in Seq(S), Len(s) =< Len(t),
           \A i \in 1 .. Len(s) : s[i] = t[i]
    PROVE  s = SubSeq(t, 1, Len(s))
<1> DEFINE n == Len(s)
           q == SubSeq(t, 1, n)
<1>1. n \in Nat /\ Len(t) \in Nat /\ n =< Len(t)
  OBVIOUS
<1>2. q \in Seq(S) /\ Len(q) = n /\ \A i \in 1 .. n : q[i] = t[i]
  <2> HIDE DEF n
  <2>1. \A i \in 1 .. n : t[i] \in S
    BY <1>1
  <2> QED
    BY <1>1, <2>1
<1> HIDE DEF q
<1>3. q = s
  BY <1>1, <1>2, SeqEqual
<1> QED
  BY <1>3 DEF q

\* Interpreter.cpp: every register, scope, binding and handler has its type; interpret is the
\* outermost handler; every scope but the global one has a handler that will pop it.
THEOREM InterpreterTypes == Spec => []TypeOK
<1> SUFFICES IInv => TypeOK
  BY IInvHolds, PTL
<1> SUFFICES ASSUME IInv PROVE TypeOK
  OBVIOUS
<1>1. /\ TypesOK /\ ControlOK(ast, control) /\ DepthOK(control, scopes)
      /\ scopes \in Seq(ScopeType) /\ constants \in Seq(Value \cup {NoValue}) /\ variables \in Seq(Value)
      /\ control \in Seq(FrameType)
  BY DEF IInv, HandlersOK, StoreOK, ControlOK
<1>2. control = SubSeq(control, 1, Len(control)) /\ scopes = SubSeq(scopes, 1, Len(scopes))
  <2>1. Len(control) \in Nat /\ Len(control) =< Len(control) /\ Len(scopes) \in Nat /\ Len(scopes) =< Len(scopes)
    BY <1>1
  <2> QED
    BY <1>1, <2>1, PrefixIs
<1>3. ASSUME NEW i \in 1 .. Len(control)
      PROVE  /\ IsFrame(control[i])
             /\ i = 1 <=> control[i].node = [type |-> "program"]
             /\ i > 1 => control[i].node \in Node
  <2>1. control[i] \in FrameType
    BY <1>1
  <2>2. IsFrame(control[i])
    BY <2>1 DEF IsFrame, FrameType
  <2>3. i = 1 <=> control[i].node = [type |-> "program"]
    BY <1>1 DEF ControlOK, ProgramNode
  <2>4. i > 1 => control[i].node \in Node
    BY <1>1, FrameFacts
  <2> QED
    BY <2>2, <2>3, <2>4
<1>4. ASSUME NEW s \in 1 .. Len(scopes)
      PROVE  IsScope(scopes[s])
  BY <1>1, ScopesTyped DEF IsScope, IsTable, Scope
<1>5. Len(scopes) = 1 + Cardinality({ i \in 1 .. Len(control) : control[i].scoped })
  BY <1>1 DEF DepthOK, ScopeCount
<1> QED
  BY <1>1, <1>2, <1>3, <1>4, <1>5 DEF TypeOK, TypesOK

\* What is bound in the first u scopes is in the vectors, and no two bindings share an element.
LEMMA BindingsAreValid ==
    ASSUME NEW sc, NEW cs, NEW vs, NEW u \in 0 .. Len(sc), StoreOK(sc, cs, vs, u),
           NEW s \in 1 .. u, NEW n \in DOMAIN sc[s].table
    PROVE  /\ sc[s].table[n].index \in 1 .. IF sc[s].table[n].is_constant THEN Len(cs) ELSE Len(vs)
           /\ \A t \in 1 .. u : \A m \in DOMAIN sc[t].table :
                sc[s].table[n] = sc[t].table[m] => s = t /\ n = m
<1>1. sc \in Seq(ScopeType) /\ Len(sc) \in Nat /\ u \in Nat /\ u =< Len(sc)
  BY DEF StoreOK
<1>2. ASSUME NEW t \in 1 .. u, NEW m \in DOMAIN sc[t].table, NEW c, c = KindOf(sc[t].table[m])
      PROVE  /\ c \in Kind /\ sc[t].table[m].index \in Nat
             /\ Base(sc, t - 1, c) < sc[t].table[m].index /\ sc[t].table[m].index =< Base(sc, t, c)
             /\ \A k \in DOMAIN sc[t].table : sc[t].table[k] = sc[t].table[m] => k = m
  <2>1. t \in 1 .. Len(sc) /\ t =< u
    BY <1>1
  <2>2. EntryOK(sc, u, t, m)
    BY <2>1 DEF StoreOK, EntriesOK
  <2>3. c \in Kind /\ sc[t].table[m].index \in Nat
    BY <1>1, <1>2, <2>1, ScopesTyped
  <2> QED
    BY <1>2, <2>1, <2>2, <2>3 DEF EntryOK
<1>3. ASSUME NEW t \in 0 .. Len(sc), NEW r \in 0 .. t, NEW c \in Kind
      PROVE  Base(sc, r, c) =< Base(sc, t, c) /\ Base(sc, t, c) \in Nat /\ Base(sc, r, c) \in Nat
  <2>1. IsFiniteSet(Bindings(sc, Len(sc), c))
    BY DEF StoreOK
  <2>2. r \in 0 .. Len(sc) /\ r \in 0 .. r
    BY <1>1
  <2> QED
    BY <1>1, <2>1, <2>2, BindingsMonotone
<1> DEFINE d == sc[s].table[n]
           c == KindOf(d)
           L == Len(sc)
<1>4. /\ c \in Kind /\ d.index \in Nat /\ Base(sc, s - 1, c) < d.index /\ d.index =< Base(sc, s, c)
  BY <1>2
<1>5. Base(sc, s, c) =< Base(sc, L, c) /\ Base(sc, s, c) \in Nat /\ Base(sc, L, c) \in Nat /\ Base(sc, s - 1, c) \in Nat
  <2>1. s \in 0 .. L /\ L \in 0 .. L /\ s - 1 \in 0 .. L /\ s - 1 \in 0 .. s
    BY <1>1
  <2> QED
    BY <1>3, <1>4, <2>1
<1>6. d.index \in 1 .. IF d.is_constant THEN Len(cs) ELSE Len(vs)
  <2>1. Base(sc, L, c) = IF d.is_constant THEN Len(cs) ELSE Len(vs)
    BY DEF StoreOK, KindOf
  <2> HIDE DEF c, d
  <2> QED
    BY <1>4, <1>5, <2>1
<1>7. ASSUME NEW t \in 1 .. u, NEW m \in DOMAIN sc[t].table, d = sc[t].table[m]
      PROVE  s = t /\ n = m
  <2>1. /\ Base(sc, t - 1, c) < d.index /\ d.index =< Base(sc, t, c)
        /\ Base(sc, t - 1, c) \in Nat /\ Base(sc, t, c) \in Nat
    <3>1. t \in 0 .. L /\ L \in 0 .. L /\ t - 1 \in 0 .. L /\ t - 1 \in 0 .. t
      BY <1>1
    <3> QED
      BY <1>2, <1>3, <1>4, <1>7, <3>1
  <2>2. ~(s < t)
    <3> SUFFICES ASSUME s < t PROVE FALSE
      OBVIOUS
    <3>1. s \in 0 .. t - 1 /\ t - 1 \in 0 .. L
      BY <1>1
    <3>2. Base(sc, s, c) =< Base(sc, t - 1, c)
      BY <1>3, <1>4, <3>1
    <3> HIDE DEF c, d
    <3> QED
      BY <1>4, <1>5, <2>1, <3>2
  <2>3. ~(t < s)
    <3> SUFFICES ASSUME t < s PROVE FALSE
      OBVIOUS
    <3>1. t \in 0 .. s - 1 /\ s - 1 \in 0 .. L
      BY <1>1
    <3>2. Base(sc, t, c) =< Base(sc, s - 1, c)
      BY <1>3, <1>4, <3>1
    <3> HIDE DEF c, d
    <3> QED
      BY <1>4, <1>5, <2>1, <3>2
  <2>4. s = t
    BY <1>1, <2>2, <2>3
  <2>5. m = n
    BY <1>2, <1>7, <2>4
  <2> QED
    BY <2>4, <2>5
<1> QED
  BY <1>6, <1>7

\* Interpreter.cpp pop_scope: every binding of every scope but the one being popped is an index
\* into its vector, and no two share an element, in whatever order the entries are erased.
THEOREM InterpreterDescriptors == Spec => []DescriptorsAreValid
<1> SUFFICES IInv => DescriptorsAreValid
  BY IInvHolds, PTL
<1> SUFFICES ASSUME IInv PROVE DescriptorsAreValid
  OBVIOUS
<1> DEFINE u == Settled
           bound == { b \in (1 .. u) \X Name : b[2] \in DOMAIN scopes[b[1]].table }
           descriptor(b) == scopes[b[1]].table[b[2]]
<1>1. StoreOK(scopes, constants, variables, u) /\ u \in 0 .. Len(scopes)
  <2>1. scopes \in Seq(ScopeType) /\ scopes # << >> /\ StoreOK(scopes, constants, variables, Settled)
    BY DEF IInv, StoreOK, TypesOK
  <2>2. Len(scopes) \in Nat \ {0}
    BY <2>1
  <2> QED
    BY <2>1, <2>2 DEF Settled
<1>2. DescriptorsAreValid
        <=> /\ \A b \in bound :
                  descriptor(b).index \in
                      1 .. IF descriptor(b).is_constant THEN Len(constants) ELSE Len(variables)
            /\ \A b, c \in bound : descriptor(b) = descriptor(c) => b = c
  BY DEF DescriptorsAreValid, Settled
<1> HIDE DEF u
<1>3. \A b \in bound : /\ b[1] \in 1 .. u /\ b[2] \in DOMAIN scopes[b[1]].table /\ b = <<b[1], b[2]>>
  OBVIOUS
<1> HIDE DEF bound
<1>4. ASSUME NEW b \in bound
      PROVE  /\ descriptor(b).index \in
                  1 .. IF descriptor(b).is_constant THEN Len(constants) ELSE Len(variables)
             /\ \A c \in bound : descriptor(b) = descriptor(c) => b[1] = c[1] /\ b[2] = c[2]
  <2>1. /\ b[1] \in 1 .. u /\ b[2] \in DOMAIN scopes[b[1]].table
        /\ \A c \in bound : c[1] \in 1 .. u /\ c[2] \in DOMAIN scopes[c[1]].table
    BY <1>3
  <2>2. /\ scopes[b[1]].table[b[2]].index \in
             1 .. IF scopes[b[1]].table[b[2]].is_constant THEN Len(constants) ELSE Len(variables)
        /\ \A t \in 1 .. u : \A m \in DOMAIN scopes[t].table :
             scopes[b[1]].table[b[2]] = scopes[t].table[m] => b[1] = t /\ b[2] = m
    BY <1>1, <2>1, BindingsAreValid
  <2> QED
    BY <2>1, <2>2
<1>5. ASSUME NEW b \in bound, NEW c \in bound, descriptor(b) = descriptor(c) PROVE b = c
  <2>1. b[1] = c[1] /\ b[2] = c[2]
    BY <1>4, <1>5
  <2>2. b = <<b[1], b[2]>> /\ c = <<c[1], c[2]>>
    BY <1>3
  <2> HIDE DEF descriptor
  <2> QED
    BY <2>1, <2>2
<1> QED
  BY <1>2, <1>4, <1>5


\* What was saved at a call that still runs is a prefix of what there is.
LEMMA SavedIsPrefix ==
    ASSUME NEW sc, NEW cs, NEW vs, NEW u, StoreOK(sc, cs, vs, u), NEW sv, SavedOK(sc, cs, vs, sv),
           NEW k \in 1 .. Len(sv)
    PROVE  /\ IsPrefixOf(sv[k].constants, cs)
           /\ IsPrefixOf(sv[k].variables, vs)
           /\ IsPrefixOf(sv[k].scopes, sc)
<1> SUFFICES ASSUME NEW r, r = sv[k]
             PROVE  IsPrefixOf(r.constants, cs) /\ IsPrefixOf(r.variables, vs) /\ IsPrefixOf(r.scopes, sc)
  OBVIOUS
<1> DEFINE p == Len(r.scopes)
<1>1. /\ r \in SavedType /\ SavedAt(sc, cs, vs, r)
      /\ sc \in Seq(ScopeType) /\ cs \in Seq(Value \cup {NoValue}) /\ vs \in Seq(Value)
  BY DEF StoreOK, SavedOK
<1>2. /\ r.constants \in Seq(Value \cup {NoValue}) /\ r.variables \in Seq(Value)
      /\ r.scopes \in Seq(ScopeType) /\ p \in 1 .. Len(sc) - 1 /\ Len(sc) \in Nat
  BY <1>1 DEF SavedType, SavedAt
<1>3. /\ Len(r.constants) = Base(sc, p, "constant") /\ Len(r.constants) =< Len(cs)
      /\ Len(r.variables) = Base(sc, p, "variable") /\ Len(r.variables) =< Len(vs)
  <2>1. \A c \in Kind : Base(sc, p, c) =< Base(sc, Len(sc), c)
    <3> SUFFICES ASSUME NEW c \in Kind PROVE Base(sc, p, c) =< Base(sc, Len(sc), c)
      OBVIOUS
    <3>1. IsFiniteSet(Bindings(sc, Len(sc), c))
      BY DEF StoreOK
    <3>2. p \in 0 .. Len(sc) /\ Len(sc) \in 0 .. Len(sc)
      BY <1>2
    <3> QED
      BY <1>2, <3>1, <3>2, BindingsMonotone
  <2>2. Len(cs) = Base(sc, Len(sc), "constant") /\ Len(vs) = Base(sc, Len(sc), "variable")
    BY DEF StoreOK
  <2> QED
    BY <1>1, <2>1, <2>2 DEF SavedAt, Kind
<1>4. IsPrefixOf(r.constants, cs)
  <2>1. \A i \in 1 .. Len(r.constants) : r.constants[i] = cs[i]
    BY <1>1, <1>3 DEF SavedAt
  <2> QED
    BY <1>1, <1>2, <1>3, <2>1, PrefixIs DEF IsPrefixOf
<1>5. IsPrefixOf(r.variables, vs)
  <2>1. \A i \in 1 .. Len(r.variables) : r.variables[i] = vs[i]
    BY <1>1, <1>3 DEF SavedAt
  <2> QED
    BY <1>1, <1>2, <1>3, <2>1, PrefixIs DEF IsPrefixOf
<1>6. IsPrefixOf(r.scopes, sc)
  <2>1. \A i \in 1 .. p : r.scopes[i] = sc[i]
    BY <1>1 DEF SavedAt
  <2>2. p =< Len(sc)
    BY <1>2
  <2> QED
    BY <1>1, <1>2, <2>1, <2>2, PrefixIs DEF IsPrefixOf
<1> QED
  BY <1>4, <1>5, <1>6

\* README, functions: whatever a function calls and however it ends, the constants, variables
\* and scopes of its caller are what they were when it was called.
THEOREM FunctionsArePure == Spec => []CallsArePure
<1> SUFFICES IInv => CallsArePure
  BY IInvHolds, PTL
<1> SUFFICES ASSUME IInv PROVE CallsArePure
  OBVIOUS
<1>1. StoreOK(scopes, constants, variables, Settled) /\ SavedOK(scopes, constants, variables, saved)
  BY DEF IInv
<1> QED
  BY <1>1, SavedIsPrefix DEF CallsArePure

\* Interpreter.cpp handle_variable_reference: a reference is read exactly when it is not the
\* left-hand side of an assignment or update, though some handlers do not set the mode.
THEOREM ReferencesAreRead == Spec => []ReferencesAreLoaded
<1> SUFFICES IInv => ReferencesAreLoaded
  BY IInvHolds, PTL
<1> SUFFICES ASSUME IInv, At({"variable_ref"}, "start"), NEW g, g = control[Len(control) - 1],
                    g.at \in OperandLabel
             PROVE  load_references <=> ~IsTarget(g)
  BY DEF ReferencesAreLoaded, OperandLabel, IsTarget
<1>1. Active /\ node.type = "variable_ref" /\ top.at = "start" /\ top.at # "leave"
  BY DEF At, Active
<1>2. /\ ModeOK(control, load_references) /\ top = control[Len(control)] /\ node = top.node
      /\ HandlersOK(ast, control, scopes) /\ Len(control) \in 1 .. Len(control) /\ Len(control) \in Nat \ {0}
  BY <1>1, ActiveFacts
<1>3. Len(control) > 1
  <2>1. ControlOK(ast, control)
    BY <1>2 DEF HandlersOK
  <2>2. Len(control) # 1
    BY <1>1, <1>2, <2>1, FrameFacts
  <2> DEFINE v == Len(control)
  <2>3. v \in Nat \ {0} /\ v # 1
    BY <1>2, <2>2
  <2> HIDE DEF v
  <2>4. v > 1
    BY <2>3
  <2> QED
    BY <2>4 DEF v
<1> QED
  BY <1>1, <1>2, <1>3 DEF ModeOK

\* Only the end of a function forgets what was saved.
LEMMA SavedShrinks ==
    ASSUME IInv, [Next]_vars
    PROVE  \/ saved' = saved
           \/ saved' = Append(saved, [constants |-> constants, variables |-> variables, scopes |-> scopes])
           \/ pop_scope /\ node.type = "function_call"
<1>1. CASE UNCHANGED vars
  BY <1>1 DEF vars
<1>2. CASE populate \/ execute_program \/ finish
  BY <1>2 DEF populate, execute_program, finish
<1>3. CASE handle_assignment_node \/ handle_variable_declaration \/ handle_variable_reference
  BY <1>3 DEF handle_assignment_node, handle_variable_declaration, handle_variable_reference
<1>4. CASE handle_arithmetic_operation \/ handle_update_expression \/ handle_numeric_constant
  BY <1>4 DEF handle_arithmetic_operation, handle_update_expression, handle_numeric_constant
<1>5. CASE handle_unary_expression \/ handle_relational_operator \/ handle_conditional_construct
  BY <1>5 DEF handle_unary_expression, handle_relational_operator, handle_conditional_construct
<1>6. CASE handle_loop \/ execute_body \/ handle_return
  BY <1>6 DEF handle_loop, execute_body, handle_return
<1>7. CASE handle_function_call
  BY <1>7 DEF handle_function_call
<1>8. CASE erase_entry \/ propagate_error
  BY <1>8 DEF erase_entry, propagate_error
<1>9. CASE pop_scope
  BY <1>9 DEF pop_scope
<1> QED
  BY <1>1, <1>2, <1>3, <1>4, <1>5, <1>6, <1>7, <1>8, <1>9 DEF Next, Handler

\* The scope of a function is popped, with no entry left: the store is the one that was saved.
LEMMA CallRestores ==
    ASSUME NEW sc \in Seq(ScopeType) \ {<< >>}, NEW cs, NEW vs, Len(sc) > 1,
           StoreOK(sc, cs, vs, Len(sc) - 1), ~sc[Len(sc)].inherits, DOMAIN sc[Len(sc)].table = {},
           NEW sv, SavedOK(sc, cs, vs, sv)
    PROVE  Snapshot(cs, vs, SubSeq(sc, 1, Len(sc) - 1)) = sv[Len(sv)]
<1> SUFFICES ASSUME NEW L, L = Len(sc) PROVE Snapshot(cs, vs, SubSeq(sc, 1, L - 1)) = sv[Len(sv)]
  OBVIOUS
<1> DEFINE sd == SubSeq(sc, 1, L - 1)
           sw == SubSeq(sv, 1, Len(sv) - 1)
<1>1. sd \in Seq(ScopeType) /\ Len(sd) = L - 1 /\ L \in Nat \ {0, 1} /\ \A s \in 1 .. L - 1 : sd[s] = sc[s]
  BY FrontOf
<1>0. /\ sc[Len(sc)].inherits => sw = sv
      /\ ~sc[Len(sc)].inherits => sw = SubSeq(sv, 1, Len(sv) - 1)
  OBVIOUS
<1> HIDE DEF sd, sw
<1>2. /\ Len(sv[Len(sv)].scopes) = Len(sc) - 1
      /\ sv[Len(sv)] \in SavedType /\ SavedAt(sc, cs, vs, sv[Len(sv)])
  BY <1>0, <1>1, PopKeepsSaved
<1> SUFFICES ASSUME NEW r, r = sv[Len(sv)] PROVE Snapshot(cs, vs, sd) = r
  BY DEF sd
<1>3. /\ r \in SavedType /\ SavedAt(sc, cs, vs, r) /\ Len(r.scopes) = L - 1
      /\ r.constants \in Seq(Value \cup {NoValue}) /\ r.variables \in Seq(Value)
      /\ r.scopes \in Seq(ScopeType)
      /\ cs \in Seq(Value \cup {NoValue}) /\ vs \in Seq(Value)
  BY <1>2 DEF SavedType, StoreOK
<1>4. \A c \in Kind : Base(sc, L, c) = Base(sc, L - 1, c)
  <2>1. \A t \in 1 .. L : t = L \/ t \in 1 .. L - 1
    BY <1>1
  <2>2. \A t \in 1 .. L - 1 : t \in 1 .. L
    BY <1>1
  <2>3. DOMAIN sc[L].table = {}
    OBVIOUS
  <2>4. \A c : Bindings(sc, L, c) = Bindings(sc, L - 1, c)
    BY <2>1, <2>2, <2>3 DEF Bindings
  <2> QED
    BY <2>4 DEF Base
<1>5. r.constants = cs
  <2>1. Len(r.constants) = Len(cs) /\ \A i \in 1 .. Len(r.constants) : r.constants[i] = cs[i]
    BY <1>3, <1>4 DEF SavedAt, StoreOK, Kind
  <2> QED
    BY <1>3, <2>1, SeqEqual
<1>6. r.variables = vs
  <2>1. Len(r.variables) = Len(vs) /\ \A i \in 1 .. Len(r.variables) : r.variables[i] = vs[i]
    BY <1>3, <1>4 DEF SavedAt, StoreOK, Kind
  <2> QED
    BY <1>3, <2>1, SeqEqual
<1>7. r.scopes = sd
  <2>1. Len(r.scopes) = Len(sd) /\ \A i \in 1 .. Len(r.scopes) : r.scopes[i] = sd[i]
    BY <1>1, <1>3 DEF SavedAt
  <2> QED
    BY <1>1, <1>3, <2>1, SeqEqual
<1> QED
  BY <1>3, <1>5, <1>6, <1>7 DEF SavedType, Snapshot

\* Interpreter.cpp handle_function_call: the end of a call, normal or by an error, leaves no
\* constant, variable or scope of it behind, however many entries its scopes had.
THEOREM CallsRestore == Spec => CallsLeaveNothing
<1> DEFINE Left == Len(saved') < Len(saved) =>
                     [constants |-> constants', variables |-> variables', scopes |-> scopes'] = saved[Len(saved)]
<1>1. IInv /\ [Next]_vars => Left
  <2> SUFFICES ASSUME IInv, [Next]_vars, Len(saved') < Len(saved)
               PROVE  [constants |-> constants', variables |-> variables', scopes |-> scopes'] = saved[Len(saved)]
    OBVIOUS
  <2>1. SavedOK(scopes, constants, variables, saved) /\ saved \in Seq(SavedType)
    BY DEF IInv, SavedOK
  <2>2. pop_scope /\ node.type = "function_call"
    <3> DEFINE r == [constants |-> constants, variables |-> variables, scopes |-> scopes]
    <3>1. saved' # saved /\ Len(saved) \in Nat
      BY <2>1
    <3>2. \A x : Len(Append(saved, x)) = Len(saved) + 1
      BY <2>1
    <3>3. saved' # Append(saved, r)
      <4> HIDE DEF r
      <4> QED
        BY <3>1, <3>2
    <3> QED
      BY <3>1, <3>3, SavedShrinks
  <2>3. /\ Leaving /\ DOMAIN scopes[Len(scopes)].table = {}
        /\ scopes' = SubSeq(scopes, 1, Len(scopes) - 1)
        /\ constants' = constants /\ variables' = variables
    BY <2>2 DEF pop_scope, Innermost, NoNames
  <2>4. /\ control # << >> /\ top.scoped /\ top = control[Len(control)] /\ node = top.node
        /\ HandlersOK(ast, control, scopes) /\ scopes \in Seq(ScopeType) \ {<< >>}
        /\ StoreOK(scopes, constants, variables, Len(scopes) - 1)
    BY <2>3, LeavingFacts
  <2>5. Len(scopes) > 1 /\ ~scopes[Len(scopes)].inherits
    <3>1. control[Len(control)].scoped /\ scopes \in Seq(ScopeType) /\ control[Len(control)].node = node
      BY <2>4
    <3> QED
      BY <2>2, <2>4, <3>1, LeaveKeeps
  <2>6. Snapshot(constants, variables, SubSeq(scopes, 1, Len(scopes) - 1)) = saved[Len(saved)]
    BY <2>1, <2>3, <2>4, <2>5, CallRestores
  <2> QED
    BY <2>3, <2>6 DEF Snapshot
<1>2. IInv /\ [Next]_vars => [Left]_vars
  BY <1>1
<1>3. Spec => [][Left]_vars
  BY <1>2, IInvHolds, PTL DEF Spec
<1> QED
  BY <1>3 DEF CallsLeaveNothing


\* Statements among which, and in whose bodies, there is no return: those that the parser
\* accepts outside of functions.
NoReturns(out) ==
    \A n \in out : /\ n.type # "function_return"
                   /\ n.type \in {"conditional_construct", "loop"} => n.body \in Seq(out)
                   /\ n.type = "conditional_construct" => n.else_body \in Seq(out)

\* A handler that runs the body of a function, or leaves it.
Calling(f) == f.node.type = "function_call" /\ f.at \in {"body", "leave"}

\* What a handler outside of any function runs.
OutsideFrame(out, f) ==
    \/ value_type(f.node) # "none"
    \/ (f.node \in out \/ f.node = ProgramNode) /\ f.rest \in Seq(out)

\* Handlers outside of any function run no return.
OutsideOK(out, ct) ==
    \A i \in 1 .. Len(ct) : (\E j \in 1 .. i : Calling(ct[j])) \/ OutsideFrame(out, ct[i])

\* A handler goes on as another frame: its statements are left as they are, executed one by one
\* or replaced by those of a body.
Follows(g, f) ==
    /\ f.node = g.node
    /\ Calling(g) => Calling(f)
    /\ \/ value_type(f.node) # "none"
       \/ f.rest \in {<< >>, g.rest}
       \/ g.rest # << >> /\ f.rest = Tail(g.rest)
       \/ g.node.type \in {"conditional_construct", "loop"} /\ f.rest = g.node.body
       \/ g.node.type = "conditional_construct" /\ f.rest = g.node.else_body

\* A handler executes an operand, or the next one of its statements.
Executes(g, f, n) == f.at \in OperandLabel \/ (g.rest # << >> /\ n = Head(g.rest))

\* What a step does to the stack of handlers: nothing, return, go on, or execute a node.
Moves(ct, cd) ==
    \/ cd = ct
    \/ cd = SubSeq(ct, 1, Len(ct) - 1)
    \/ \E f : Follows(ct[Len(ct)], f) /\ cd = Append(SubSeq(ct, 1, Len(ct) - 1), f)
    \/ \E f, n :
         /\ Follows(ct[Len(ct)], f) /\ Executes(ct[Len(ct)], f, n)
         /\ cd = Append(Append(SubSeq(ct, 1, Len(ct) - 1), f), Frame(n))

\* The statements a handler has left have no return if those it had have none.
LEMMA FollowsOutside ==
    ASSUME NEW out \in SUBSET Node, NoReturns(out), NEW g \in FrameType, NEW f \in FrameType,
           Follows(g, f), OutsideFrame(out, g)
    PROVE  OutsideFrame(out, f)
<1> SUFFICES ASSUME value_type(g.node) = "none" PROVE OutsideFrame(out, f)
  BY DEF OutsideFrame, Follows
<1>1. /\ f.node = g.node /\ (g.node \in out \/ g.node = ProgramNode) /\ g.rest \in Seq(out)
  BY DEF OutsideFrame, Follows
<1>2. g.rest \in Seq(out)
  BY DEF OutsideFrame
<1>3. g.node.type \in {"conditional_construct", "loop"} => g.node \in out
  BY <1>1 DEF ProgramNode
<1>4. f.rest \in Seq(out)
  <2>1. << >> \in Seq(out)
    OBVIOUS
  <2>2. g.rest # << >> => Tail(g.rest) \in Seq(out)
    BY <1>2
  <2>3. g.node.type \in {"conditional_construct", "loop"} => g.node.body \in Seq(out)
    BY <1>3 DEF NoReturns
  <2>4. g.node.type = "conditional_construct" => g.node.else_body \in Seq(out)
    BY <1>3 DEF NoReturns
  <2> QED
    BY <1>2, <2>1, <2>2, <2>3, <2>4 DEF Follows
<1> QED
  BY <1>4 DEF OutsideFrame, Follows

\* A step of a handler leaves what runs outside of functions without a return.
LEMMA MovesOutside ==
    ASSUME NEW out \in SUBSET Node, NoReturns(out), NEW p, NEW ct, ControlOK(p, ct), ct # << >>,
           OutsideOK(out, ct), NEW cd, ControlOK(p, cd), Moves(ct, cd)
    PROVE  OutsideOK(out, cd)
<1> DEFINE ce == SubSeq(ct, 1, Len(ct) - 1)
<1>1. /\ ct \in Seq(FrameType) /\ Len(ct) \in Nat \ {0} /\ ct[Len(ct)] \in FrameType
      /\ ce \in Seq(FrameType) /\ Len(ce) = Len(ct) - 1 /\ \A i \in 1 .. Len(ct) - 1 : ce[i] = ct[i]
  <2>1. ct \in Seq(FrameType)
    BY DEF ControlOK
  <2>2. Len(ct) \in Nat \ {0}
    BY <2>1
  <2> QED
    BY <2>1, <2>2, FrontOf
<1> HIDE DEF ce
<1> DEFINE L == Len(ct)
           g == ct[L]
<1>2. OutsideOK(out, ce)
  BY <1>1 DEF OutsideOK
<1>3. ASSUME NEW f \in FrameType, Follows(g, f)
      PROVE  OutsideOK(out, Append(ce, f))
  <2> DEFINE q == Append(ce, f)
  <2>1. Len(q) = L /\ q[L] = f /\ \A i \in 1 .. L - 1 : q[i] = ct[i]
    BY <1>1
  <2> HIDE DEF q
  <2>2. (\E j \in 1 .. L : Calling(q[j])) \/ OutsideFrame(out, q[L])
    <3>1. CASE OutsideFrame(out, g)
      BY <1>1, <1>3, <2>1, <3>1, FollowsOutside
    <3>2. CASE ~OutsideFrame(out, g)
      <4>1. L \in 1 .. L
        BY <1>1
      <4>2. PICK j \in 1 .. L : Calling(ct[j])
        BY <3>2, <4>1 DEF OutsideOK
      <4>3. Calling(q[j])
        <5>1. CASE j = L
          BY <1>3, <2>1, <4>2, <5>1 DEF Follows
        <5>2. CASE j # L
          <6>1. j \in 1 .. L - 1
            BY <1>1, <5>2
          <6> QED
            BY <2>1, <4>2, <6>1
        <5> QED
          BY <5>1, <5>2
      <4> QED
        BY <4>3
    <3> QED
      BY <3>1, <3>2
  <2>3. ASSUME NEW i \in 1 .. L - 1
        PROVE  (\E j \in 1 .. i : Calling(q[j])) \/ OutsideFrame(out, q[i])
    <3>1. i \in 1 .. L /\ \A j \in 1 .. i : q[j] = ct[j]
      BY <1>1, <2>1
    <3>2. i \in 1 .. i
      BY <1>1
    <3> QED
      BY <3>1, <3>2 DEF OutsideOK
  <2>4. \A i \in 1 .. L : i = L \/ i \in 1 .. L - 1
    BY <1>1
  <2> QED
    BY <2>1, <2>2, <2>3, <2>4 DEF OutsideOK, q
<1>4. ASSUME NEW f \in FrameType, NEW n, Follows(g, f), Executes(g, f, n),
             cd = Append(Append(ce, f), Frame(n))
      PROVE  OutsideOK(out, cd)
  <2> DEFINE q == Append(ce, f)
             h == Frame(n)
  <2>1. OutsideOK(out, q)
    BY <1>3, <1>4
  <2>2. q \in Seq(FrameType) /\ Len(q) = L /\ q[L] = f
    BY <1>1
  <2>3. h.node = n /\ h.rest = << >>
    BY DEF Frame
  <2>4. cd = Append(q, h)
    BY <1>4
  <2> HIDE DEF q, h
  <2>5. Len(cd) = L + 1 /\ cd[L + 1] = h /\ \A i \in 1 .. L : cd[i] = q[i]
    BY <1>1, <2>2, <2>4
  <2>6. (\E j \in 1 .. L : Calling(q[j])) \/ OutsideFrame(out, q[L])
    <3>1. L \in 1 .. L
      BY <1>1
    <3> QED
      BY <2>1, <2>2, <3>1 DEF OutsideOK
  <2>7. (\E j \in 1 .. L + 1 : Calling(cd[j])) \/ OutsideFrame(out, h)
    <3>1. CASE \E j \in 1 .. L : Calling(q[j])
      <4>1. PICK j \in 1 .. L : Calling(q[j])
        BY <3>1
      <4>2. j \in 1 .. L + 1
        BY <1>1
      <4> QED
        BY <2>5, <4>1, <4>2
    <3>2. CASE f.at \in OperandLabel
      <4>1. L \in 1 .. Len(cd) - 1 /\ cd[L] = f
        BY <1>1, <2>2, <2>5
      <4>2. value_type(cd[L + 1].node) # "none"
        BY <3>2, <4>1, CallerFacts
      <4> QED
        BY <2>5, <4>2 DEF OutsideFrame
    <3>3. CASE f.at \notin OperandLabel /\ ~\E j \in 1 .. L : Calling(q[j])
      <4>1. g.rest # << >> /\ n = Head(g.rest)
        BY <1>4, <3>3 DEF Executes
      <4>2. L \in 1 .. L
        BY <1>1
      <4>3. ~Calling(f) /\ ~Calling(g)
        BY <1>4, <2>2, <3>3, <4>2 DEF Follows
      <4>4. \A j \in 1 .. L : ~Calling(ct[j])
        <5>1. \A j \in 1 .. L : j = L \/ j \in 1 .. L - 1
          BY <1>1
        <5>2. \A j \in 1 .. L - 1 : j \in 1 .. L /\ q[j] = ct[j]
          BY <1>1 DEF q
        <5> QED
          BY <3>3, <4>3, <5>1, <5>2
      <4>5. OutsideFrame(out, g)
        BY <4>2, <4>4 DEF OutsideOK
      <4>6. CASE value_type(g.node) = "none"
        <5>1. g.rest \in Seq(out)
          BY <4>5, <4>6 DEF OutsideFrame
        <5>2. n \in out
          BY <4>1, <5>1
        <5>3. h.rest \in Seq(out)
          BY <2>3
        <5> QED
          BY <2>3, <5>2, <5>3 DEF OutsideFrame
      <4>7. CASE value_type(g.node) # "none"
        <5>1. L \in 1 .. Len(cd) - 1 /\ cd[L] = f /\ f.node = g.node
          BY <1>1, <1>4, <2>2, <2>5 DEF Follows
        <5>2. f.at = "body" /\ FrameOK(p, f)
          <6>1. f.at \in OperandLabel \cup {"body"}
            BY <5>1, CallerFacts
          <6>2. L \in 1 .. Len(cd)
            BY <1>1, <2>5
          <6> QED
            BY <3>3, <5>1, <6>1, <6>2 DEF ControlOK
        <5>3. f.node.type \in {"program", "conditional_construct", "loop"}
          BY <4>3, <5>2 DEF FrameOK, Labels, Calling
        <5> QED
          BY <4>7, <5>1, <5>3 DEF value_type, NumberType
      <4> QED
        BY <4>6, <4>7
    <3> QED
      BY <3>1, <3>2, <3>3
  <2>8. ASSUME NEW i \in 1 .. L
        PROVE  (\E j \in 1 .. i : Calling(cd[j])) \/ OutsideFrame(out, cd[i])
    <3>1. \A j \in 1 .. i : cd[j] = q[j]
      BY <1>1, <2>5
    <3>2. cd[i] = q[i] /\ i \in 1 .. Len(q)
      BY <2>2, <2>5
    <3> QED
      BY <2>1, <3>1, <3>2 DEF OutsideOK
  <2>9. \A i \in 1 .. L + 1 : i = L + 1 \/ i \in 1 .. L
    BY <1>1
  <2> QED
    BY <2>5, <2>7, <2>8, <2>9 DEF OutsideOK
<1>5. cd \in Seq(FrameType)
  BY DEF ControlOK
<1>6. ASSUME NEW f, cd = Append(ce, f) PROVE f \in FrameType
  <2>1. ce \in Seq(FrameType \cup {f}) /\ f \in FrameType \cup {f}
    BY <1>1
  <2>2. Len(cd) = L /\ cd[L] = f /\ L \in 1 .. L
    BY <1>1, <1>6, <2>1
  <2> QED
    BY <1>5, <2>2
<1>7. ASSUME NEW f, NEW h, cd = Append(Append(ce, f), h) PROVE f \in FrameType
  <2> DEFINE q == Append(ce, f)
  <2>1. ce \in Seq(FrameType \cup {f}) /\ f \in FrameType \cup {f}
    BY <1>1
  <2>2. q \in Seq(FrameType \cup {f}) /\ Len(q) = L /\ q[L] = f
    BY <1>1, <2>1
  <2>3. cd = Append(q, h)
    BY <1>7
  <2> HIDE DEF q
  <2>4. Len(cd) = L + 1 /\ cd[L] = q[L] /\ L \in 1 .. L + 1
    BY <1>1, <2>2, <2>3
  <2> QED
    BY <1>5, <2>2, <2>4
<1>8. CASE cd = ct
  BY <1>8
<1>9. CASE cd = ce
  BY <1>2, <1>9
<1>10. CASE \E f : Follows(g, f) /\ cd = Append(ce, f)
  BY <1>3, <1>6, <1>10
<1>11. CASE \E f, n : Follows(g, f) /\ Executes(g, f, n) /\ cd = Append(Append(ce, f), Frame(n))
  <2>1. PICK f, n : Follows(g, f) /\ Executes(g, f, n) /\ cd = Append(Append(ce, f), Frame(n))
    BY <1>11
  <2> DEFINE h == Frame(n)
  <2>2. cd = Append(Append(ce, f), h)
    BY <2>1
  <2> HIDE DEF h
  <2>3. f \in FrameType
    BY <1>7, <2>2
  <2> QED
    BY <1>4, <2>1, <2>3
<1> QED
  BY <1>8, <1>9, <1>10, <1>11 DEF Moves, ce


\* execute_node is called, or not, by a handler that goes on as f.
LEMMA ExecuteMoves ==
    ASSUME NEW f, NEW n, Execute(n, f), Follows(top, f), Executes(top, f, n)
    PROVE  Moves(control, control')
BY DEF Execute, Callers, Moves, top

\* A handler goes on as f.
LEMMA BecomeMoves ==
    ASSUME NEW f, Become(f), Follows(top, f)
    PROVE  Moves(control, control')
BY DEF Become, Callers, Moves, top

\* A handler returns, or reports an error.
LEMMA EndMoves ==
    ASSUME Return \/ control' = control \/ control' = Callers
    PROVE  Moves(control, control')
BY DEF Return, Callers, Moves

\* A handler evaluates an operand.
LEMMA OperandMoves ==
    ASSUME NEW label \in OperandLabel, NEW f, NEW n, Execute(n, f),
           f.at = label, f.node = top.node, f.rest = top.rest, ~Calling(top)
    PROVE  Moves(control, control')
<1>1. Follows(top, f) /\ Executes(top, f, n)
  BY DEF Follows, Executes
<1> QED
  BY <1>1, ExecuteMoves

\* A handler that goes on elsewhere, with or without a value.
LEMMA FrameAlso ==
    ASSUME NEW g \in FrameType, NEW label, NEW values
    PROVE  /\ LET f == [g EXCEPT !.at = label]
              IN  f.at = label /\ f.node = g.node /\ f.rest = g.rest
           /\ LET f == [g EXCEPT !.at = label, !.values = values]
              IN  f.at = label /\ f.node = g.node /\ f.rest = g.rest
BY DEF FrameType

\* The handlers of expressions and of statements without a body evaluate operands and return.
LEMMA ExpressionMoves ==
    ASSUME IInv, Active, top.at # "leave",
           \/ handle_assignment_node \/ handle_variable_declaration \/ handle_variable_reference
           \/ handle_arithmetic_operation \/ handle_update_expression \/ handle_numeric_constant
           \/ handle_unary_expression \/ handle_relational_operator \/ handle_return
    PROVE  Moves(control, control')
<1>1. top \in FrameType /\ node = top.node
  BY ActiveFacts
<1>2. ASSUME NEW n, NEW label \in OperandLabel, Execute(n, [top EXCEPT !.at = label]),
             node.type # "function_call"
      PROVE  Moves(control, control')
  <2> DEFINE f == [top EXCEPT !.at = label]
  <2>1. f.at = label /\ f.node = top.node /\ f.rest = top.rest /\ Execute(n, f)
    BY <1>1, <1>2, FrameAlso
  <2> HIDE DEF f
  <2> QED
    BY <1>1, <1>2, <2>1, OperandMoves DEF Calling
<1>3. ASSUME NEW n, NEW label \in OperandLabel, Execute(n, [top EXCEPT !.at = label, !.values = <<result>>]),
             node.type # "function_call"
      PROVE  Moves(control, control')
  <2> DEFINE f == [top EXCEPT !.at = label, !.values = <<result>>]
  <2>1. f.at = label /\ f.node = top.node /\ f.rest = top.rest /\ Execute(n, f)
    BY <1>1, <1>3, FrameAlso
  <2> HIDE DEF f
  <2> QED
    BY <1>1, <1>3, <2>1, OperandMoves DEF Calling
<1>4. \A code : Fail(code) => control' = control
  BY DEF Fail
<1>5. /\ "lhs" \in OperandLabel /\ "rhs" \in OperandLabel /\ "operand" \in OperandLabel
      /\ "condition" \in OperandLabel /\ "value" \in OperandLabel
  BY DEF OperandLabel
<1>6. CASE handle_assignment_node
  <2>1. CASE At({"assignment"}, "start") /\ Execute(node.rhs, [top EXCEPT !.at = "rhs"])
    BY <1>2, <1>5, <2>1 DEF At
  <2>2. CASE At({"assignment"}, "rhs") /\ Execute(node.lhs, [top EXCEPT !.at = "lhs"])
    BY <1>2, <1>5, <2>2 DEF At
  <2>3. CASE do_assign
    BY <1>4, <2>3, EndMoves DEF do_assign
  <2> QED
    BY <1>6, <2>1, <2>2, <2>3 DEF handle_assignment_node
<1>7. CASE handle_variable_declaration \/ handle_variable_reference \/ handle_numeric_constant
  BY <1>4, <1>7, EndMoves DEF handle_variable_declaration, handle_variable_reference, handle_numeric_constant
<1>8. CASE handle_arithmetic_operation
  <2>1. CASE At({"arithmetic_operator"}, "start") /\ Execute(node.lhs, [top EXCEPT !.at = "lhs"])
    BY <1>2, <1>5, <2>1 DEF At
  <2>2. CASE At({"arithmetic_operator"}, "lhs") /\ Execute(node.rhs, [top EXCEPT !.at = "rhs", !.values = <<result>>])
    BY <1>3, <1>5, <2>2 DEF At
  <2>3. CASE At({"arithmetic_operator"}, "rhs") /\ (Fail("divide_by_zero") \/ Return)
    BY <1>4, <2>3, EndMoves
  <2> QED
    BY <1>8, <2>1, <2>2, <2>3 DEF handle_arithmetic_operation
<1>9. CASE handle_update_expression
  <2>1. CASE At({"update_expression"}, "start") /\ Execute(node.rhs, [top EXCEPT !.at = "rhs"])
    BY <1>2, <1>5, <2>1 DEF At
  <2>2. CASE At({"update_expression"}, "rhs") /\ Execute(node.lhs, [top EXCEPT !.at = "lhs"])
    BY <1>2, <1>5, <2>2 DEF At
  <2>3. CASE At({"update_expression"}, "lhs") /\ (Fail("constant_reassign") \/ Fail("divide_by_zero") \/ Return)
    BY <1>4, <2>3, EndMoves
  <2> QED
    BY <1>9, <2>1, <2>2, <2>3 DEF handle_update_expression
<1>10. CASE handle_unary_expression
  <2>1. CASE At({"unary_operator"}, "start") /\ Execute(node.operand, [top EXCEPT !.at = "operand"])
    BY <1>2, <1>5, <2>1 DEF At
  <2>2. CASE At({"unary_operator"}, "operand") /\ (Fail("invalid_argument") \/ Return)
    BY <1>4, <2>2, EndMoves
  <2> QED
    BY <1>10, <2>1, <2>2 DEF handle_unary_expression
<1>11. CASE handle_relational_operator
  <2>1. CASE At({"relational_operator"}, "start") /\ Execute(node.lhs, [top EXCEPT !.at = "lhs"])
    BY <1>2, <1>5, <2>1 DEF At
  <2>2. CASE At({"relational_operator"}, "lhs") /\ Execute(node.rhs, [top EXCEPT !.at = "rhs", !.values = <<result>>])
    BY <1>3, <1>5, <2>2 DEF At
  <2>3. CASE At({"relational_operator"}, "rhs") /\ Return
    BY <2>3, EndMoves
  <2> QED
    BY <1>11, <2>1, <2>2, <2>3 DEF handle_relational_operator
<1>12. CASE handle_return
  <2>1. CASE At({"function_return"}, "start") /\ Execute(node.return_value, [top EXCEPT !.at = "value"])
    BY <1>2, <1>5, <2>1 DEF At
  <2>2. CASE At({"function_return"}, "value") /\ Return
    BY <2>2, EndMoves
  <2> QED
    BY <1>12, <2>1, <2>2 DEF handle_return
<1> QED
  BY <1>6, <1>7, <1>8, <1>9, <1>10, <1>11, <1>12

\* The handlers with a body enter it, go through it and leave it.
LEMMA BodyMoves ==
    ASSUME IInv, Active, top.at # "leave",
           handle_conditional_construct \/ handle_loop \/ execute_body
    PROVE  Moves(control, control')
<1>1. top \in FrameType /\ node = top.node /\ top.rest \in Seq(Node)
  BY ActiveFacts
<1>2. ASSUME NEW n, Execute(n, [top EXCEPT !.at = "condition"]), node.type # "function_call"
      PROVE  Moves(control, control')
  <2> DEFINE f == [top EXCEPT !.at = "condition"]
  <2>1. f.at = "condition" /\ f.node = top.node /\ f.rest = top.rest /\ Execute(n, f)
    BY <1>1, <1>2, FrameAlso
  <2> HIDE DEF f
  <2> QED
    BY <1>1, <1>2, <2>1, OperandMoves DEF Calling, OperandLabel
<1>3. ASSUME NEW body, EnterBody(body), node.type \in {"conditional_construct", "loop"},
             \/ body = node.body
             \/ node.type = "conditional_construct" /\ body = node.else_body
      PROVE  Moves(control, control')
  <2> DEFINE f == [top EXCEPT !.at = "body", !.rest = body, !.scoped = TRUE]
  <2>1. f.at = "body" /\ f.node = top.node /\ f.rest = body /\ Become(f)
    BY <1>1, <1>3 DEF EnterBody, FrameType
  <2> HIDE DEF f
  <2>2. Follows(top, f)
    BY <1>1, <1>3, <2>1 DEF Follows, Calling
  <2> QED
    BY <2>1, <2>2, BecomeMoves
<1>4. CASE handle_conditional_construct
  <2>1. CASE At({"conditional_construct"}, "start") /\ Execute(node.condition, [top EXCEPT !.at = "condition"])
    BY <1>2, <2>1 DEF At
  <2>2. CASE At({"conditional_construct"}, "condition") /\ (Return \/ EnterBody(node.body) \/ EnterBody(node.else_body))
    BY <1>3, <2>2, EndMoves DEF At
  <2> QED
    BY <1>4, <2>1, <2>2 DEF handle_conditional_construct
<1>5. CASE handle_loop
  <2>1. CASE At({"loop"}, "start") /\ Execute(node.condition, [top EXCEPT !.at = "condition"])
    BY <1>2, <2>1 DEF At
  <2>2. CASE At({"loop"}, "condition") /\ (Return \/ EnterBody(node.body))
    BY <1>3, <2>2, EndMoves DEF At
  <2> QED
    BY <1>5, <2>1, <2>2 DEF handle_loop
<1>6. CASE execute_body
  <2>1. CASE top.rest = << >>
    <3> DEFINE f == [top EXCEPT !.at = "leave"]
    <3>1. Become(f) /\ f.at = "leave" /\ f.node = top.node /\ f.rest = top.rest
      BY <1>1, <1>6, <2>1, FrameAlso DEF execute_body
    <3> HIDE DEF f
    <3>2. Follows(top, f)
      BY <1>6, <3>1 DEF Follows, Calling
    <3> QED
      BY <3>1, <3>2, BecomeMoves
  <2>2. CASE top.rest # << >>
    <3> DEFINE f == [top EXCEPT !.rest = Tail(@)]
               n == Head(top.rest)
    <3>1. Execute(n, f) /\ f.at = top.at /\ f.node = top.node /\ f.rest = Tail(top.rest)
      BY <1>1, <1>6, <2>2, FrameTail DEF execute_body
    <3> HIDE DEF f
    <3>2. Follows(top, f) /\ Executes(top, f, n)
      BY <2>2, <3>1 DEF Follows, Executes, Calling
    <3> QED
      BY <3>1, <3>2, ExecuteMoves
  <2> QED
    BY <2>1, <2>2
<1> QED
  BY <1>4, <1>5, <1>6


\* A call evaluates its arguments, then runs the body of its function up to the return.
LEMMA CallMoves ==
    ASSUME IInv, Active, top.at # "leave", handle_function_call
    PROVE  Moves(control, control')
<1>1. top \in FrameType /\ node = top.node /\ top.rest \in Seq(Node) /\ node.type = "function_call"
  BY ActiveFacts DEF handle_function_call, At
<1>2. value_type(top.node) # "none"
  BY <1>1 DEF value_type, NumberType
<1>3. ASSUME NEW f, f.node = top.node, Calling(top) => Calling(f)
      PROVE  Follows(top, f)
  BY <1>2, <1>3 DEF Follows
<1>4. CASE At({"function_call"}, "start")
  <2> DEFINE f == [top EXCEPT !.at = "arguments", !.rest = node.arguments]
  <2>1. f.node = top.node
    BY <1>1 DEF FrameType
  <2>2. (\E code : Fail(code)) \/ Become(f)
    BY <1>4 DEF handle_function_call, At
  <2> HIDE DEF f
  <2>3. Follows(top, f)
    BY <1>3, <1>4, <2>1 DEF At, Calling
  <2> QED
    BY <2>2, <2>3, BecomeMoves, EndMoves DEF Fail
<1>5. CASE At({"function_call"}, "arguments") /\ top.rest # << >>
  <2> DEFINE f == [top EXCEPT !.at = "argument", !.rest = Tail(@)]
             n == Head(top.rest)
  <2>1. f.node = top.node /\ f.at = "argument"
    BY <1>1 DEF FrameType
  <2>2. Execute(n, f)
    BY <1>5 DEF handle_function_call, At
  <2> HIDE DEF f
  <2>3. Follows(top, f) /\ Executes(top, f, n)
    BY <1>3, <1>5, <2>1 DEF At, Calling, Executes
  <2> QED
    BY <2>2, <2>3, ExecuteMoves
<1>6. CASE At({"function_call"}, "argument")
  <2> DEFINE f == [top EXCEPT !.at = "arguments", !.values = Append(@, result)]
  <2>1. f.node = top.node
    BY <1>1 DEF FrameType
  <2>2. Become(f)
    BY <1>6 DEF handle_function_call, At
  <2> HIDE DEF f
  <2>3. Follows(top, f)
    BY <1>3, <1>6, <2>1 DEF At, Calling
  <2> QED
    BY <2>2, <2>3, BecomeMoves
<1>7. CASE At({"function_call"}, "arguments") /\ top.rest = << >>
  <2> DEFINE f == [top EXCEPT !.at = "body", !.rest = Callee.body, !.scoped = TRUE]
  <2>1. f.node = top.node
    BY <1>1 DEF FrameType
  <2>2. Become(f)
    BY <1>7 DEF handle_function_call, At, EnterBody
  <2> HIDE DEF f
  <2>3. Follows(top, f)
    BY <1>3, <1>7, <2>1 DEF At, Calling
  <2> QED
    BY <2>2, <2>3, BecomeMoves
<1>8. CASE At({"function_call"}, "body")
  <2>1. CASE top.rest = << >> \/ "return_from_function" \in flags
    <3> DEFINE f == [top EXCEPT !.at = "leave"]
    <3>1. f.node = top.node /\ f.at = "leave"
      BY <1>1 DEF FrameType
    <3>2. Become(f)
      BY <1>8, <2>1 DEF handle_function_call, At
    <3> HIDE DEF f
    <3>3. Follows(top, f)
      BY <1>1, <1>3, <3>1 DEF Calling
    <3> QED
      BY <3>2, <3>3, BecomeMoves
  <2>2. CASE ~(top.rest = << >> \/ "return_from_function" \in flags)
    <3> DEFINE f == [top EXCEPT !.rest = Tail(@)]
               n == Head(top.rest)
    <3>1. f.node = top.node /\ f.at = top.at
      BY <1>1, <2>2, FrameTail
    <3>2. Execute(n, f)
      BY <1>8, <2>2 DEF handle_function_call, At
    <3> HIDE DEF f
    <3>3. Follows(top, f) /\ Executes(top, f, n)
      BY <1>3, <2>2, <3>1 DEF Calling, Executes
    <3> QED
      BY <3>2, <3>3, ExecuteMoves
  <2> QED
    BY <2>1, <2>2
<1> QED
  BY <1>4, <1>5, <1>6, <1>7, <1>8 DEF handle_function_call

\* A scope is popped, or an error is handed on; a loop starts again.
LEMMA LeaveMoves ==
    ASSUME IInv, erase_entry \/ pop_scope \/ propagate_error
    PROVE  Moves(control, control')
<1>1. CASE erase_entry \/ propagate_error
  BY <1>1, EndMoves DEF erase_entry, propagate_error
<1>2. CASE pop_scope
  <2>1. node = top.node
    BY DEF node
  <2>2. CASE node.type = "loop" /\ Become(Frame(node))
    <3> DEFINE f == Frame(node)
    <3>1. f.node = top.node /\ f.rest = << >> /\ Become(f)
      BY <2>1, <2>2 DEF Frame
    <3> HIDE DEF f
    <3>2. Follows(top, f)
      BY <2>1, <2>2, <3>1 DEF Follows, Calling
    <3> QED
      BY <3>1, <3>2, BecomeMoves
  <2>3. CASE control' = Callers
    BY <2>3, EndMoves
  <2> QED
    BY <1>2, <2>2, <2>3 DEF pop_scope
<1> QED
  BY <1>1, <1>2

\* Every step of a handler is one of the four.
LEMMA HandlerMoves ==
    ASSUME IInv, Handler
    PROVE  Moves(control, control') /\ control # << >> /\ ast' = ast
<1>1. CASE \/ handle_assignment_node \/ handle_variable_declaration \/ handle_variable_reference
           \/ handle_arithmetic_operation \/ handle_update_expression \/ handle_numeric_constant
           \/ handle_unary_expression \/ handle_relational_operator \/ handle_return
  <2>1. Active /\ top.at # "leave" /\ ast' = ast
    BY <1>1 DEF handle_assignment_node, handle_variable_declaration, handle_variable_reference,
       handle_arithmetic_operation, handle_update_expression, handle_numeric_constant,
       handle_unary_expression, handle_relational_operator, handle_return, At, Active, program
  <2> QED
    BY <1>1, <2>1, ExpressionMoves DEF Active
<1>2. CASE handle_conditional_construct \/ handle_loop \/ execute_body
  <2>1. Active /\ top.at # "leave" /\ ast' = ast
    BY <1>2 DEF handle_conditional_construct, handle_loop, execute_body, At, Active, program
  <2> QED
    BY <1>2, <2>1, BodyMoves DEF Active
<1>3. CASE handle_function_call
  <2>1. Active /\ top.at # "leave" /\ ast' = ast
    BY <1>3 DEF handle_function_call, At, Active, program
  <2> QED
    BY <1>3, <2>1, CallMoves DEF Active
<1>4. CASE erase_entry \/ pop_scope \/ propagate_error
  BY <1>4, LeaveMoves DEF erase_entry, pop_scope, propagate_error, Leaving, program
<1> QED
  BY <1>1, <1>2, <1>3, <1>4 DEF Handler

\* The handlers below the innermost one stay where they are.
LEMMA MovesKeep ==
    ASSUME NEW p, NEW ct, ControlOK(p, ct), ct # << >>, NEW cd, ControlOK(p, cd), Moves(ct, cd),
           NEW j \in 1 .. Len(ct) - 1
    PROVE  j \in 1 .. Len(cd) /\ cd[j] = ct[j]
<1> DEFINE ce == SubSeq(ct, 1, Len(ct) - 1)
           L  == Len(ct)
<1>1. /\ ct \in Seq(FrameType) /\ L \in Nat \ {0}
      /\ ce \in Seq(FrameType) /\ Len(ce) = L - 1 /\ ce[j] = ct[j] /\ j \in 1 .. L
  <2>1. ct \in Seq(FrameType)
    BY DEF ControlOK
  <2>2. Len(ct) \in Nat \ {0}
    BY <2>1
  <2>3. j \in 1 .. Len(ct)
    BY <2>2
  <2> QED
    BY <2>1, <2>2, <2>3, FrontOf
<1> HIDE DEF ce
<1>2. ASSUME NEW f
      PROVE  j \in 1 .. Len(Append(ce, f)) /\ Append(ce, f)[j] = ct[j]
  <2>1. ce \in Seq(FrameType \cup {f}) /\ f \in FrameType \cup {f}
    BY <1>1
  <2> QED
    BY <1>1, <2>1
<1>3. ASSUME NEW f, NEW h
      PROVE  j \in 1 .. Len(Append(Append(ce, f), h)) /\ Append(Append(ce, f), h)[j] = ct[j]
  <2> DEFINE q == Append(ce, f)
             S == FrameType \cup {f, h}
  <2>1. ce \in Seq(S) /\ f \in S /\ h \in S
    BY <1>1
  <2> HIDE DEF S
  <2>2. q \in Seq(S) /\ Len(q) = L /\ q[j] = ct[j]
    BY <1>1, <2>1
  <2> HIDE DEF q
  <2>3. Len(Append(q, h)) = L + 1 /\ Append(q, h)[j] = ct[j]
    BY <1>1, <2>1, <2>2
  <2>4. j \in 1 .. L + 1
    BY <1>1
  <2> QED
    BY <2>3, <2>4 DEF q
<1>4. CASE cd = ct
  BY <1>1, <1>4
<1>5. CASE cd = ce
  BY <1>1, <1>5
<1>6. CASE \E f : cd = Append(ce, f)
  BY <1>2, <1>6
<1>7. CASE \E f, n : cd = Append(Append(ce, f), Frame(n))
  <2>1. PICK f, n : cd = Append(Append(ce, f), Frame(n))
    BY <1>7
  <2> DEFINE h == Frame(n)
  <2>2. cd = Append(Append(ce, f), h)
    BY <2>1
  <2> HIDE DEF h
  <2> QED
    BY <1>3, <2>2
<1> QED
  BY <1>4, <1>5, <1>6, <1>7 DEF Moves, ce


\* Only a return statement sets the flag of a return, and the end of a function clears it.
LEMMA HandlerFlags ==
    ASSUME Handler, error = "ok", IsReturning(flags')
    PROVE  \/ At({"function_return"}, "value")
           \/ IsReturning(flags) /\ ~(node.type = "function_call" /\ top.at = "body")
<1>1. \A v : SetResult(v) => ~IsReturning(flags')
  BY StatusFacts DEF SetResult
<1>2. CASE handle_assignment_node
  BY <1>1, <1>2 DEF handle_assignment_node, do_assign, At, registers
<1>3. CASE handle_variable_declaration
  BY <1>3 DEF handle_variable_declaration, At, registers
<1>4. CASE handle_variable_reference
  BY <1>1, <1>4 DEF handle_variable_reference, At, registers
<1>5. CASE handle_arithmetic_operation
  BY <1>1, <1>5 DEF handle_arithmetic_operation, At, registers
<1>6. CASE handle_update_expression
  BY <1>1, <1>6 DEF handle_update_expression, At, registers
<1>7. CASE handle_numeric_constant
  BY <1>1, <1>7 DEF handle_numeric_constant
<1>8. CASE handle_unary_expression
  BY <1>1, <1>8 DEF handle_unary_expression, At, registers
<1>9. CASE handle_relational_operator
  <2>1. CASE flags' = { f \in {"condition_was_true"} : Compare(node.op, top.values[1], result) }
    <3>1. ~IsReturning(flags')
      BY <2>1 DEF IsReturning
    <3> QED
      BY <3>1
  <2>2. CASE flags' = flags /\ At({"relational_operator"}, top.at)
    BY <2>2 DEF At
  <2> QED
    BY <1>9, <2>1, <2>2 DEF handle_relational_operator, At, registers
<1>10. CASE handle_conditional_construct \/ handle_loop \/ execute_body
  BY <1>10 DEF handle_conditional_construct, handle_loop, execute_body, At, registers
<1>11. CASE handle_function_call
  BY <1>11 DEF handle_function_call, At, registers, IsReturning
<1>12. CASE handle_return
  BY <1>12 DEF handle_return, At, registers
<1>13. CASE erase_entry \/ pop_scope
  BY <1>13 DEF erase_entry, pop_scope, Leaving, registers
<1>14. CASE propagate_error
  BY <1>14 DEF propagate_error
<1> QED
  BY <1>2, <1>3, <1>4, <1>5, <1>6, <1>7, <1>8, <1>9, <1>10, <1>11, <1>12, <1>13, <1>14 DEF Handler

\* A return is on its way only inside of a function.
InsideOK == phase = "running" /\ error = "ok" /\ IsReturning(flags)
              => \E j \in 1 .. Len(control) : Calling(control[j])

\* After a step that leaves a return on its way there is a function below the innermost handler.
LEMMA FunctionBelow ==
    ASSUME NEW out \in SUBSET Node, NoReturns(out), IInv, OutsideOK(out, control), InsideOK,
           Handler, error = "ok", phase = "running", IsReturning(flags')
    PROVE  \E j \in 1 .. Len(control) - 1 : Calling(control[j])
<1>1. /\ Len(control) \in 1 .. Len(control) /\ Len(control) \in Nat \ {0}
      /\ top = control[Len(control)] /\ node = top.node
  <2>1. control # << >> /\ control \in Seq(FrameType)
    BY HandlerMoves DEF IInv, HandlersOK, ControlOK
  <2> QED
    BY <2>1 DEF top, node
<1>2. (\E j \in 1 .. Len(control) : Calling(control[j])) /\ ~Calling(top)
  <2>1. CASE At({"function_return"}, "value")
    <3>1. node.type = "function_return" /\ ~Calling(top)
      BY <1>1, <2>1 DEF At, Calling
    <3>2. ~OutsideFrame(out, top)
      BY <1>1, <3>1 DEF OutsideFrame, NoReturns, ProgramNode, value_type, NumberType
    <3> QED
      BY <1>1, <3>1, <3>2 DEF OutsideOK
  <2>2. CASE IsReturning(flags) /\ ~(node.type = "function_call" /\ top.at = "body")
    <3>1. \E j \in 1 .. Len(control) : Calling(control[j])
      BY <2>2 DEF InsideOK
    <3>2. control # << >> => ReturnOK(control, load_references, flags)
      BY DEF IInv, ExecutingOK, ModesOK
    <3>3. ~(node.type = "function_call" /\ top.at = "leave")
      BY <1>1, <2>2, <3>2 DEF ReturnOK
    <3> QED
      BY <1>1, <2>2, <3>1, <3>3 DEF Calling
  <2> QED
    BY <2>1, <2>2, HandlerFlags
<1>3. \A j \in 1 .. Len(control) : j = Len(control) \/ j \in 1 .. Len(control) - 1
  BY <1>1
<1> QED
  BY <1>1, <1>2, <1>3

\* An error is not forgotten.
LEMMA HandlerStays ==
    ASSUME Handler, phase' = "running", error' = "ok"
    PROVE  error = "ok" /\ phase = "running"
<1>1. CASE \/ handle_assignment_node \/ handle_variable_declaration \/ handle_variable_reference
           \/ handle_arithmetic_operation \/ handle_update_expression \/ handle_numeric_constant
           \/ handle_unary_expression \/ handle_relational_operator \/ handle_return
  BY <1>1 DEF handle_assignment_node, handle_variable_declaration, handle_variable_reference,
     handle_arithmetic_operation, handle_update_expression, handle_numeric_constant,
     handle_unary_expression, handle_relational_operator, handle_return, At
<1>2. CASE handle_conditional_construct \/ handle_loop \/ execute_body \/ handle_function_call
  BY <1>2 DEF handle_conditional_construct, handle_loop, execute_body, handle_function_call, At
<1>3. CASE erase_entry \/ pop_scope \/ propagate_error
  BY <1>3 DEF erase_entry, pop_scope, propagate_error, Leaving
<1> QED
  BY <1>1, <1>2, <1>3 DEF Handler

\* interpret is the outermost handler.
LEMMA ProgramIsOutermost ==
    ASSUME NEW p, NEW ct, ControlOK(p, ct), ct # << >>, ct[Len(ct)].node.type = "program"
    PROVE  Len(ct) = 1
<1>1. ct \in Seq(FrameType)
  BY DEF ControlOK
<1>2. Len(ct) \in 1 .. Len(ct)
  BY <1>1
<1> DEFINE i == Len(ct)
<1>3. i \in 1 .. Len(ct) /\ ct[i].node.type = "program"
  BY <1>2
<1> HIDE DEF i
<1>4. i = 1
  BY <1>3, FrameFacts
<1> QED
  BY <1>4 DEF i

\* Outside of functions there is no return, so that none is ever on its way there.
LEMMA ReturnsInside ==
    ASSUME NEW out \in SUBSET Node, NoReturns(out), \A p \in Programs : p.nodes \in Seq(out),
           IInv, IInv', OutsideOK(out, control), InsideOK, [Next]_vars
    PROVE  OutsideOK(out, control') /\ InsideOK'
<1>1. /\ ControlOK(ast, control) /\ ControlOK(ast', control') /\ ast \in Programs
      /\ control \in Seq(FrameType)
  BY DEF IInv, HandlersOK, ControlOK, TypesOK
<1>2. CASE Handler
  <2>1. Moves(control, control') /\ control # << >> /\ ast' = ast
    BY <1>2, HandlerMoves
  <2>2. OutsideOK(out, control')
    BY <1>1, <2>1, MovesOutside
  <2>3. ASSUME phase' = "running", error' = "ok", IsReturning(flags')
        PROVE  \E j \in 1 .. Len(control') : Calling(control'[j])
    <3>1. error = "ok" /\ phase = "running"
      BY <1>2, <2>3, HandlerStays
    <3>2. PICK j \in 1 .. Len(control) - 1 : Calling(control[j])
      BY <1>2, <2>3, <3>1, FunctionBelow
    <3>3. j \in 1 .. Len(control') /\ control'[j] = control[j]
      BY <1>1, <2>1, MovesKeep
    <3> QED
      BY <3>2, <3>3
  <2> QED
    BY <2>2, <2>3 DEF InsideOK
<1>3. CASE populate
  <2>1. flags' = {} /\ control = << >>
    BY <1>3 DEF populate, IInv, StartOK, registers
  <2>2. InsideOK'
    BY <2>1 DEF InsideOK, IsReturning
  <2>3. CASE control' = control
    BY <2>2, <2>3
  <2>4. CASE control' = <<TopLevel(ast.nodes)>>
    <3> DEFINE f == TopLevel(ast.nodes)
    <3>1. f.node = ProgramNode /\ f.rest \in Seq(out)
      BY <1>1 DEF TopLevel, ProgramNode
    <3>2. control' = <<f>>
      BY <2>4
    <3> HIDE DEF f
    <3>3. Len(<<f>>) = 1 /\ <<f>>[1] = f
      OBVIOUS
    <3>4. \A i \in 1 .. Len(control') : control'[i] = f
      BY <3>2, <3>3
    <3>5. OutsideFrame(out, f)
      BY <3>1 DEF OutsideFrame
    <3> QED
      BY <2>2, <3>4, <3>5 DEF OutsideOK
  <2> QED
    BY <1>3, <2>3, <2>4 DEF populate
<1>4. CASE execute_program
  <2>1. Active /\ node.type = "program" /\ top.at = "body" /\ top.at # "leave"
    BY <1>4 DEF execute_program, At, Active
  <2>2. /\ top \in FrameType /\ node = top.node /\ top = control[Len(control)] /\ control # << >>
        /\ Len(control) \in 1 .. Len(control)
    BY <2>1, ActiveFacts
  <2>3. Len(control) = 1
    <3>1. control[Len(control)].node.type = "program" /\ ControlOK(ast, control)
      BY <1>1, <2>1, <2>2
    <3> QED
      BY <2>2, <3>1, ProgramIsOutermost
  <2>4. ~Calling(top) /\ OutsideFrame(out, top)
    <3>1. ~Calling(top)
      BY <2>1, <2>2 DEF Calling
    <3>2. \A j \in 1 .. Len(control) : control[j] = top
      BY <2>2, <2>3
    <3> QED
      BY <2>2, <3>1, <3>2 DEF OutsideOK
  <2>5. ~IsReturning(flags)
    <3>1. \A j \in 1 .. Len(control) : control[j] = top
      BY <2>2, <2>3
    <3> QED
      BY <2>1, <2>4, <3>1 DEF InsideOK, Active
  <2>6. InsideOK'
    BY <1>4, <2>5 DEF execute_program, InsideOK, IsReturning, registers
  <2>7. CASE top.rest = << >>
    <3>1. Moves(control, control') /\ ast' = ast
      BY <1>4, <2>7, EndMoves DEF execute_program, program
    <3> QED
      BY <1>1, <2>2, <2>6, <3>1, MovesOutside
  <2>8. CASE top.rest # << >>
    <3> DEFINE f == [top EXCEPT !.rest = Tail(@)]
               n == Head(top.rest)
    <3>1. control' = <<f, Frame(n)>> /\ ast' = ast
      BY <1>4, <2>8 DEF execute_program, program
    <3>2. f \in FrameType /\ f.at = "body" /\ f.node = node /\ f.rest = Tail(top.rest) /\ n \in Node
      BY <2>1, <2>2, <2>8, FrameTail
    <3> HIDE DEF f
    <3>3. control' = Append(Append(SubSeq(control, 1, Len(control) - 1), f), Frame(n))
      <4> DEFINE g == Frame(n)
      <4>1. g \in FrameType /\ control' = <<f, g>>
        BY <3>1, <3>2, NewFrame
      <4>2. SubSeq(control, 1, Len(control) - 1) = << >>
        BY <1>1, <2>3
      <4> HIDE DEF g
      <4>3. Append(Append(<< >>, f), g) = <<f, g>>
        BY <3>2, <4>1, TwoElements
      <4> QED
        BY <4>1, <4>2, <4>3 DEF g
    <3>4. Follows(top, f) /\ Executes(top, f, n)
      BY <2>2, <2>4, <2>8, <3>2 DEF Follows, Executes
    <3>5. Moves(control, control')
      BY <2>2, <3>3, <3>4 DEF Moves
    <3> QED
      BY <1>1, <2>2, <2>6, <3>1, <3>5, MovesOutside
  <2> QED
    BY <2>7, <2>8
<1>5. CASE finish
  BY <1>5 DEF finish, InsideOK, OutsideOK
<1>6. CASE UNCHANGED vars
  BY <1>6 DEF vars, InsideOK, OutsideOK, registers
<1> QED
  BY <1>2, <1>3, <1>4, <1>5, <1>6 DEF Next


\* Between a return and the end of its function handlers only leave what they run.
LEMMA LeavesOnly ==
    ASSUME IInv, InsideOK, IsReturning(flags), ~Leaving, [Next]_vars
    PROVE  UNCHANGED <<store, result>>
<1>1. CASE UNCHANGED vars
  BY <1>1 DEF vars, registers
<1>2. CASE populate
  <2>1. flags = {}
    BY <1>2 DEF populate, IInv, StartOK
  <2> QED
    BY <2>1 DEF IsReturning
<1>3. CASE finish
  BY <1>3 DEF finish, registers
<1>4. CASE execute_program
  <2>1. Active /\ node.type = "program" /\ top.at = "body" /\ top.at # "leave"
    BY <1>4 DEF execute_program, At, Active
  <2>2. top = control[Len(control)] /\ node = top.node /\ control # << >> /\ HandlersOK(ast, control, scopes)
    BY <2>1, ActiveFacts
  <2>3. Len(control) = 1
    BY <2>1, <2>2, ProgramIsOutermost DEF HandlersOK
  <2>4. PICK j \in 1 .. Len(control) : Calling(control[j])
    BY <2>1 DEF InsideOK, Active
  <2>5. control[j] = top
    BY <2>2, <2>3
  <2> QED
    BY <2>1, <2>2, <2>4, <2>5 DEF Calling
<1>5. CASE erase_entry \/ pop_scope
  BY <1>5 DEF erase_entry, pop_scope
<1>6. CASE propagate_error
  BY <1>6 DEF propagate_error, registers
<1>7. CASE Active /\ Handler
  <2>1. top.at \in {"body", "leave"} \/ node.type = "loop"
    <3>1. ReturnOK(control, load_references, flags)
      BY <1>7 DEF IInv, ExecutingOK, ModesOK, Active
    <3> QED
      BY <3>1 DEF ReturnOK, top, node
  <2>2. top.at # "leave"
    <3>1. top.at = "leave" => top.scoped
      <4>1. FrameOK(ast, top) /\ control # << >>
        <5>1. ControlOK(ast, control) /\ control \in Seq(FrameType) /\ control # << >>
          BY <1>7 DEF IInv, HandlersOK, ControlOK, Active
        <5>2. Len(control) \in 1 .. Len(control)
          BY <5>1
        <5> QED
          BY <5>1, <5>2 DEF ControlOK, top
      <4>2. top.node.type = "program" => top.at # "leave"
        BY <4>1 DEF FrameOK, Labels
      <4> QED
        BY <4>1, <4>2 DEF FrameOK
    <3> QED
      BY <1>7, <3>1 DEF Leaving, Active
  <2>3. ~ConditionHolds
    BY DEF ConditionHolds, IsReturning
  <2>4. CASE \/ handle_assignment_node \/ handle_variable_declaration \/ handle_variable_reference
             \/ handle_arithmetic_operation \/ handle_update_expression \/ handle_numeric_constant
             \/ handle_unary_expression \/ handle_relational_operator \/ handle_return
    BY <2>1, <2>4 DEF handle_assignment_node, handle_variable_declaration, handle_variable_reference,
       handle_arithmetic_operation, handle_update_expression, handle_numeric_constant,
       handle_unary_expression, handle_relational_operator, handle_return, At
  <2>5. CASE handle_conditional_construct
    BY <2>1, <2>5 DEF handle_conditional_construct, At
  <2>6. CASE handle_loop
    <3>1. CASE At({"loop"}, "start")
      BY <2>6, <3>1 DEF handle_loop, At, registers
    <3>2. CASE At({"loop"}, "condition")
      BY <2>3, <2>6, <3>2 DEF handle_loop, At, registers, store
    <3> QED
      BY <2>6, <3>1, <3>2 DEF handle_loop
  <2>7. CASE execute_body
    BY <2>7 DEF execute_body, registers
  <2>8. CASE handle_function_call
    BY <2>1, <2>8 DEF handle_function_call, At
  <2> QED
    BY <1>5, <1>6, <1>7, <2>4, <2>5, <2>6, <2>7, <2>8 DEF Handler
<1>8. Handler => Active \/ erase_entry \/ pop_scope \/ propagate_error
  BY DEF Handler, Active, handle_assignment_node, handle_variable_declaration, handle_variable_reference,
     handle_arithmetic_operation, handle_update_expression, handle_numeric_constant,
     handle_unary_expression, handle_relational_operator, handle_return, handle_conditional_construct,
     handle_loop, execute_body, handle_function_call, At
<1> QED
  BY <1>1, <1>2, <1>3, <1>4, <1>5, <1>6, <1>7, <1>8 DEF Next

\* Interpreter.cpp execute_node and handle_function_call: between a return and the end of its
\* function nothing is computed, declared or assigned, if all returns are in functions, as the
\* parser sees to: the conditionals and loops around the return are only left.
THEOREM ReturnsLeave ==
    ASSUME NEW out \in SUBSET Node, NoReturns(out), \A p \in Programs : p.nodes \in Seq(out)
    PROVE  Spec => ReturnLeaves
<1> DEFINE J == OutsideOK(out, control) /\ InsideOK
           Leaves == ("return_from_function" \in flags /\ ~Leaving) => UNCHANGED <<store, result>>
<1>1. Init => J
  BY DEF Init, OutsideOK, InsideOK
<1>2. J /\ IInv /\ IInv' /\ [Next]_vars => J'
  BY ReturnsInside
<1>3. J /\ IInv /\ [Next]_vars => [Leaves]_vars
  BY LeavesOnly DEF IsReturning
<1> HIDE DEF J, Leaves
<1>4. Spec => []J
  BY <1>1, <1>2, IInvHolds, PTL DEF Spec
<1>5. Spec => [][Leaves]_vars
  BY <1>3, <1>4, IInvHolds, PTL DEF Spec
<1> QED
  BY <1>5 DEF ReturnLeaves, Leaves
===============================================================================
