--------------------------- MODULE InterpreterSteps ---------------------------
(***************************************************************************)
(* The inductive invariant of the interpreter, IInv, and the steps of the  *)
(* handlers that keep it: one lemma per handler of Interpreter, resting on *)
(* lemmas about what a handler may do to the stack of handlers (go on,     *)
(* call, return, enter a body) and to the mode in which the next node is   *)
(* executed.                                                               *)
(*                                                                         *)
(* The mode is shared by all handlers. It is right because of where each   *)
(* of them waits: ModeOK says what it is while the innermost handler waits *)
(* at a label, or is about to start for a caller that waits at one.        *)
(***************************************************************************)
EXTENDS InterpreterLemmas

\* The labels of a handler that waits for a value, and of one that waits for what it assigns to.
OperandLabel == {"lhs", "rhs", "operand", "condition", "argument", "value"}
IsTarget(f)  == f.at = "lhs" /\ f.node.type \in {"assignment", "update_expression"}
IsReturning(fl) == "return_from_function" \in fl

\* The mode is what the innermost handler, or the operand it is about to evaluate, needs.
ModeOK(ct, load) ==
    LET f == ct[Len(ct)]
        g == ct[Len(ct) - 1]
    IN  /\ f.at \in OperandLabel => (load <=> ~IsTarget(f))
        /\ f.at = "start" /\ Len(ct) > 1 /\ g.at \in OperandLabel /\ f.node.type # "relational_operator"
             => (load <=> ~IsTarget(g))
        /\ f.node.type = "function_call" /\ f.at = "leave" => load

\* After a return only bodies, and the loops around it, are left.
ReturnOK(ct, load, fl) ==
    LET f == ct[Len(ct)]
    IN  /\ IsReturning(fl) => /\ load
                              /\ \/ f.at = "body"
                                 \/ f.at = "leave" /\ f.node.type # "function_call"
                                 \/ f.node.type = "loop"
        /\ f.node.type = "function_call" /\ f.at = "body" /\ f.rest = << >> => IsReturning(fl)

\* Scope s is searched for a name and has it.
IsVisible(sc, s, n) == /\ s \in 1 .. Len(sc) /\ \A t \in s + 1 .. Len(sc) : sc[t].inherits
                       /\ n \in DOMAIN sc[s].table

\* The binding of a visible name.
IsCurrent(sc, d) == \E s \in 1 .. Len(sc) : \E n \in DOMAIN sc[s].table : IsVisible(sc, s, n) /\ d = sc[s].table[n]

\* An assignment that evaluates its left-hand side has been told what to assign to.
CurrentOK(ct, d, sc) == IsTarget(ct[Len(ct)]) => IsCurrent(sc, d)

\* A handler on the stack, and the type of its node.
LEMMA FrameFacts ==
    ASSUME NEW p, NEW ct, ControlOK(p, ct), NEW i \in 1 .. Len(ct)
    PROVE  /\ Len(ct) \in Nat \ {0} /\ ct[i] \in FrameType /\ FrameOK(p, ct[i])
           /\ ct[i].at \in Label /\ ct[i].rest \in Seq(Node) /\ ct[i].values \in Seq(Value)
           /\ ct[i].scoped \in BOOLEAN
           /\ ct[i].node.type # "program" <=> i # 1
           /\ ct[i].node.type # "program" <=> ct[i].node \in Node
<1>1. ct \in Seq(FrameType) /\ FrameOK(p, ct[i]) /\ (i = 1 <=> ct[i].node = ProgramNode)
  BY DEF ControlOK
<1>2. Len(ct) \in Nat \ {0} /\ ct[i] \in FrameType
  BY <1>1
<1>3. /\ ct[i].node \in Node \/ ct[i].node = ProgramNode
      /\ ct[i].at \in Label /\ ct[i].rest \in Seq(Node) /\ ct[i].values \in Seq(Value)
      /\ ct[i].scoped \in BOOLEAN
  BY <1>2 DEF FrameType
<1>4. ProgramNode.type = "program"
  BY DEF ProgramNode
<1> QED
  BY <1>1, <1>2, <1>3, <1>4, NodeTypes

\* What a handler has called is an expression, unless it is running a body.
LEMMA CallerFacts ==
    ASSUME NEW p, NEW ct, ControlOK(p, ct), NEW i \in 1 .. Len(ct) - 1
    PROVE  /\ ct[i].at \in OperandLabel \cup {"body"}
           /\ ct[i].at \in OperandLabel => value_type(ct[i + 1].node) # "none"
           /\ IsTarget(ct[i]) => is_lvalue(ct[i + 1].node)
           /\ ct[i].at = "body" /\ ct[i].node.type = "function_call" /\ ct[i].rest = << >>
                => ct[i + 1].node.type = "function_return"
<1> DEFINE f == ct[i]
           g == ct[i + 1]
<1>1. i \in 1 .. Len(ct) /\ Called(f, g)
  <2>1. Len(ct) \in Nat
    BY DEF ControlOK
  <2> QED
    BY <2>1 DEF ControlOK
<1>2. /\ FrameOK(p, f) /\ (f.node.type # "program" <=> f.node \in Node)
  BY <1>1, FrameFacts
<1> HIDE DEF f, g
<1>3. f.at \in Labels(f.node.type)
  BY <1>2 DEF FrameOK
<1>4. ASSUME f.at \in OperandLabel
      PROVE  f.node \in Node /\ WellFormedNode(f.node)
  <2>1. f.node.type # "program"
    BY <1>3, <1>4 DEF Labels, OperandLabel
  <2> QED
    BY <1>2, <2>1, NodeAssumption
<1>5. CASE f.at = "lhs"
  <2>1. g.node = f.node.lhs
    BY <1>1, <1>5 DEF Called, f, g
  <2>2. f.node.type \in {"assignment", "update_expression", "arithmetic_operator", "relational_operator"}
    BY <1>3, <1>5 DEF Labels
  <2>3. WellFormedNode(f.node)
    BY <1>4, <1>5 DEF OperandLabel
  <2>4. CASE f.node.type \in {"assignment", "update_expression"}
    <3>1. is_lvalue(g.node)
      BY <2>1, <2>3, <2>4 DEF WellFormedNode, is_lvalue
    <3> QED
      BY <1>5, <3>1 DEF is_lvalue, value_type, NumberType, OperandLabel, f, g
  <2>5. CASE f.node.type \in {"arithmetic_operator", "relational_operator"}
    <3>1. IsNumber(g.node)
      BY <2>1, <2>3, <2>5 DEF WellFormedNode
    <3> QED
      BY <1>5, <2>5, <3>1 DEF IsNumber, IsTarget, OperandLabel, f, g
  <2> QED
    BY <2>2, <2>4, <2>5
<1>6. CASE f.at = "rhs"
  <2>1. g.node = f.node.rhs
    BY <1>1, <1>6 DEF Called, f, g
  <2>2. f.node.type \in {"assignment", "update_expression", "arithmetic_operator", "relational_operator"}
    BY <1>3, <1>6 DEF Labels
  <2>3. WellFormedNode(f.node)
    BY <1>4, <1>6 DEF OperandLabel
  <2>4. value_type(g.node) # "none"
    BY <2>1, <2>2, <2>3 DEF WellFormedNode, IsNumber
  <2> QED
    BY <1>6, <2>4 DEF IsTarget, OperandLabel, f, g
<1>7. CASE f.at = "operand"
  <2>1. g.node = f.node.operand
    BY <1>1, <1>7 DEF Called, f, g
  <2>2. f.node.type = "unary_operator"
    BY <1>3, <1>7 DEF Labels
  <2>3. WellFormedNode(f.node)
    BY <1>4, <1>7 DEF OperandLabel
  <2>4. value_type(g.node) # "none"
    BY <2>1, <2>2, <2>3 DEF WellFormedNode, IsNumber
  <2> QED
    BY <1>7, <2>4 DEF IsTarget, OperandLabel, f, g
<1>8. CASE f.at = "condition"
  <2>1. g.node = f.node.condition
    BY <1>1, <1>8 DEF Called, f, g
  <2>2. f.node.type \in {"conditional_construct", "loop"}
    BY <1>3, <1>8 DEF Labels
  <2>3. WellFormedNode(f.node)
    BY <1>4, <1>8 DEF OperandLabel
  <2>4. value_type(g.node) # "none"
    BY <2>1, <2>2, <2>3 DEF WellFormedNode, IsCondition
  <2> QED
    BY <1>8, <2>4 DEF IsTarget, OperandLabel, f, g
<1>9. CASE f.at = "value"
  <2>1. g.node = f.node.return_value
    BY <1>1, <1>9 DEF Called, f, g
  <2>2. WellFormedNode(f.node) /\ f.node.type # "program"
    BY <1>2, <1>4, <1>9 DEF OperandLabel
  <2>3. f.node.type = "function_return"
    <3>1. f.node.type \notin {"assignment", "update_expression", "variable_decl", "variable_ref",
             "numeric_constant", "arithmetic_operator", "relational_operator", "unary_operator",
             "conditional_construct", "loop", "function_call"}
      BY <1>3, <1>9 DEF Labels
    <3> QED
      BY <2>2, <3>1 DEF WellFormedNode
  <2>4. value_type(g.node) # "none"
    BY <2>1, <2>2, <2>3 DEF WellFormedNode, IsNumber
  <2> QED
    BY <1>9, <2>4 DEF IsTarget, OperandLabel, f, g
<1>10. CASE f.at = "argument"
  <2>1. IsNumber(g.node)
    BY <1>1, <1>10 DEF Called, f, g
  <2> QED
    BY <1>10, <2>1 DEF IsTarget, IsNumber, OperandLabel, f, g
<1>11. CASE f.at = "body"
  BY <1>1, <1>11 DEF Called, IsTarget, OperandLabel, f, g
<1>12. f.at \in {"lhs", "rhs", "operand", "condition", "value", "argument", "body"}
  BY <1>1 DEF Called, f, g
<1>13. f.at \in OperandLabel => f.at # "body"
  BY DEF OperandLabel
<1> QED
  BY <1>5, <1>6, <1>7, <1>8, <1>9, <1>10, <1>11, <1>12, <1>13 DEF OperandLabel, f, g

\* The stack of handlers fits the program and the scopes.
HandlersOK(p, ct, sc) == ControlOK(p, ct) /\ DepthOK(ct, sc)

ModesOK(ct, sc, load, fl, d) == ct # << >> => ModeOK(ct, load) /\ ReturnOK(ct, load, fl) /\ CurrentOK(ct, d, sc)

\* The innermost handler goes on as f.
LEMMA Become_ ==
    ASSUME NEW p, NEW ct, NEW sc, HandlersOK(p, ct, sc), ct # << >>,
           NEW f \in FrameType, FrameOK(p, f), f.node = ct[Len(ct)].node, f.scoped = ct[Len(ct)].scoped
    PROVE  LET cd == Append(SubSeq(ct, 1, Len(ct) - 1), f)
           IN  /\ HandlersOK(p, cd, sc) /\ Len(cd) = Len(ct) /\ Len(ct) \in Nat \ {0}
               /\ cd[Len(ct)] = f /\ \A i \in 1 .. Len(ct) - 1 : cd[i] = ct[i]
<1> DEFINE cd == Append(SubSeq(ct, 1, Len(ct) - 1), f)
<1>1. /\ ControlOK(p, cd) /\ Len(cd) = Len(ct) /\ Len(ct) \in Nat \ {0}
      /\ cd[Len(ct)] = f /\ \A i \in 1 .. Len(ct) - 1 : cd[i] = ct[i]
  BY BecomeKeepsControl DEF HandlersOK
<1> HIDE DEF cd
<1>2. \A i \in 1 .. Len(ct) : cd[i].scoped = ct[i].scoped /\ cd[i].node = ct[i].node
  BY <1>1
<1>3. DepthOK(cd, sc)
  BY <1>1, <1>2, SameKeepsDepth DEF HandlersOK
<1> QED
  BY <1>1, <1>3 DEF HandlersOK, cd

\* The innermost handler goes on as f, which is not about to evaluate anything.
LEMMA BecomeKeeps ==
    ASSUME NEW p, NEW ct, NEW sc, HandlersOK(p, ct, sc), ct # << >>,
           NEW f \in FrameType, FrameOK(p, f), f.node = ct[Len(ct)].node, f.scoped = ct[Len(ct)].scoped,
           NEW load, NEW fl, NEW d,
           f.at # "start" /\ f.at # "lhs",
           f.at \in OperandLabel => load,
           f.node.type = "function_call" /\ f.at = "leave" => load /\ ~IsReturning(fl),
           IsReturning(fl) => load /\ (f.at \in {"body", "leave"} \/ f.node.type = "loop"),
           f.node.type = "function_call" /\ f.at = "body" /\ f.rest = << >> => IsReturning(fl)
    PROVE  LET cd == Append(SubSeq(ct, 1, Len(ct) - 1), f)
           IN  HandlersOK(p, cd, sc) /\ ModesOK(cd, sc, load, fl, d)
<1> DEFINE cd == Append(SubSeq(ct, 1, Len(ct) - 1), f)
<1>1. HandlersOK(p, cd, sc) /\ Len(cd) = Len(ct) /\ Len(ct) \in Nat \ {0} /\ cd[Len(cd)] = f
  BY Become_
<1> HIDE DEF cd
<1>2. ~IsTarget(f)
  BY DEF IsTarget
<1>3. ModeOK(cd, load)
  BY <1>1, <1>2 DEF ModeOK
<1>4. ReturnOK(cd, load, fl)
  BY <1>1 DEF ReturnOK
<1>5. CurrentOK(cd, d, sc)
  BY <1>1, <1>2 DEF CurrentOK
<1> QED
  BY <1>1, <1>3, <1>4, <1>5 DEF ModesOK, cd

\* The innermost handler goes on as f and calls execute_node for n.
LEMMA ExecuteKeeps ==
    ASSUME NEW p, NEW ct, NEW sc, HandlersOK(p, ct, sc), ct # << >>,
           NEW f \in FrameType, FrameOK(p, f), f.node = ct[Len(ct)].node, f.scoped = ct[Len(ct)].scoped,
           NEW n \in Node, Called(f, Frame(n)),
           NEW load, NEW fl, NEW d, ~IsReturning(fl),
           f.at \in OperandLabel /\ n.type # "relational_operator" => (load <=> ~IsTarget(f))
    PROVE  LET cd == Append(Append(SubSeq(ct, 1, Len(ct) - 1), f), Frame(n))
           IN  HandlersOK(p, cd, sc) /\ ModesOK(cd, sc, load, fl, d)
<1> DEFINE ce == Append(SubSeq(ct, 1, Len(ct) - 1), f)
           cd == Append(ce, Frame(n))
<1>1. /\ HandlersOK(p, ce, sc) /\ Len(ce) = Len(ct) /\ Len(ct) \in Nat \ {0}
      /\ ce[Len(ct)] = f
  BY Become_
<1>2. /\ Frame(n) \in FrameType /\ FrameOK(p, Frame(n)) /\ Frame(n).node = n /\ Frame(n).at = "start"
      /\ ~Frame(n).scoped /\ n # ProgramNode
  BY NewFrame, NodeTypes
<1>3. ce # << >>
  BY <1>1
<1> HIDE DEF ce
<1>4. /\ ControlOK(p, cd) /\ Len(cd) = Len(ce) + 1 /\ Len(ce) \in Nat
      /\ cd[Len(cd)] = Frame(n) /\ \A i \in 1 .. Len(ce) : cd[i] = ce[i]
  <2>1. ControlOK(p, ce) /\ (ce = << >> <=> Frame(n).node = ProgramNode) /\ Called(ce[Len(ce)], Frame(n))
    BY <1>1, <1>2, <1>3 DEF HandlersOK
  <2> QED
    BY <1>2, <2>1, AppendKeepsControl
<1> HIDE DEF cd
<1>5. DepthOK(cd, sc)
  BY <1>1, <1>2, <1>4, AppendKeepsDepth DEF HandlersOK
<1>6. cd[Len(cd) - 1] = f /\ Len(cd) \in Nat
  BY <1>1, <1>4
<1>7. ModeOK(cd, load)
  BY <1>2, <1>4, <1>6 DEF ModeOK, OperandLabel
<1>8. ReturnOK(cd, load, fl)
  BY <1>2, <1>4 DEF ReturnOK
<1>9. CurrentOK(cd, d, sc)
  BY <1>2, <1>4 DEF CurrentOK, IsTarget
<1> QED
  BY <1>4, <1>5, <1>7, <1>8, <1>9 DEF HandlersOK, ModesOK, cd, ce

\* The innermost handler is gone, and its caller goes on where it waits.
LEMMA ReturnModes ==
    ASSUME NEW p, NEW ct, ControlOK(p, ct), ct # << >>,
           NEW sd, NEW load, NEW fl, NEW d,
           Len(ct) > 1 /\ ct[Len(ct) - 1].at \in OperandLabel => (load <=> ~IsTarget(ct[Len(ct) - 1])),
           Len(ct) > 1 /\ IsTarget(ct[Len(ct) - 1]) => IsCurrent(sd, d),
           IsReturning(fl) => load /\ value_type(ct[Len(ct)].node) = "none",
           ct[Len(ct)].node.type = "function_return" => IsReturning(fl)
    PROVE  ModesOK(SubSeq(ct, 1, Len(ct) - 1), sd, load, fl, d)
<1> DEFINE cd == SubSeq(ct, 1, Len(ct) - 1)
           f  == ct[Len(ct)]
           g  == ct[Len(ct) - 1]
<1>1. /\ ControlOK(p, cd) /\ Len(cd) = Len(ct) - 1 /\ Len(ct) \in Nat \ {0}
      /\ \A i \in 1 .. Len(cd) : cd[i] = ct[i]
  BY ReturnKeepsControl
<1> HIDE DEF cd
<1>2. ASSUME cd # << >>
      PROVE  ModeOK(cd, load) /\ ReturnOK(cd, load, fl) /\ CurrentOK(cd, d, sd)
  <2>1. Len(ct) > 1 /\ cd[Len(cd)] = g /\ Len(ct) - 1 \in 1 .. Len(ct) - 1
    BY <1>1, <1>2 DEF ControlOK
  <2>2. /\ g.at \in OperandLabel \cup {"body"}
        /\ g.at \in OperandLabel => value_type(f.node) # "none"
        /\ g.at = "body" /\ g.node.type = "function_call" /\ g.rest = << >>
             => f.node.type = "function_return"
    <3>1. (Len(ct) - 1) + 1 = Len(ct)
      BY <1>1
    <3> QED
      BY <2>1, <3>1, CallerFacts
  <2>3. g.at # "start" /\ g.at # "leave"
    BY <2>2 DEF OperandLabel
  <2>4. ModeOK(cd, load)
    BY <2>1, <2>3 DEF ModeOK
  <2>5. ReturnOK(cd, load, fl)
    BY <2>1, <2>2 DEF ReturnOK
  <2>6. CurrentOK(cd, d, sd)
    BY <2>1 DEF CurrentOK
  <2> QED
    BY <2>4, <2>5, <2>6
<1> QED
  BY <1>2 DEF ModesOK, cd

\* The innermost handler, which has no scope, returns.
LEMMA ReturnKeepsHandlers ==
    ASSUME NEW p, NEW ct, NEW sc, HandlersOK(p, ct, sc), ct # << >>, ~ct[Len(ct)].scoped
    PROVE  HandlersOK(p, SubSeq(ct, 1, Len(ct) - 1), sc)
<1> DEFINE cd == SubSeq(ct, 1, Len(ct) - 1)
<1>1. /\ ControlOK(p, cd) /\ Len(cd) = Len(ct) - 1 /\ Len(ct) \in Nat \ {0}
      /\ \A i \in 1 .. Len(cd) : cd[i] = ct[i]
  BY ReturnKeepsControl DEF HandlersOK
<1> HIDE DEF cd
<1>2. DepthOK(cd, sc)
  BY <1>1, ReturnKeepsDepth DEF HandlersOK
<1> QED
  BY <1>1, <1>2 DEF HandlersOK, cd

\* The innermost handler pushes a scope and enters a body.
LEMMA EnterKeeps ==
    ASSUME NEW p, NEW ct, NEW sc, HandlersOK(p, ct, sc), ct # << >>, ~ct[Len(ct)].scoped,
           NEW f \in FrameType, FrameOK(p, f), f.node = ct[Len(ct)].node, f.scoped, f.at = "body",
           NEW sd, Len(sd) = Len(sc) + 1, \A s \in 1 .. Len(sc) : sd[s] = sc[s],
           sd[Len(sd)].inherits <=> f.node.type # "function_call",
           NEW load, NEW fl, NEW d, ~IsReturning(fl),
           ~(f.node.type = "function_call" /\ f.rest = << >>)
    PROVE  LET cd == Append(SubSeq(ct, 1, Len(ct) - 1), f)
           IN  HandlersOK(p, cd, sd) /\ ModesOK(cd, sd, load, fl, d)
<1> DEFINE ce == SubSeq(ct, 1, Len(ct) - 1)
           cd == Append(ce, f)
<1>1. /\ ControlOK(p, ce) /\ Len(ce) = Len(ct) - 1 /\ Len(ct) \in Nat \ {0}
      /\ \A i \in 1 .. Len(ce) : ce[i] = ct[i]
  BY ReturnKeepsControl DEF HandlersOK
<1>2. /\ ControlOK(p, cd) /\ Len(cd) = Len(ct) /\ cd[Len(ct)] = f
      /\ \A i \in 1 .. Len(ct) - 1 : cd[i] = ct[i]
  BY BecomeKeepsControl DEF HandlersOK
<1> HIDE DEF ce, cd
<1>3. DepthOK(ce, sc)
  BY <1>1, ReturnKeepsDepth DEF HandlersOK
<1>4. DepthOK(cd, sd)
  <2>1. /\ Len(ce) \in Nat /\ Len(cd) = Len(ce) + 1 /\ cd[Len(cd)] = f
        /\ \A i \in 1 .. Len(ce) : cd[i] = ce[i]
    BY <1>1, <1>2
  <2> QED
    BY <1>3, <2>1, EnterKeepsDepth
<1>5. ModeOK(cd, load) /\ ReturnOK(cd, load, fl) /\ CurrentOK(cd, d, sd)
  BY <1>1, <1>2 DEF ModeOK, ReturnOK, CurrentOK, IsTarget, OperandLabel
<1> QED
  BY <1>2, <1>4, <1>5 DEF HandlersOK, ModesOK, cd, ce

\* The innermost handler's scope is popped, and it returns or, a loop, starts again.
LEMMA LeaveKeeps ==
    ASSUME NEW p, NEW ct, NEW sc \in Seq(ScopeType), HandlersOK(p, ct, sc), ct # << >>, ct[Len(ct)].scoped
    PROVE  LET f  == ct[Len(ct)]
               ce == SubSeq(ct, 1, Len(ct) - 1)
               cd == Append(ce, Frame(f.node))
               sd == SubSeq(sc, 1, Len(sc) - 1)
           IN  /\ Len(sc) > 1 /\ (sc[Len(sc)].inherits <=> f.node.type # "function_call")
               /\ HandlersOK(p, ce, sd)
               /\ f.node \in Node => HandlersOK(p, cd, sd)
               /\ \A load, fl, d :
                    /\ IsReturning(fl) => load
                    /\ f.node \in Node /\ f.node.type = "loop"
                    => ModesOK(cd, sd, load, fl, d)
<1> DEFINE f  == ct[Len(ct)]
           ce == SubSeq(ct, 1, Len(ct) - 1)
           cd == Append(ce, Frame(f.node))
           sd == SubSeq(sc, 1, Len(sc) - 1)
<1>1. /\ ControlOK(p, ce) /\ Len(ce) = Len(ct) - 1 /\ Len(ct) \in Nat \ {0}
      /\ \A i \in 1 .. Len(ce) : ce[i] = ct[i]
  BY ReturnKeepsControl DEF HandlersOK
<1>2. /\ Len(sc) \in Nat /\ Len(sc) > 1 /\ (sc[Len(sc)].inherits <=> f.node.type # "function_call")
      /\ \A cf, se : /\ Len(cf) = Len(ct) - 1 /\ \A i \in 1 .. Len(cf) : cf[i] = ct[i]
                     /\ Len(se) = Len(sc) - 1 /\ \A s \in 1 .. Len(se) : se[s] = sc[s]
                     => DepthOK(cf, se)
  BY <1>1, LeaveKeepsDepth DEF HandlersOK
<1>3. Len(sd) = Len(sc) - 1 /\ \A s \in 1 .. Len(sd) : sd[s] = sc[s]
  <2>1. sc # << >>
    BY <1>2
  <2> QED
    BY <2>1, FrontOf
<1> HIDE DEF ce, sd
<1>4. DepthOK(ce, sd)
  BY <1>1, <1>2, <1>3
<1>5. ASSUME f.node \in Node
      PROVE  /\ HandlersOK(p, cd, sd) /\ cd[Len(cd)] = Frame(f.node)
             /\ Len(cd) = Len(ct) /\ \A i \in 1 .. Len(ce) : cd[i] = ct[i]
  <2>1. /\ Frame(f.node) \in FrameType /\ FrameOK(p, Frame(f.node)) /\ Frame(f.node).node = f.node
        /\ ~Frame(f.node).scoped
    BY <1>5, NewFrame
  <2>2. /\ ControlOK(p, cd) /\ Len(cd) = Len(ct) /\ cd[Len(ct)] = Frame(f.node)
        /\ \A i \in 1 .. Len(ct) - 1 : cd[i] = ct[i]
    BY <2>1, BecomeKeepsControl DEF HandlersOK, ce
  <2> HIDE DEF cd
  <2>3. /\ Len(ce) \in Nat /\ Len(cd) = Len(ce) + 1 /\ cd[Len(cd)] = Frame(f.node)
        /\ \A i \in 1 .. Len(ce) : cd[i] = ce[i] /\ cd[i] = ct[i]
    BY <1>1, <2>2
  <2>4. DepthOK(cd, sd)
    BY <1>4, <2>1, <2>3, AppendKeepsDepth
  <2> QED
    BY <2>2, <2>3, <2>4 DEF HandlersOK
<1> HIDE DEF cd
<1>6. ASSUME NEW load, NEW fl, NEW d, IsReturning(fl) => load, f.node \in Node, f.node.type = "loop"
      PROVE  ModesOK(cd, sd, load, fl, d)
  <2>1. /\ Frame(f.node).node = f.node /\ Frame(f.node).at = "start"
        /\ cd[Len(cd)] = Frame(f.node) /\ Len(cd) = Len(ct)
        /\ \A i \in 1 .. Len(ce) : cd[i] = ct[i]
    BY <1>5, <1>6, NewFrame
  <2>2. Len(ct) > 1 => cd[Len(cd) - 1].at \notin OperandLabel
    <3>1. ASSUME Len(ct) > 1
          PROVE  cd[Len(cd) - 1].at \notin OperandLabel
      <4>1. Len(ct) - 1 \in 1 .. Len(ct) - 1 /\ Len(ct) - 1 \in 1 .. Len(ce) /\ (Len(ct) - 1) + 1 = Len(ct)
        BY <1>1, <3>1
      <4>2. value_type(f.node) = "none"
        BY <1>6 DEF value_type, NumberType
      <4>3. ct[Len(ct) - 1].at \notin OperandLabel
        BY <4>1, <4>2, CallerFacts DEF HandlersOK
      <4> QED
        BY <2>1, <4>1, <4>3
    <3> QED
      BY <3>1
  <2>3. ModeOK(cd, load)
    BY <1>6, <2>1, <2>2 DEF ModeOK, OperandLabel
  <2>4. ReturnOK(cd, load, fl)
    BY <1>6, <2>1 DEF ReturnOK
  <2>5. CurrentOK(cd, d, sd)
    BY <2>1 DEF CurrentOK, IsTarget
  <2> QED
    BY <2>3, <2>4, <2>5 DEF ModesOK
<1> QED
  BY <1>1, <1>2, <1>4, <1>5, <1>6 DEF HandlersOK, cd, ce, sd

-------------------------------------------------------------------------------
\* What a visible name is bound to is an entry of the store, and no caller has saved it.
LEMMA CurrentFacts ==
    ASSUME NEW sc, NEW cs, NEW vs, StoreOK(sc, cs, vs, Len(sc)), NEW sv, SavedOK(sc, cs, vs, sv),
           NEW d, IsCurrent(sc, d)
    PROVE  /\ d \in Descriptor
           /\ d.index \in IF d.is_constant THEN 1 .. Len(cs) ELSE 1 .. Len(vs)
           /\ \E m \in 0 .. Len(sc) : SavedBelow(sv, m) /\ Base(sc, m, KindOf(d)) < d.index
<1>0. PICK s \in 1 .. Len(sc) : \E n \in DOMAIN sc[s].table : IsVisible(sc, s, n) /\ d = sc[s].table[n]
  BY DEF IsCurrent
<1>1. PICK n \in DOMAIN sc[s].table : IsVisible(sc, s, n) /\ d = sc[s].table[n]
  BY <1>0
<1>2. /\ sc \in Seq(ScopeType) /\ Len(sc) \in Nat /\ EntryOK(sc, Len(sc), s, n)
      /\ Len(cs) = Base(sc, Len(sc), "constant") /\ Len(vs) = Base(sc, Len(sc), "variable")
      /\ \A c \in Kind : IsFiniteSet(Bindings(sc, Len(sc), c))
  BY <1>1 DEF StoreOK, EntriesOK
<1>3. d \in Descriptor /\ d.index \in Nat /\ d.is_constant \in BOOLEAN /\ KindOf(d) \in Kind
  <2>1. sc[s].table[n] \in Descriptor /\ KindOf(sc[s].table[n]) \in Kind
    BY <1>1, <1>2, ScopesTyped
  <2> QED
    BY <1>1, <2>1 DEF Descriptor
<1>4. /\ Base(sc, s - 1, KindOf(d)) < d.index
      /\ d.index =< Base(sc, s, KindOf(d))
  BY <1>1, <1>2 DEF EntryOK
<1>5. /\ Base(sc, s - 1, KindOf(d)) \in Nat /\ Base(sc, s, KindOf(d)) \in Nat
      /\ Base(sc, Len(sc), KindOf(d)) \in Nat
      /\ Base(sc, s, KindOf(d)) =< Base(sc, Len(sc), KindOf(d))
  <2>1. /\ s \in 0 .. Len(sc) /\ s - 1 \in 0 .. Len(sc) /\ Len(sc) \in 0 .. Len(sc)
        /\ s - 1 \in 0 .. s - 1 /\ s \in 0 .. s
    BY <1>2
  <2>2. IsFiniteSet(Bindings(sc, Len(sc), KindOf(d)))
    BY <1>2, <1>3
  <2>3. Base(sc, s - 1, KindOf(d)) \in Nat
    BY <1>2, <2>1, <2>2, BindingsMonotone
  <2>4. Base(sc, s, KindOf(d)) \in Nat /\ Base(sc, Len(sc), KindOf(d)) \in Nat
    BY <1>2, <2>1, <2>2, BindingsMonotone
  <2>5. Base(sc, s, KindOf(d)) =< Base(sc, Len(sc), KindOf(d))
    BY <1>2, <2>1, <2>2, BindingsMonotone
  <2> QED
    BY <2>3, <2>4, <2>5
<1>6. d.index \in 1 .. Base(sc, Len(sc), KindOf(d))
  BY <1>3, <1>4, <1>5
<1>7. d.index \in IF d.is_constant THEN 1 .. Len(cs) ELSE 1 .. Len(vs)
  BY <1>2, <1>6 DEF KindOf
<1>8. SavedBelow(sv, s - 1) /\ s - 1 \in 0 .. Len(sc)
  <2>1. \A t \in s + 1 .. Len(sc) : sc[t].inherits
    BY <1>1 DEF IsVisible
  <2> QED
    BY <1>1, <1>2, <2>1, VisibleAbove
<1> QED
  BY <1>3, <1>4, <1>7, <1>8

\* An assignment to what a visible name is bound to keeps the store and what is saved.
LEMMA AssignKeeps ==
    ASSUME NEW sc, sc # << >>, NEW cs, NEW vs, StoreOK(sc, cs, vs, Len(sc)), NEW sv, SavedOK(sc, cs, vs, sv),
           NEW d, IsCurrent(sc, d),
           NEW cd \in Seq(Value \cup {NoValue}), Len(cd) = Len(cs),
           \A i \in 1 .. Len(cs) : (d.is_constant /\ i = d.index) \/ cd[i] = cs[i],
           NEW vd \in Seq(Value), Len(vd) = Len(vs),
           \A i \in 1 .. Len(vs) : (~d.is_constant /\ i = d.index) \/ vd[i] = vs[i]
    PROVE  StoreOK(sc, cd, vd, Len(sc)) /\ SavedOK(sc, cd, vd, sv)
<1>1. /\ sc \in Seq(ScopeType) /\ Len(sc) \in Nat
      /\ cs \in Seq(Value \cup {NoValue}) /\ vs \in Seq(Value)
      /\ Len(cs) = Base(sc, Len(sc), "constant") /\ Len(vs) = Base(sc, Len(sc), "variable")
      /\ \A c \in Kind : IsFiniteSet(Bindings(sc, Len(sc), c))
      /\ EntriesOK(sc, Len(sc), Len(sc))
  BY DEF StoreOK
<1>2. d \in Descriptor
  BY CurrentFacts
<1>3. PICK m \in 0 .. Len(sc) : SavedBelow(sv, m) /\ Base(sc, m, KindOf(d)) < d.index
  BY CurrentFacts
<1>4. \A c \in Kind : /\ Base(sc, m, c) \in Nat
                      /\ Base(sc, m, c) =< Base(sc, Len(sc), c)
                      /\ Base(sc, Len(sc), c) \in Nat
  <2>1. Len(sc) \in 0 .. Len(sc) /\ m \in 0 .. Len(sc)
    BY <1>1
  <2> QED
    BY <1>1, <2>1, BindingsMonotone
<1>5. \A i \in 1 .. Base(sc, m, "constant") : i \in 1 .. Len(cs) /\ ~(d.is_constant /\ i = d.index)
  BY <1>1, <1>2, <1>3, <1>4 DEF KindOf, Kind, Descriptor
<1>6. \A i \in 1 .. Base(sc, m, "variable") : i \in 1 .. Len(vs) /\ ~(~d.is_constant /\ i = d.index)
  BY <1>1, <1>2, <1>3, <1>4 DEF KindOf, Kind, Descriptor
<1>7. StoreOK(sc, cd, vd, Len(sc))
  BY <1>1 DEF StoreOK
<1>8. AgreeBelow(sc, cs, vs, cd, vd, m)
  BY <1>5, <1>6 DEF AgreeBelow
<1>9. SavedOK(sc, cd, vd, sv)
  BY <1>1, <1>3, <1>8, SavedKept
<1> QED
  BY <1>7, <1>9

\* A set of natural numbers that is not empty has a least element.
LEMMA Least ==
    ASSUME NEW S, S \subseteq Nat, S # {}
    PROVE  \E m \in S : \A k \in S : m =< k
<1> DEFINE R == OpToRel(<, Nat)
<1>1. IsWellFoundedOn(R, Nat)
  BY NatLessThanWellFounded
<1>2. PICK x \in S : \A y \in S : ~(<<y, x>> \in R)
  <2> HIDE DEF R
  <2> QED
    BY <1>1, WFMin
<1>3. ASSUME NEW y \in S PROVE ~(y < x)
  BY <1>2 DEF OpToRel
<1> QED
  BY <1>3

\* A bounded set of natural numbers that is not empty has a greatest element.
LEMMA Greatest ==
    ASSUME NEW n \in Nat, NEW S, S \subseteq 1 .. n, S # {}
    PROVE  \E m \in S : \A k \in S : k =< m
<1> DEFINE T == { n - k : k \in S }
<1>1. T \subseteq Nat /\ T # {}
  <2>1. \A k \in S : n - k \in Nat
    OBVIOUS
  <2>2. \E k \in S : n - k \in T
    OBVIOUS
  <2> QED
    BY <2>1, <2>2
<1>2. PICK m \in T : \A k \in T : m =< k
  <2> HIDE DEF T
  <2> QED
    BY <1>1, Least
<1>3. PICK j \in S : m = n - j
  BY <1>2
<1>4. ASSUME NEW k \in S PROVE k =< j
  <2>1. n - k \in T
    OBVIOUS
  <2>2. n - j =< n - k
    BY <1>2, <1>3, <2>1
  <2> QED
    BY <2>2
<1> QED
  BY <1>4

-------------------------------------------------------------------------------
\* The invariant. The types of the registers, and that there always is a scope.
TypesOK ==
    /\ phase \in {"starting", "running", "done", "failed", "crashed"}
    /\ ast \in Programs
    /\ parameters \in Parameters
    /\ result \in Value
    /\ flags \subseteq StateFlags
    /\ current_descriptor \in Descriptor
    /\ load_references \in BOOLEAN
    /\ error \in ErrorCode
    /\ scopes # << >>

\* Nothing has happened before the inputs and outputs are bound.
StartOK ==
    /\ phase = "starting" => /\ constants = << >> /\ variables = << >> /\ saved = << >> /\ flags = {}
                             /\ scopes = <<Scope(FALSE, NoNames)>>
    /\ phase \in {"starting", "done", "failed"} => control = << >>

\* While a scope is popped its bindings are erased one by one, and those that are left may
\* be indices of elements that have moved.
Settled == IF Leaving \/ phase = "crashed" THEN Len(scopes) - 1 ELSE Len(scopes)

\* The mode, the flags and the current descriptor are right for the innermost handler.
ExecutingOK == phase = "running" /\ error = "ok"
                 => ModesOK(control, scopes, load_references, flags, current_descriptor)

\* The inductive invariant.
IInv == /\ TypesOK
        /\ StartOK
        /\ HandlersOK(ast, control, scopes)
        /\ StoreOK(scopes, constants, variables, Settled)
        /\ SavedOK(scopes, constants, variables, saved)
        /\ ExecutingOK

\* Scopes whose entries are right stay so when fewer need to be.
LEMMA SettledLess ==
    ASSUME NEW sc, NEW cs, NEW vs, NEW u \in Int, StoreOK(sc, cs, vs, u), NEW v \in Int, v =< u
    PROVE  StoreOK(sc, cs, vs, v)
BY DEF StoreOK, EntriesOK, EntryOK

\* A handler is running, and no error is on its way.
Active == phase = "running" /\ error = "ok" /\ control # << >>

\* What a handler knows that is neither being left nor handing on an error.
LEMMA ActiveFacts ==
    ASSUME IInv, Active, top.at # "leave"
    PROVE  /\ phase = "running" /\ error = "ok" /\ control # << >>
           /\ Len(control) \in 1 .. Len(control) /\ Len(control) \in Nat \ {0} /\ top = control[Len(control)]
           /\ top \in FrameType /\ FrameOK(ast, top) /\ node = top.node
           /\ top.rest \in Seq(Node) /\ top.values \in Seq(Value) /\ top.scoped \in BOOLEAN
           /\ node.type # "program" <=> node \in Node
           /\ HandlersOK(ast, control, scopes)
           /\ StoreOK(scopes, constants, variables, Len(scopes))
           /\ SavedOK(scopes, constants, variables, saved)
           /\ ModeOK(control, load_references)
           /\ ReturnOK(control, load_references, flags)
           /\ CurrentOK(control, current_descriptor, scopes)
<1>1. /\ phase = "running" /\ error = "ok" /\ control # << >>
      /\ top = control[Len(control)] /\ node = top.node
  BY DEF Active, top, node
<1>2. ControlOK(ast, control) /\ control \in Seq(FrameType)
  BY DEF IInv, HandlersOK, ControlOK
<1>3. Len(control) \in 1 .. Len(control) /\ Len(control) \in Nat \ {0}
  BY <1>1, <1>2
<1>4. /\ top \in FrameType /\ FrameOK(ast, top)
      /\ top.rest \in Seq(Node) /\ top.values \in Seq(Value) /\ top.scoped \in BOOLEAN
      /\ node.type # "program" <=> node \in Node
  BY <1>1, <1>2, <1>3, FrameFacts
<1>5. Settled = Len(scopes)
  BY <1>1 DEF Settled, Leaving
<1>6. /\ HandlersOK(ast, control, scopes)
      /\ StoreOK(scopes, constants, variables, Len(scopes))
      /\ SavedOK(scopes, constants, variables, saved)
  BY <1>5 DEF IInv
<1>7. /\ ModeOK(control, load_references)
      /\ ReturnOK(control, load_references, flags)
      /\ CurrentOK(control, current_descriptor, scopes)
  BY <1>1 DEF IInv, ExecutingOK, ModesOK
<1> QED
  BY <1>1, <1>3, <1>4, <1>6, <1>7

\* A step that leaves the program running keeps the invariant if it keeps its parts.
LEMMA Conclude ==
    ASSUME TypesOK', phase' = "running", HandlersOK(ast', control', scopes'),
           StoreOK(scopes', constants', variables', Len(scopes')),
           SavedOK(scopes', constants', variables', saved'),
           error' = "ok" => ModesOK(control', scopes', load_references', flags', current_descriptor')
    PROVE  IInv'
<1>1. StoreOK(scopes', constants', variables', Settled')
  <2>1. Len(scopes') \in Int
    BY DEF StoreOK
  <2>2. Settled' \in Int /\ Settled' =< Len(scopes')
    BY <2>1 DEF Settled
  <2> QED
    BY <2>1, <2>2, SettledLess
<1>2. StartOK'
  BY DEF StartOK
<1> QED
  BY <1>1, <1>2 DEF IInv, ExecutingOK

\* A handler that goes on with another label.
LEMMA FrameAt ==
    ASSUME NEW g \in FrameType, NEW label \in Label
    PROVE  LET f == [g EXCEPT !.at = label]
           IN  /\ f \in FrameType /\ f.at = label
               /\ f.node = g.node /\ f.rest = g.rest /\ f.values = g.values /\ f.scoped = g.scoped
BY DEF FrameType

\* The handler calls execute_node, and no return is on its way.
LEMMA ExecuteStep ==
    ASSUME IInv, Active, top.at # "leave", ~IsReturning(flags),
           NEW f \in FrameType, FrameOK(ast, f), f.node = node, f.scoped = top.scoped,
           NEW n \in Node, Called(f, Frame(n)), Execute(n, f),
           load_references' \in BOOLEAN,
           f.at \in OperandLabel /\ n.type # "relational_operator" => (load_references' <=> ~IsTarget(f)),
           UNCHANGED <<phase, program, store, registers, current_descriptor, error, saved>>
    PROVE  IInv'
<1>1. /\ HandlersOK(ast, control, scopes) /\ control # << >> /\ top = control[Len(control)]
      /\ phase = "running"
      /\ StoreOK(scopes, constants, variables, Len(scopes))
      /\ SavedOK(scopes, constants, variables, saved)
  BY ActiveFacts
<1>2. control' = Append(Append(SubSeq(control, 1, Len(control) - 1), f), Frame(n))
  BY DEF Execute, Callers, IsReturning
<1>3. /\ HandlersOK(ast, control', scopes)
      /\ ModesOK(control', scopes, load_references', flags, current_descriptor)
  <2>1. f.node = control[Len(control)].node /\ f.scoped = control[Len(control)].scoped
    BY <1>1 DEF node
  <2> QED
    BY <1>1, <1>2, <2>1, ExecuteKeeps
<1>4. /\ phase' = phase /\ ast' = ast /\ parameters' = parameters /\ scopes' = scopes
      /\ constants' = constants /\ variables' = variables /\ result' = result /\ flags' = flags
      /\ current_descriptor' = current_descriptor /\ error' = error /\ saved' = saved
  BY DEF program, store, registers
<1>5. TypesOK'
  BY <1>4 DEF IInv, TypesOK
<1> QED
  BY <1>1, <1>3, <1>4, <1>5, Conclude

\* A node whose handler has a value reports it to the handler that has called it.
LEMMA ReturnStep ==
    ASSUME IInv, Active, top.at # "leave", ~top.scoped, Return,
           phase' = phase, ast' = ast, saved' = saved,
           TypesOK',
           StoreOK(scopes', constants', variables', Len(scopes')),
           SavedOK(scopes', constants', variables', saved'),
           HandlersOK(ast, control, scopes'),
           LET g == control[Len(control) - 1]
           IN  Len(control) > 1 =>
                 /\ g.at \in OperandLabel => (load_references' <=> ~IsTarget(g))
                 /\ IsTarget(g) => IsCurrent(scopes', current_descriptor'),
           IsReturning(flags') => load_references' /\ value_type(node) = "none",
           node.type = "function_return" => IsReturning(flags')
    PROVE  IInv'
<1>1. /\ HandlersOK(ast, control, scopes) /\ control # << >> /\ top = control[Len(control)]
      /\ phase = "running" /\ node = top.node
  BY ActiveFacts
<1>2. control' = SubSeq(control, 1, Len(control) - 1)
  BY DEF Return, Callers
<1>3. HandlersOK(ast, control', scopes')
  BY <1>1, <1>2, ReturnKeepsHandlers
<1>4. ModesOK(control', scopes', load_references', flags', current_descriptor')
  <2>1. ControlOK(ast, control)
    BY <1>1 DEF HandlersOK
  <2> QED
    BY <1>1, <1>2, <2>1, ReturnModes
<1> QED
  BY <1>1, <1>3, <1>4, Conclude

\* An error leaves everything to the handlers that propagate it.
LEMMA FailStep ==
    ASSUME IInv, Active, top.at # "leave", NEW code \in ErrorCode \ {"ok"},
           Fail(code),
           load_references' \in BOOLEAN,
           UNCHANGED <<phase, program, store, registers, current_descriptor, saved>>
    PROVE  IInv'
<1>1. /\ HandlersOK(ast, control, scopes) /\ phase = "running"
      /\ StoreOK(scopes, constants, variables, Len(scopes))
      /\ SavedOK(scopes, constants, variables, saved)
  BY ActiveFacts
<1>2. /\ phase' = phase /\ ast' = ast /\ parameters' = parameters /\ scopes' = scopes
      /\ constants' = constants /\ variables' = variables /\ result' = result /\ flags' = flags
      /\ current_descriptor' = current_descriptor /\ error' = code /\ saved' = saved
      /\ control' = control
  BY DEF program, store, registers, Fail
<1>3. TypesOK'
  BY <1>2 DEF IInv, TypesOK
<1> QED
  BY <1>1, <1>2, <1>3, Conclude

\* The mode in which a handler with a value returns is the one its caller needs.
LEMMA CallerMode ==
    ASSUME IInv, Active, Len(control) > 1,
           top.at = "start" \/ (top.at \in OperandLabel /\ ~IsTarget(top)),
           top.at = "start" => node.type # "relational_operator",
           top.at # "start" => ~is_lvalue(node)
    PROVE  LET g == control[Len(control) - 1]
           IN  /\ IsTarget(g) => is_lvalue(node)
               /\ g.at \in OperandLabel => (load_references <=> ~IsTarget(g))
<1> DEFINE g == control[Len(control) - 1]
<1>0. top.at # "leave"
  BY DEF OperandLabel
<1>1. /\ HandlersOK(ast, control, scopes) /\ top = control[Len(control)]
      /\ node = top.node /\ Len(control) \in Nat \ {0} /\ ModeOK(control, load_references)
  BY <1>0, ActiveFacts
<1>2. IsTarget(g) => is_lvalue(node)
  <2>1. Len(control) - 1 \in 1 .. Len(control) - 1 /\ (Len(control) - 1) + 1 = Len(control)
    BY <1>1
  <2> QED
    BY <1>1, <2>1, CallerFacts DEF HandlersOK
<1>3. CASE top.at = "start"
  BY <1>1, <1>2, <1>3 DEF ModeOK
<1>4. CASE top.at # "start"
  BY <1>1, <1>2, <1>4 DEF ModeOK
<1> QED
  BY <1>3, <1>4

\* What is known of a value is no return.
LEMMA StatusFacts ==
    ASSUME NEW v
    PROVE  Status(v) \subseteq StateFlags /\ ~IsReturning(Status(v))
BY DEF Status, StateFlags, IsReturning

\* A number is computed, and nothing else has changed.
LEMMA ValueStep ==
    ASSUME IInv, Active, top.at # "leave", ~top.scoped,
           NEW v \in Value, SetResult(v), Return,
           node.type \in {"numeric_constant", "arithmetic_operator", "unary_operator"},
           top.at \in OperandLabel \/ top.at = "start",
           UNCHANGED <<phase, program, store, reference, saved>>
    PROVE  IInv'
<1>1. /\ HandlersOK(ast, control, scopes) /\ control # << >> /\ top = control[Len(control)]
      /\ phase = "running" /\ node = top.node /\ Len(control) \in Nat \ {0} /\ error = "ok"
      /\ StoreOK(scopes, constants, variables, Len(scopes))
      /\ SavedOK(scopes, constants, variables, saved)
  BY ActiveFacts
<1>2. /\ phase' = phase /\ ast' = ast /\ parameters' = parameters /\ scopes' = scopes
      /\ constants' = constants /\ variables' = variables /\ result' = v /\ flags' = Status(v)
      /\ current_descriptor' = current_descriptor /\ load_references' = load_references
      /\ saved' = saved /\ error' = error
  BY DEF program, store, reference, SetResult, Return
<1>3. TypesOK'
  BY <1>2, StatusFacts DEF IInv, TypesOK
<1>4. ~IsReturning(flags')
  BY <1>2, StatusFacts
<1>5. ~is_lvalue(node) /\ node.type # "function_return"
  BY DEF is_lvalue
<1>6. LET g == control[Len(control) - 1]
      IN  Len(control) > 1 => /\ ~IsTarget(g)
                              /\ g.at \in OperandLabel => (load_references <=> ~IsTarget(g))
  <2>1. node.type # "relational_operator" /\ ~IsTarget(top)
    <3>1. node = top.node
      BY <1>1
    <3> QED
      BY <3>1 DEF IsTarget
  <2> QED
    BY <1>5, <2>1, CallerMode
<1> QED
  BY <1>1, <1>2, <1>3, <1>4, <1>5, <1>6, ReturnStep

\* The children of a node are nodes.
LEMMA ChildFacts ==
    ASSUME NEW n \in Node
    PROVE  /\ n.type \in {"assignment", "arithmetic_operator", "update_expression", "relational_operator"}
                => n.lhs \in Node /\ n.rhs \in Node
           /\ n.type = "unary_operator" => n.operand \in Node
           /\ n.type \in {"conditional_construct", "loop"} => n.condition \in Node
           /\ n.type = "function_return" => n.return_value \in Node
           /\ n.type \in {"conditional_construct", "loop"} => IsCondition(n.condition) /\ n.body \in Seq(Node)
           /\ n.type = "conditional_construct" => n.else_body \in Seq(Node)
<1>1. Children(n) \subseteq Node /\ WellFormedNode(n)
  BY NodeAssumption
<1>2. n.type \in {"assignment", "arithmetic_operator", "update_expression", "relational_operator"}
        => n.lhs \in Node /\ n.rhs \in Node
  BY <1>1 DEF Children
<1>3. n.type = "unary_operator" => n.operand \in Node
  BY <1>1 DEF Children
<1>4. n.type \in {"conditional_construct", "loop"} => n.condition \in Node
  BY <1>1 DEF Children
<1>5. n.type = "function_return" => n.return_value \in Node
  BY <1>1 DEF Children
<1>6. n.type \in {"conditional_construct", "loop"} => IsCondition(n.condition)
  BY <1>1 DEF WellFormedNode
<1> QED
  BY <1>2, <1>3, <1>4, <1>5, <1>6, NodeAssumption

\* A handler evaluates an operand, in the mode the operand needs.
LEMMA OperandStep ==
    ASSUME IInv, Active, top.at = "start" \/ top.at \in OperandLabel,
           node.type \notin {"loop", "function_call", "program"},
           NEW f \in FrameType, f.node = node, f.scoped = top.scoped,
           f.at \in OperandLabel, f.at \in Labels(node.type),
           f.at = "rhs" /\ node.type \in {"arithmetic_operator", "relational_operator"} => Len(f.values) = 1,
           NEW n \in Node, Execute(n, f),
           \/ f.at = "lhs" /\ n = node.lhs
           \/ f.at = "rhs" /\ n = node.rhs
           \/ f.at = "operand" /\ n = node.operand
           \/ f.at = "condition" /\ n = node.condition
           \/ f.at = "value" /\ n = node.return_value,
           load_references' \in BOOLEAN, UNCHANGED current_descriptor,
           load_references' <=> ~IsTarget(f),
           UNCHANGED <<phase, program, store, registers, error, saved>>
    PROVE  IInv'
<1>1. /\ top \in FrameType /\ FrameOK(ast, top) /\ node = top.node
      /\ control # << >> /\ top = control[Len(control)]
      /\ ReturnOK(control, load_references, flags) /\ top.at # "leave"
  <2>1. top.at # "leave"
    BY DEF OperandLabel
  <2> QED
    BY <2>1, ActiveFacts
<1>2. ~top.scoped
  BY <1>1 DEF FrameOK, OperandLabel
<1>3. FrameOK(ast, f)
  BY <1>1, <1>2 DEF FrameOK, OperandLabel
<1>4. Called(f, Frame(n))
  BY NewFrame DEF Called
<1>5. ~IsReturning(flags)
  BY <1>1 DEF ReturnOK, OperandLabel
<1> QED
  BY <1>1, <1>3, <1>4, <1>5, ExecuteStep

\* Interpreter.cpp handle_arithmetic_operation keeps the invariant.
LEMMA ArithmeticStep ==
    ASSUME IInv, handle_arithmetic_operation PROVE IInv'
<1> SUFFICES ASSUME Active, node.type = "arithmetic_operator" PROVE IInv'
  BY DEF handle_arithmetic_operation, At, Active
<1>1. CASE /\ At({"arithmetic_operator"}, "start")
           /\ Load(TRUE)
           /\ Execute(node.lhs, [top EXCEPT !.at = "lhs"])
           /\ UNCHANGED <<phase, program, store, registers, error, saved>>
  <2> DEFINE f == [top EXCEPT !.at = "lhs"]
  <2>1. /\ top.at = "start" /\ Execute(node.lhs, f)
        /\ load_references' = TRUE /\ UNCHANGED current_descriptor
        /\ UNCHANGED <<phase, program, store, registers, error, saved>>
    BY <1>1 DEF At, Load
  <2>2. node \in Node /\ top \in FrameType /\ node = top.node
    BY <2>1, ActiveFacts
  <2>3. /\ f \in FrameType /\ f.at = "lhs" /\ f.node = node /\ f.scoped = top.scoped
    BY <2>2, FrameAt DEF Label
  <2> HIDE DEF f
  <2>4. ~IsTarget(f) /\ f.at \in OperandLabel /\ f.at \in Labels(node.type) /\ node.lhs \in Node
    BY <2>2, <2>3, ChildFacts DEF IsTarget, OperandLabel, Labels
  <2> QED
    BY <2>1, <2>2, <2>3, <2>4, OperandStep
<1>2. CASE /\ At({"arithmetic_operator"}, "lhs")
           /\ Load(TRUE)
           /\ Execute(node.rhs, [top EXCEPT !.at = "rhs", !.values = <<result>>])
           /\ UNCHANGED <<phase, program, store, registers, error, saved>>
  <2> DEFINE f == [top EXCEPT !.at = "rhs", !.values = <<result>>]
  <2>1. /\ top.at = "lhs" /\ Execute(node.rhs, f)
        /\ load_references' = TRUE /\ UNCHANGED current_descriptor
        /\ UNCHANGED <<phase, program, store, registers, error, saved>>
    BY <1>2 DEF At, Load
  <2>2. node \in Node /\ top \in FrameType /\ node = top.node
    BY <2>1, ActiveFacts
  <2>3. /\ f \in FrameType /\ f.at = "rhs" /\ f.node = node /\ f.scoped = top.scoped /\ Len(f.values) = 1
    <3>1. result \in Value
      BY DEF IInv, TypesOK
    <3>2. <<result>> \in Seq(Value) /\ Len(<<result>>) = 1
      BY <3>1
    <3> QED
      BY <2>2, <3>2 DEF FrameType, Label
  <2> HIDE DEF f
  <2>4. ~IsTarget(f) /\ f.at \in OperandLabel /\ f.at \in Labels(node.type) /\ node.rhs \in Node
    BY <2>2, <2>3, ChildFacts DEF IsTarget, OperandLabel, Labels
  <2>5. top.at \in OperandLabel
    BY <2>1 DEF OperandLabel
  <2> QED
    BY <2>1, <2>2, <2>3, <2>4, <2>5, OperandStep
<1>3. CASE /\ At({"arithmetic_operator"}, "rhs")
           /\ IF node.op = "divide" /\ "zero" \in flags
                 THEN Fail("divide_by_zero") /\ UNCHANGED registers
                 ELSE SetResult(Compute(node.op, top.values[1], result)) /\ Return
           /\ UNCHANGED <<phase, program, store, reference, saved>>
  <2>1. top.at = "rhs"
    BY <1>3 DEF At
  <2>2. FrameOK(ast, top) /\ node = top.node /\ node \in Node /\ top.values \in Seq(Value)
    BY <2>1, ActiveFacts
  <2>3. CASE Fail("divide_by_zero") /\ UNCHANGED registers
    <3>1. /\ "divide_by_zero" \in ErrorCode \ {"ok"}
          /\ load_references' \in BOOLEAN /\ UNCHANGED current_descriptor
      BY <1>3 DEF ErrorCode, reference, IInv, TypesOK
    <3> QED
      BY <1>3, <2>1, <2>3, <3>1, FailStep
  <2>4. CASE SetResult(Compute(node.op, top.values[1], result)) /\ Return
    <3>1. Compute(node.op, top.values[1], result) \in Value
      <4>1. top.values[1] \in Value
        BY <2>1, <2>2 DEF FrameOK
      <4>2. node.op \in ArithmeticOp
        BY <2>2, NodeAssumption DEF WellFormedNode
      <4>3. result \in Value
        BY DEF IInv, TypesOK
      <4> QED
        BY <4>1, <4>2, <4>3, ValueAssumption
    <3>2. ~top.scoped /\ top.at \in OperandLabel
      BY <2>1, <2>2 DEF FrameOK, OperandLabel
    <3> QED
      BY <1>3, <2>1, <2>4, <3>1, <3>2, ValueStep
  <2> QED
    BY <1>3, <2>3, <2>4
<1> QED
  BY <1>1, <1>2, <1>3 DEF handle_arithmetic_operation

\* Interpreter.cpp handle_numeric_constant keeps the invariant.
LEMMA NumericStep ==
    ASSUME IInv, handle_numeric_constant PROVE IInv'
<1>1. /\ Active /\ node.type = "numeric_constant" /\ top.at = "start"
      /\ SetResult(node.value) /\ Return /\ UNCHANGED <<phase, program, store, reference, saved>>
  BY DEF handle_numeric_constant, At, Active
<1>2. node \in Node /\ node = top.node /\ FrameOK(ast, top)
  BY <1>1, ActiveFacts
<1>3. node.value \in Value /\ ~top.scoped
  BY <1>1, <1>2, NodeAssumption DEF FrameOK
<1> QED
  BY <1>1, <1>3, ValueStep

\* Interpreter.cpp handle_unary_expression keeps the invariant.
LEMMA UnaryStep ==
    ASSUME IInv, handle_unary_expression PROVE IInv'
<1> SUFFICES ASSUME Active, node.type = "unary_operator" PROVE IInv'
  BY DEF handle_unary_expression, At, Active
<1>1. CASE /\ At({"unary_operator"}, "start")
           /\ Load(TRUE)
           /\ Execute(node.operand, [top EXCEPT !.at = "operand"])
           /\ UNCHANGED <<phase, program, store, registers, error, saved>>
  <2> DEFINE f == [top EXCEPT !.at = "operand"]
  <2>1. /\ top.at = "start" /\ Execute(node.operand, f)
        /\ load_references' = TRUE /\ UNCHANGED current_descriptor
        /\ UNCHANGED <<phase, program, store, registers, error, saved>>
    BY <1>1 DEF At, Load
  <2>2. node \in Node /\ top \in FrameType /\ node = top.node
    BY <2>1, ActiveFacts
  <2>3. f \in FrameType /\ f.at = "operand" /\ f.node = node /\ f.scoped = top.scoped
    BY <2>2, FrameAt DEF Label
  <2> HIDE DEF f
  <2>4. ~IsTarget(f) /\ f.at \in OperandLabel /\ f.at \in Labels(node.type) /\ node.operand \in Node
    BY <2>2, <2>3, ChildFacts DEF IsTarget, OperandLabel, Labels
  <2> QED
    BY <2>1, <2>2, <2>3, <2>4, OperandStep
<1>2. CASE /\ At({"unary_operator"}, "operand")
           /\ IF node.op = "factorial" /\ "negative" \in flags /\ IsInteger(result)
                 THEN Fail("invalid_argument") /\ UNCHANGED registers
                 ELSE SetResult(Compute(node.op, result, Zero)) /\ Return
           /\ UNCHANGED <<phase, program, store, reference, saved>>
  <2>1. top.at = "operand"
    BY <1>2 DEF At
  <2>2. FrameOK(ast, top) /\ node = top.node /\ node \in Node
    BY <2>1, ActiveFacts
  <2>3. CASE Fail("invalid_argument") /\ UNCHANGED registers
    <3>1. /\ "invalid_argument" \in ErrorCode \ {"ok"}
          /\ load_references' \in BOOLEAN /\ UNCHANGED current_descriptor
      BY <1>2 DEF ErrorCode, reference, IInv, TypesOK
    <3> QED
      BY <1>2, <2>1, <2>3, <3>1, FailStep
  <2>4. CASE SetResult(Compute(node.op, result, Zero)) /\ Return
    <3>1. Compute(node.op, result, Zero) \in Value
      <4>1. node.op \in UnaryOp
        BY <2>2, NodeAssumption DEF WellFormedNode
      <4>2. result \in Value
        BY DEF IInv, TypesOK
      <4> QED
        BY <4>1, <4>2, ValueAssumption
    <3>2. ~top.scoped /\ top.at \in OperandLabel
      BY <2>1, <2>2 DEF FrameOK, OperandLabel
    <3> QED
      BY <1>2, <2>1, <2>4, <3>1, <3>2, ValueStep
  <2> QED
    BY <1>2, <2>3, <2>4
<1> QED
  BY <1>1, <1>2 DEF handle_unary_expression

\* Interpreter.cpp handle_relational_operator keeps the invariant, though it does not set the mode.
LEMMA RelationalStep ==
    ASSUME IInv, handle_relational_operator PROVE IInv'
<1> SUFFICES ASSUME Active, node.type = "relational_operator" PROVE IInv'
  BY DEF handle_relational_operator, At, Active
<1>1. CASE /\ At({"relational_operator"}, "start")
           /\ Load(TRUE)
           /\ Execute(node.lhs, [top EXCEPT !.at = "lhs"])
           /\ UNCHANGED <<phase, program, store, registers, error, saved>>
  <2> DEFINE f == [top EXCEPT !.at = "lhs"]
  <2>1. /\ top.at = "start" /\ Execute(node.lhs, f)
        /\ load_references' = TRUE /\ UNCHANGED current_descriptor
        /\ UNCHANGED <<phase, program, store, registers, error, saved>>
    BY <1>1 DEF At, Load
  <2>2. node \in Node /\ top \in FrameType /\ node = top.node
    BY <2>1, ActiveFacts
  <2>3. f \in FrameType /\ f.at = "lhs" /\ f.node = node /\ f.scoped = top.scoped
    BY <2>2, FrameAt DEF Label
  <2> HIDE DEF f
  <2>4. ~IsTarget(f) /\ f.at \in OperandLabel /\ f.at \in Labels(node.type) /\ node.lhs \in Node
    BY <2>2, <2>3, ChildFacts DEF IsTarget, OperandLabel, Labels
  <2> QED
    BY <2>1, <2>2, <2>3, <2>4, OperandStep
<1>2. CASE /\ At({"relational_operator"}, "lhs")
           /\ Execute(node.rhs, [top EXCEPT !.at = "rhs", !.values = <<result>>])
           /\ UNCHANGED <<phase, program, store, registers, reference, error, saved>>
  <2> DEFINE f == [top EXCEPT !.at = "rhs", !.values = <<result>>]
  <2>1. /\ top.at = "lhs" /\ Execute(node.rhs, f)
        /\ UNCHANGED <<load_references, current_descriptor>>
        /\ UNCHANGED <<phase, program, store, registers, error, saved>>
    BY <1>2 DEF At, reference
  <2>2. /\ node \in Node /\ top \in FrameType /\ node = top.node /\ top = control[Len(control)]
        /\ ModeOK(control, load_references)
    BY <2>1, ActiveFacts
  <2>3. /\ f \in FrameType /\ f.at = "rhs" /\ f.node = node /\ f.scoped = top.scoped /\ Len(f.values) = 1
    <3>1. result \in Value
      BY DEF IInv, TypesOK
    <3>2. <<result>> \in Seq(Value) /\ Len(<<result>>) = 1
      BY <3>1
    <3> QED
      BY <2>2, <3>2 DEF FrameType, Label
  <2> HIDE DEF f
  <2>4. ~IsTarget(f) /\ f.at \in OperandLabel /\ f.at \in Labels(node.type) /\ node.rhs \in Node
    BY <2>2, <2>3, ChildFacts DEF IsTarget, OperandLabel, Labels
  <2>5. top.at \in OperandLabel
    BY <2>1 DEF OperandLabel
  <2>6. load_references' \in BOOLEAN /\ (load_references' <=> ~IsTarget(f))
    <3>1. ~IsTarget(top) /\ load_references \in BOOLEAN
      BY <2>2 DEF IsTarget, IInv, TypesOK
    <3>2. load_references
      BY <2>2, <2>5, <3>1 DEF ModeOK
    <3> QED
      BY <2>1, <2>4, <3>1, <3>2
  <2> QED
    BY <2>1, <2>2, <2>3, <2>4, <2>5, <2>6, OperandStep
<1>3. CASE /\ At({"relational_operator"}, "rhs")
           /\ flags' = { f \in {"condition_was_true"} : Compare(node.op, top.values[1], result) }
           /\ Return
           /\ UNCHANGED <<phase, program, store, result, reference, saved>>
  <2>1. /\ top.at = "rhs" /\ top.at \in OperandLabel /\ Return
        /\ UNCHANGED <<phase, ast, parameters, result, constants, variables, scopes,
                       load_references, current_descriptor, saved, error>>
    BY <1>3 DEF At, reference, program, store, OperandLabel, Return
  <2>2. /\ FrameOK(ast, top) /\ node = top.node /\ HandlersOK(ast, control, scopes)
        /\ StoreOK(scopes, constants, variables, Len(scopes))
        /\ SavedOK(scopes, constants, variables, saved)
    BY <2>1, ActiveFacts
  <2>3. flags' \subseteq StateFlags /\ ~IsReturning(flags')
    BY <1>3 DEF StateFlags, IsReturning
  <2>4. TypesOK'
    BY <2>1, <2>3 DEF IInv, TypesOK
  <2>5. LET g == control[Len(control) - 1]
        IN  Len(control) > 1 => /\ ~IsTarget(g)
                                /\ g.at \in OperandLabel => (load_references <=> ~IsTarget(g))
    <3>1. ~IsTarget(top) /\ ~is_lvalue(node)
      BY <2>2 DEF IsTarget, is_lvalue
    <3> QED
      BY <2>1, <3>1, CallerMode
  <2>6. ~top.scoped
    BY <2>1, <2>2 DEF FrameOK
  <2> QED
    BY <2>1, <2>2, <2>3, <2>4, <2>5, <2>6, ReturnStep
<1> QED
  BY <1>1, <1>2, <1>3 DEF handle_relational_operator

\* What calls a statement runs a body.
LEMMA StatementCaller ==
    ASSUME IInv, Active, top.at # "leave", Len(control) > 1, value_type(node) = "none"
    PROVE  LET g == control[Len(control) - 1]
           IN  ~IsTarget(g) /\ g.at \notin OperandLabel
<1>1. /\ HandlersOK(ast, control, scopes) /\ top = control[Len(control)]
      /\ node = top.node /\ Len(control) \in Nat \ {0}
  BY ActiveFacts
<1>2. Len(control) - 1 \in 1 .. Len(control) - 1 /\ (Len(control) - 1) + 1 = Len(control)
  BY <1>1
<1>3. ~is_lvalue(node)
  BY DEF is_lvalue, value_type, NumberType
<1> QED
  BY <1>1, <1>2, <1>3, CallerFacts DEF HandlersOK

\* Interpreter.cpp handle_return keeps the invariant.
LEMMA ReturnStatementStep ==
    ASSUME IInv, handle_return PROVE IInv'
<1> SUFFICES ASSUME Active, node.type = "function_return" PROVE IInv'
  BY DEF handle_return, At, Active
<1>1. CASE /\ At({"function_return"}, "start")
           /\ Load(TRUE)
           /\ Execute(node.return_value, [top EXCEPT !.at = "value"])
           /\ UNCHANGED <<phase, program, store, registers, error, saved>>
  <2> DEFINE f == [top EXCEPT !.at = "value"]
  <2>1. /\ top.at = "start" /\ Execute(node.return_value, f)
        /\ load_references' = TRUE /\ UNCHANGED current_descriptor
        /\ UNCHANGED <<phase, program, store, registers, error, saved>>
    BY <1>1 DEF At, Load
  <2>2. node \in Node /\ top \in FrameType /\ node = top.node
    BY <2>1, ActiveFacts
  <2>3. f \in FrameType /\ f.at = "value" /\ f.node = node /\ f.scoped = top.scoped
    BY <2>2, FrameAt DEF Label
  <2> HIDE DEF f
  <2>4. ~IsTarget(f) /\ f.at \in OperandLabel /\ f.at \in Labels(node.type) /\ node.return_value \in Node
    BY <2>2, <2>3, ChildFacts DEF IsTarget, OperandLabel, Labels
  <2> QED
    BY <2>1, <2>2, <2>3, <2>4, OperandStep
<1>2. CASE /\ At({"function_return"}, "value")
           /\ flags' = flags \cup {"return_from_function"}
           /\ Return
           /\ UNCHANGED <<phase, program, store, result, reference, saved>>
  <2>1. /\ top.at = "value" /\ top.at \in OperandLabel /\ Return
        /\ UNCHANGED <<phase, ast, parameters, result, constants, variables, scopes,
                       load_references, current_descriptor, saved, error>>
    BY <1>2 DEF At, reference, program, store, OperandLabel, Return
  <2>2. /\ FrameOK(ast, top) /\ node = top.node /\ HandlersOK(ast, control, scopes)
        /\ StoreOK(scopes, constants, variables, Len(scopes)) /\ top = control[Len(control)]
        /\ SavedOK(scopes, constants, variables, saved) /\ ModeOK(control, load_references)
    BY <2>1, ActiveFacts
  <2>3. flags' \subseteq StateFlags /\ IsReturning(flags')
    BY <1>2 DEF StateFlags, IsReturning, IInv, TypesOK
  <2>4. TypesOK'
    BY <2>1, <2>3 DEF IInv, TypesOK
  <2>5. value_type(node) = "none"
    BY DEF value_type, NumberType
  <2>6. Len(control) > 1 => LET g == control[Len(control) - 1] IN ~IsTarget(g) /\ g.at \notin OperandLabel
    BY <2>1, <2>5, StatementCaller
  <2>7. ~top.scoped /\ ~IsTarget(top)
    BY <2>1, <2>2 DEF FrameOK, IsTarget
  <2>8. load_references'
    BY <2>1, <2>2, <2>7 DEF ModeOK
  <2> QED
    BY <2>1, <2>2, <2>3, <2>4, <2>5, <2>6, <2>7, <2>8, ReturnStep
<1> QED
  BY <1>1, <1>2 DEF handle_return

\* A statement has assigned v to the current descriptor, and returns.
LEMMA AssignedStep ==
    ASSUME IInv, Active, IsTarget(top),
           NEW v \in Value,
           LET d == current_descriptor
           IN  IF d.is_constant
                 THEN constants' = [constants EXCEPT ![d.index] = v] /\ UNCHANGED variables
                 ELSE variables' = [variables EXCEPT ![d.index] = v] /\ UNCHANGED constants,
           SetResult(v), Return,
           UNCHANGED <<phase, program, scopes, reference, saved>>
    PROVE  IInv'
<1> DEFINE d == current_descriptor
<1>1. top.at = "lhs" /\ top.at # "leave" /\ top.node.type \in {"assignment", "update_expression"}
  BY DEF IsTarget
<1>2. /\ FrameOK(ast, top) /\ node = top.node /\ HandlersOK(ast, control, scopes)
      /\ StoreOK(scopes, constants, variables, Len(scopes)) /\ top = control[Len(control)]
      /\ SavedOK(scopes, constants, variables, saved)
      /\ CurrentOK(control, current_descriptor, scopes)
  BY <1>1, ActiveFacts
<1>3. IsCurrent(scopes, d) /\ d \in Descriptor /\ scopes # << >>
  BY <1>2 DEF CurrentOK, IInv, TypesOK
<1>4. /\ StoreOK(scopes, constants', variables', Len(scopes))
      /\ SavedOK(scopes, constants', variables', saved)
  <2>1. constants \in Seq(Value \cup {NoValue}) /\ variables \in Seq(Value)
    BY <1>2 DEF StoreOK
  <2>2. /\ constants' \in Seq(Value \cup {NoValue}) /\ Len(constants') = Len(constants)
        /\ \A i \in 1 .. Len(constants) : (d.is_constant /\ i = d.index) \/ constants'[i] = constants[i]
    BY <2>1
  <2>3. /\ variables' \in Seq(Value) /\ Len(variables') = Len(variables)
        /\ \A i \in 1 .. Len(variables) : (~d.is_constant /\ i = d.index) \/ variables'[i] = variables[i]
    BY <2>1
  <2> QED
    BY <1>2, <1>3, <2>2, <2>3, AssignKeeps
<1>5. /\ result' = v /\ flags' = Status(v) /\ ~IsReturning(flags') /\ flags' \subseteq StateFlags
      /\ UNCHANGED <<phase, ast, parameters, scopes, load_references, current_descriptor, saved, error>>
  BY StatusFacts DEF SetResult, Return, reference, program
<1>6. TypesOK'
  BY <1>5 DEF IInv, TypesOK
<1>7. value_type(node) = "none" /\ node.type # "function_return"
  BY <1>1, <1>2 DEF value_type, NumberType
<1>8. Len(control) > 1 => LET g == control[Len(control) - 1] IN ~IsTarget(g) /\ g.at \notin OperandLabel
  BY <1>1, <1>7, StatementCaller
<1>9. ~top.scoped
  BY <1>1, <1>2 DEF FrameOK
<1> QED
  BY <1>1, <1>2, <1>4, <1>5, <1>6, <1>7, <1>8, <1>9, ReturnStep

\* Interpreter.cpp handle_assignment_node keeps the invariant.
LEMMA AssignmentStep ==
    ASSUME IInv, handle_assignment_node PROVE IInv'
<1> SUFFICES ASSUME Active, node.type = "assignment" PROVE IInv'
  BY DEF handle_assignment_node, At, Active
<1>1. CASE /\ At({"assignment"}, "start")
           /\ Load(TRUE)
           /\ Execute(node.rhs, [top EXCEPT !.at = "rhs"])
           /\ UNCHANGED <<phase, program, store, registers, error, saved>>
  <2> DEFINE f == [top EXCEPT !.at = "rhs"]
  <2>1. /\ top.at = "start" /\ Execute(node.rhs, f)
        /\ load_references' = TRUE /\ UNCHANGED current_descriptor
        /\ UNCHANGED <<phase, program, store, registers, error, saved>>
    BY <1>1 DEF At, Load
  <2>2. node \in Node /\ top \in FrameType /\ node = top.node
    BY <2>1, ActiveFacts
  <2>3. f \in FrameType /\ f.at = "rhs" /\ f.node = node /\ f.scoped = top.scoped
    BY <2>2, FrameAt DEF Label
  <2> HIDE DEF f
  <2>4. ~IsTarget(f) /\ f.at \in OperandLabel /\ f.at \in Labels(node.type) /\ node.rhs \in Node
    BY <2>2, <2>3, ChildFacts DEF IsTarget, OperandLabel, Labels
  <2> QED
    BY <2>1, <2>2, <2>3, <2>4, OperandStep
<1>2. CASE /\ At({"assignment"}, "rhs")
           /\ Load(FALSE)
           /\ Execute(node.lhs, [top EXCEPT !.at = "lhs"])
           /\ UNCHANGED <<phase, program, store, registers, error, saved>>
  <2> DEFINE f == [top EXCEPT !.at = "lhs"]
  <2>1. /\ top.at = "rhs" /\ Execute(node.lhs, f)
        /\ load_references' = FALSE /\ UNCHANGED current_descriptor
        /\ UNCHANGED <<phase, program, store, registers, error, saved>>
    BY <1>2 DEF At, Load
  <2>2. node \in Node /\ top \in FrameType /\ node = top.node
    BY <2>1, ActiveFacts
  <2>3. f \in FrameType /\ f.at = "lhs" /\ f.node = node /\ f.scoped = top.scoped
    BY <2>2, FrameAt DEF Label
  <2> HIDE DEF f
  <2>4. IsTarget(f) /\ f.at \in OperandLabel /\ f.at \in Labels(node.type) /\ node.lhs \in Node
    BY <2>2, <2>3, ChildFacts DEF IsTarget, OperandLabel, Labels
  <2>5. top.at \in OperandLabel
    BY <2>1 DEF OperandLabel
  <2> QED
    BY <2>1, <2>2, <2>3, <2>4, <2>5, OperandStep
<1>3. CASE /\ At({"assignment"}, "lhs")
           /\ do_assign
           /\ UNCHANGED <<phase, program, reference, saved>>
  <2> DEFINE d == current_descriptor
  <2>1. top.at = "lhs" /\ IsTarget(top)
    BY <1>3 DEF At, IsTarget, node
  <2>2. ASSUME NEW code \in {"no_input", "constant_reassign"}, Fail(code), UNCHANGED <<store, registers>>
        PROVE  IInv'
    <3>1. /\ code \in ErrorCode \ {"ok"}
          /\ load_references' \in BOOLEAN /\ UNCHANGED current_descriptor
      BY <1>3 DEF ErrorCode, reference, IInv, TypesOK
    <3> QED
      BY <1>3, <2>1, <2>2, <3>1, FailStep
  <2>3. CASE /\ IF d.is_constant
                  THEN constants' = [constants EXCEPT ![d.index] = result] /\ UNCHANGED variables
                  ELSE variables' = [variables EXCEPT ![d.index] = result] /\ UNCHANGED constants
             /\ SetResult(result)
             /\ Return
             /\ UNCHANGED scopes
    <3>1. result \in Value
      BY DEF IInv, TypesOK
    <3> QED
      BY <1>3, <2>1, <2>3, <3>1, AssignedStep
  <2>4. \/ Fail("no_input") /\ UNCHANGED <<store, registers>>
        \/ Fail("constant_reassign") /\ UNCHANGED <<store, registers>>
        \/ /\ IF d.is_constant
                THEN constants' = [constants EXCEPT ![d.index] = result] /\ UNCHANGED variables
                ELSE variables' = [variables EXCEPT ![d.index] = result] /\ UNCHANGED constants
           /\ SetResult(result)
           /\ Return
           /\ UNCHANGED scopes
    BY <1>3, Zenon DEF do_assign
  <2> QED
    BY <2>2, <2>3, <2>4
<1> QED
  BY <1>1, <1>2, <1>3 DEF handle_assignment_node

\* Interpreter.cpp handle_update_expression keeps the invariant.
LEMMA UpdateStep ==
    ASSUME IInv, handle_update_expression PROVE IInv'
<1> SUFFICES ASSUME Active, node.type = "update_expression" PROVE IInv'
  BY DEF handle_update_expression, At, Active
<1>1. CASE /\ At({"update_expression"}, "start")
           /\ Load(TRUE)
           /\ Execute(node.rhs, [top EXCEPT !.at = "rhs"])
           /\ UNCHANGED <<phase, program, store, registers, error, saved>>
  <2> DEFINE f == [top EXCEPT !.at = "rhs"]
  <2>1. /\ top.at = "start" /\ Execute(node.rhs, f)
        /\ load_references' = TRUE /\ UNCHANGED current_descriptor
        /\ UNCHANGED <<phase, program, store, registers, error, saved>>
    BY <1>1 DEF At, Load
  <2>2. node \in Node /\ top \in FrameType /\ node = top.node
    BY <2>1, ActiveFacts
  <2>3. f \in FrameType /\ f.at = "rhs" /\ f.node = node /\ f.scoped = top.scoped
    BY <2>2, FrameAt DEF Label
  <2> HIDE DEF f
  <2>4. ~IsTarget(f) /\ f.at \in OperandLabel /\ f.at \in Labels(node.type) /\ node.rhs \in Node
    BY <2>2, <2>3, ChildFacts DEF IsTarget, OperandLabel, Labels
  <2> QED
    BY <2>1, <2>2, <2>3, <2>4, OperandStep
<1>2. CASE /\ At({"update_expression"}, "rhs")
           /\ Load(FALSE)
           /\ Execute(node.lhs, [top EXCEPT !.at = "lhs"])
           /\ UNCHANGED <<phase, program, store, registers, error, saved>>
  <2> DEFINE f == [top EXCEPT !.at = "lhs"]
  <2>1. /\ top.at = "rhs" /\ Execute(node.lhs, f)
        /\ load_references' = FALSE /\ UNCHANGED current_descriptor
        /\ UNCHANGED <<phase, program, store, registers, error, saved>>
    BY <1>2 DEF At, Load
  <2>2. node \in Node /\ top \in FrameType /\ node = top.node
    BY <2>1, ActiveFacts
  <2>3. f \in FrameType /\ f.at = "lhs" /\ f.node = node /\ f.scoped = top.scoped
    BY <2>2, FrameAt DEF Label
  <2> HIDE DEF f
  <2>4. IsTarget(f) /\ f.at \in OperandLabel /\ f.at \in Labels(node.type) /\ node.lhs \in Node
    BY <2>2, <2>3, ChildFacts DEF IsTarget, OperandLabel, Labels
  <2>5. top.at \in OperandLabel
    BY <2>1 DEF OperandLabel
  <2> QED
    BY <2>1, <2>2, <2>3, <2>4, <2>5, OperandStep
<1>3. CASE /\ At({"update_expression"}, "lhs")
           /\ IF current_descriptor.is_constant
                THEN Fail("constant_reassign") /\ UNCHANGED <<variables, registers>>
              ELSE IF node.op = "divide" /\ result = Zero
                THEN Fail("divide_by_zero") /\ UNCHANGED <<variables, registers>>
              ELSE LET d == current_descriptor
                       v == Compute(node.op, variables[d.index], result)
                   IN  variables' = [variables EXCEPT ![d.index] = v] /\ SetResult(v) /\ Return
           /\ UNCHANGED <<phase, program, constants, scopes, reference, saved>>
  <2> DEFINE d == current_descriptor
             v == Compute(node.op, variables[d.index], result)
  <2>1. top.at = "lhs" /\ IsTarget(top)
    BY <1>3 DEF At, IsTarget, node
  <2>2. ASSUME NEW code \in {"divide_by_zero", "constant_reassign"}, Fail(code), UNCHANGED <<variables, registers>>
        PROVE  IInv'
    <3>1. /\ code \in ErrorCode \ {"ok"}
          /\ load_references' \in BOOLEAN /\ UNCHANGED current_descriptor
          /\ UNCHANGED <<phase, program, store, registers, current_descriptor, saved>>
      BY <1>3, <2>2 DEF ErrorCode, reference, store, IInv, TypesOK
    <3> QED
      BY <2>1, <2>2, <3>1, FailStep
  <2>3. CASE ~d.is_constant /\ variables' = [variables EXCEPT ![d.index] = v] /\ SetResult(v) /\ Return
    <3>1. /\ StoreOK(scopes, constants, variables, Len(scopes)) /\ top = control[Len(control)]
          /\ SavedOK(scopes, constants, variables, saved) /\ node \in Node
          /\ CurrentOK(control, current_descriptor, scopes)
      BY <2>1, ActiveFacts
    <3>2. d.index \in 1 .. Len(variables)
      <4>1. IsCurrent(scopes, d)
        BY <2>1, <3>1 DEF CurrentOK
      <4> QED
        BY <2>3, <3>1, <4>1, CurrentFacts
    <3>3. variables[d.index] \in Value
      <4>1. variables \in Seq(Value)
        BY <3>1 DEF StoreOK
      <4> QED
        BY <3>2, <4>1
    <3>4. v \in Value
      <4>1. node.op \in ArithmeticOp
        BY <3>1, NodeAssumption DEF WellFormedNode
      <4>2. result \in Value
        BY DEF IInv, TypesOK
      <4> QED
        BY <3>3, <4>1, <4>2, ValueAssumption
    <3> HIDE DEF v
    <3>5. UNCHANGED <<phase, program, scopes, reference, saved>> /\ UNCHANGED constants
      BY <1>3
    <3> QED
      BY <2>1, <2>3, <3>4, <3>5, AssignedStep
  <2>4. \/ Fail("divide_by_zero") /\ UNCHANGED <<variables, registers>>
        \/ Fail("constant_reassign") /\ UNCHANGED <<variables, registers>>
        \/ ~d.is_constant /\ variables' = [variables EXCEPT ![d.index] = v] /\ SetResult(v) /\ Return
    BY <1>3, Zenon
  <2> QED
    BY <2>2, <2>3, <2>4
<1> QED
  BY <1>1, <1>2, <1>3 DEF handle_update_expression


\* A name that is not visible is bound to a new entry of the store.
LEMMA BindKeeps ==
    ASSUME IInv, Active, top.at # "leave",
           NEW name \in Name, ~has_identifier(name),
           NEW d \in Descriptor, Bind(name, d),
           d.index = Base(scopes, Len(scopes), KindOf(d)) + 1,
           Extended(constants, variables, KindOf(d), constants', variables')
    PROVE  /\ StoreOK(scopes', constants', variables', Len(scopes'))
           /\ SavedOK(scopes', constants', variables', saved)
           /\ HandlersOK(ast, control, scopes')
           /\ scopes' # << >>
           /\ scopes'[Len(scopes)].table[name] = d
           /\ IsCurrent(scopes', d)
<1> DEFINE L == Len(scopes)
           T == scopes[L].table
           U == [n \in DOMAIN T \cup {name} |-> IF n = name THEN d ELSE T[n]]
<1>1. /\ HandlersOK(ast, control, scopes)
      /\ StoreOK(scopes, constants, variables, L)
      /\ SavedOK(scopes, constants, variables, saved)
  BY ActiveFacts
<1>2. /\ scopes \in Seq(ScopeType) \ {<< >>} /\ L \in Nat \ {0} /\ L \in 1 .. L
      /\ Len(constants) = Base(scopes, L, "constant") /\ Len(variables) = Base(scopes, L, "variable")
  <2>1. scopes \in Seq(ScopeType) \ {<< >>}
    BY <1>1 DEF StoreOK, IInv, TypesOK
  <2> QED
    BY <1>1, <2>1 DEF StoreOK
<1>3. name \notin DOMAIN T
  BY <1>2 DEF has_identifier, Binds, Visible
<1>4. DOMAIN T \subseteq Name /\ T \in [DOMAIN T -> Descriptor]
  BY <1>2, ScopesTyped
<1>5. /\ U \in TableType /\ DOMAIN U = DOMAIN T \cup {name} /\ U[name] = d
      /\ \A n \in DOMAIN T : U[n] = T[n]
  <2>1. U \in [DOMAIN T \cup {name} -> Descriptor] /\ DOMAIN T \cup {name} \subseteq Name
    BY <1>4
  <2> QED
    BY <1>3, <2>1 DEF TableType
<1>6. scopes' = [scopes EXCEPT ![L].table = U]
  BY <1>3 DEF Bind, Innermost
<1> HIDE DEF U
<1>7. /\ scopes' \in Seq(ScopeType) \ {<< >>} /\ Len(scopes') = L
      /\ scopes'[L].table = U /\ scopes'[L].inherits = scopes[L].inherits
      /\ \A t \in 1 .. L - 1 : scopes'[t] = scopes[t]
  BY <1>2, <1>5, <1>6, TableReplaced
<1>8. StoreOK(scopes', constants', variables', L)
  <2>1. BindsNext(scopes, name, d, scopes')
    BY <1>3, <1>5, <1>7 DEF BindsNext
  <2> QED
    BY <1>1, <1>2, <2>1, BindKeepsStore
<1>9. SavedOK(scopes', constants', variables', saved)
  <2>1. SavedBelow(saved, L)
    <3>1. \A k \in 1 .. Len(saved) : Len(saved[k].scopes) \in 1 .. L - 1
      BY <1>1 DEF SavedOK, SavedAt
    <3> QED
      BY <1>2, <3>1 DEF SavedBelow
  <2>2. AgreeBelow(scopes, constants, variables, constants', variables', L)
    BY <1>2 DEF AgreeBelow, Extended
  <2>3. /\ L \in 0 .. L /\ L =< Len(scopes') /\ \A s \in L + 1 .. Len(scopes') : scopes'[s].inherits
        /\ \A t \in 1 .. L - 1 : scopes'[t] = scopes[t]
        /\ scopes'[L].inherits = scopes[L].inherits
        /\ scopes' \in Seq(ScopeType)
    BY <1>2, <1>7
  <2> QED
    BY <1>1, <1>2, <2>1, <2>2, <2>3, SavedKept
<1>10. HandlersOK(ast, control, scopes')
  <2>1. \A s \in 1 .. L : scopes'[s].inherits = scopes[s].inherits
    <3>1. \A s \in 1 .. L : s = L \/ s \in 1 .. L - 1
      BY <1>2
    <3> QED
      BY <1>7, <3>1
  <2>2. Len(control) \in Nat /\ DepthOK(control, scopes)
    BY <1>1 DEF HandlersOK, ControlOK
  <2>3. DepthOK(control, scopes')
    BY <1>7, <2>1, <2>2, SameKeepsDepth
  <2> QED
    BY <1>1, <2>3 DEF HandlersOK
<1>11. IsCurrent(scopes', d)
  <2>1. name \in DOMAIN scopes'[L].table /\ d = scopes'[L].table[name]
    BY <1>5, <1>7
  <2>2. L \in 1 .. Len(scopes') /\ L + 1 .. Len(scopes') = {}
    BY <1>2, <1>7
  <2> QED
    BY <2>1, <2>2 DEF IsCurrent, IsVisible
<1> QED
  BY <1>5, <1>7, <1>8, <1>9, <1>10, <1>11

\* Interpreter.cpp handle_variable_declaration keeps the invariant.
LEMMA DeclarationStep ==
    ASSUME IInv, handle_variable_declaration PROVE IInv'
<1>1. /\ Active /\ node.type = "variable_decl" /\ top.at = "start" /\ top.at # "leave"
      /\ UNCHANGED <<phase, program, registers, load_references, saved>>
  BY DEF handle_variable_declaration, At, Active
<1>2. /\ node \in Node /\ node = top.node /\ FrameOK(ast, top)
      /\ StoreOK(scopes, constants, variables, Len(scopes))
      /\ ReturnOK(control, load_references, flags) /\ top = control[Len(control)]
      /\ error = "ok"
  BY <1>1, ActiveFacts
<1>3. /\ node.name \in Name /\ node.is_const \in BOOLEAN
      /\ constants \in Seq(Value \cup {NoValue}) /\ variables \in Seq(Value)
      /\ Len(constants) = Base(scopes, Len(scopes), "constant")
      /\ Len(variables) = Base(scopes, Len(scopes), "variable")
      /\ ~top.scoped /\ ~IsReturning(flags)
  BY <1>1, <1>2, NodeAssumption DEF WellFormedNode, StoreOK, FrameOK, ReturnOK
<1>4. CASE has_identifier(node.name)
  <2>1. Fail("duplicate_name") /\ UNCHANGED <<store, current_descriptor>>
    BY <1>4 DEF handle_variable_declaration
  <2>2. "duplicate_name" \in ErrorCode \ {"ok"} /\ load_references' \in BOOLEAN
    BY <1>1 DEF ErrorCode, IInv, TypesOK
  <2> QED
    BY <1>1, <2>1, <2>2, FailStep
<1>5. CASE ~has_identifier(node.name)
  <2>1. /\ IF node.is_const THEN add_constant(node.name, NoValue) ELSE add_variable(node.name)
        /\ current_descriptor' = scopes'[Len(scopes)].table[node.name]
        /\ Return
    BY <1>5 DEF handle_variable_declaration
  <2>2. \E d \in Descriptor : /\ Bind(node.name, d)
                              /\ d.index = Base(scopes, Len(scopes), KindOf(d)) + 1
                              /\ Extended(constants, variables, KindOf(d), constants', variables')
    <3>1. Len(constants) \in Nat /\ Len(variables) \in Nat
      BY <1>3
    <3>2. CASE node.is_const
      <4> DEFINE d == [index |-> Len(constants) + 1, is_constant |-> TRUE]
      <4>1. Bind(node.name, d) /\ constants' = Append(constants, NoValue) /\ variables' = variables
        BY <2>1, <3>2 DEF add_constant
      <4>2. d \in Descriptor /\ KindOf(d) = "constant" /\ d.index = Len(constants) + 1
        BY <3>1 DEF Descriptor, KindOf
      <4> HIDE DEF d
      <4>3. Extended(constants, variables, "constant", constants', variables')
        BY <1>3, <4>1 DEF Extended
      <4> QED
        BY <1>3, <4>1, <4>2, <4>3
    <3>3. CASE ~node.is_const
      <4> DEFINE d == [index |-> Len(variables) + 1, is_constant |-> FALSE]
      <4>1. Bind(node.name, d) /\ variables' = Append(variables, Zero) /\ constants' = constants
        BY <2>1, <3>3 DEF add_variable
      <4>2. d \in Descriptor /\ KindOf(d) = "variable" /\ d.index = Len(variables) + 1
        BY <3>1 DEF Descriptor, KindOf
      <4> HIDE DEF d
      <4>3. Extended(constants, variables, "variable", constants', variables')
        BY <1>3, <4>1, ValueAssumption DEF Extended
      <4> QED
        BY <1>3, <4>1, <4>2, <4>3
    <3> QED
      BY <3>2, <3>3
  <2>3. PICK d \in Descriptor : /\ Bind(node.name, d)
                                /\ d.index = Base(scopes, Len(scopes), KindOf(d)) + 1
                                /\ Extended(constants, variables, KindOf(d), constants', variables')
    BY <2>2
  <2>4. /\ StoreOK(scopes', constants', variables', Len(scopes'))
        /\ SavedOK(scopes', constants', variables', saved)
        /\ HandlersOK(ast, control, scopes')
        /\ scopes' # << >>
        /\ current_descriptor' = d
        /\ IsCurrent(scopes', d)
    <3> HIDE DEF IInv
    <3> QED
      BY <1>1, <1>3, <1>5, <2>1, <2>3, BindKeeps
  <2>5. /\ phase' = phase /\ ast' = ast /\ parameters' = parameters /\ result' = result /\ flags' = flags
        /\ load_references' = load_references /\ error' = error /\ saved' = saved
    BY <1>1, <2>1 DEF program, registers, Return
  <2>6. TypesOK'
    BY <2>4, <2>5 DEF IInv, TypesOK
  <2>7. LET g == control[Len(control) - 1]
        IN  Len(control) > 1 => /\ g.at \in OperandLabel => (load_references <=> ~IsTarget(g))
                                /\ IsTarget(g) => IsCurrent(scopes', current_descriptor')
    <3>1. ~(top.at \in OperandLabel) /\ node.type # "relational_operator"
      BY <1>1 DEF OperandLabel
    <3> QED
      BY <1>1, <2>4, <3>1, CallerMode
  <2>8. node.type # "function_return" /\ ~IsReturning(flags')
    BY <1>1, <1>3, <2>5
  <2> QED
    BY <1>1, <1>3, <2>1, <2>4, <2>5, <2>6, <2>7, <2>8, ReturnStep
<1> QED
  BY <1>4, <1>5


\* A name that is found has a binding that is visible.
LEMMA FoundFacts ==
    ASSUME scopes \in Seq(ScopeType), NEW name, has_identifier(name)
    PROVE  IsCurrent(scopes, find_identifier(name))
<1> DEFINE L == Len(scopes)
           P(s) == Binds(s, name) /\ \A t \in s + 1 .. L : ~Binds(t, name)
           S == { s \in 1 .. L : Binds(s, name) }
<1>1. L \in Nat /\ S \subseteq 1 .. L /\ S # {}
  BY DEF has_identifier
<1>2. PICK m \in S : \A k \in S : k =< m
  <2> HIDE DEF S, L
  <2> QED
    BY <1>1, Greatest
<1>3. m \in 1 .. L /\ P(m)
  <2>1. \A t \in m + 1 .. L : t \in 1 .. L /\ ~(t =< m)
    BY <1>1, <1>2
  <2> QED
    BY <1>2, <2>1
<1> DEFINE s == CHOOSE s \in 1 .. L : P(s)
<1>4. s \in 1 .. L /\ P(s)
  <2> HIDE DEF P, L
  <2> QED
    BY <1>3
<1>5. find_identifier(name) = scopes[s].table[name]
  BY DEF find_identifier
<1> HIDE DEF s
<1>6. s \in 1 .. Len(scopes) /\ name \in DOMAIN scopes[s].table /\ IsVisible(scopes, s, name)
  BY <1>4 DEF Binds, Visible, IsVisible
<1> QED
  BY <1>5, <1>6 DEF IsCurrent

\* Interpreter.cpp handle_variable_reference keeps the invariant.
LEMMA ReferenceStep ==
    ASSUME IInv, handle_variable_reference PROVE IInv'
<1>1. /\ Active /\ node.type = "variable_ref" /\ top.at = "start" /\ top.at # "leave"
      /\ UNCHANGED <<phase, program, store, load_references, saved>>
  BY DEF handle_variable_reference, At, Active
<1>2. /\ node \in Node /\ node = top.node /\ FrameOK(ast, top)
      /\ HandlersOK(ast, control, scopes)
      /\ StoreOK(scopes, constants, variables, Len(scopes))
      /\ SavedOK(scopes, constants, variables, saved)
      /\ ReturnOK(control, load_references, flags) /\ top = control[Len(control)]
      /\ error = "ok"
  BY <1>1, ActiveFacts
<1>3. /\ scopes \in Seq(ScopeType) /\ constants \in Seq(Value \cup {NoValue}) /\ variables \in Seq(Value)
      /\ ~top.scoped /\ ~IsReturning(flags) /\ load_references \in BOOLEAN
  BY <1>1, <1>2 DEF StoreOK, FrameOK, ReturnOK, IInv, TypesOK
<1>4. /\ phase' = phase /\ ast' = ast /\ parameters' = parameters /\ scopes' = scopes
      /\ constants' = constants /\ variables' = variables
      /\ load_references' = load_references /\ saved' = saved
  BY <1>1 DEF program, store
<1>5. LET g == control[Len(control) - 1]
      IN  Len(control) > 1 => (g.at \in OperandLabel => (load_references <=> ~IsTarget(g)))
  <2>1. ~(top.at \in OperandLabel) /\ node.type # "relational_operator"
    BY <1>1 DEF OperandLabel
  <2> QED
    BY <1>1, <2>1, CallerMode
<1>6. node.type # "function_return"
  BY <1>1
<1>7. CASE ~has_identifier(node.name)
  <2>1. Fail("unresolved_identifier") /\ UNCHANGED <<registers, current_descriptor>>
    BY <1>7 DEF handle_variable_reference
  <2>2. "unresolved_identifier" \in ErrorCode \ {"ok"} /\ load_references' \in BOOLEAN
    BY <1>3, <1>4 DEF ErrorCode
  <2> QED
    BY <1>1, <2>1, <2>2, FailStep
<1>8. CASE has_identifier(node.name)
  <2> DEFINE d == find_identifier(node.name)
  <2>1. /\ IF load_references
             THEN SetResult(get_descriptor_value(d)) /\ UNCHANGED current_descriptor
             ELSE current_descriptor' = d /\ UNCHANGED registers
        /\ Return
    BY <1>8 DEF handle_variable_reference
  <2>2. IsCurrent(scopes, d)
    BY <1>3, <1>8, FoundFacts
  <2> HIDE DEF d
  <2>3. d \in Descriptor /\ d.index \in IF d.is_constant THEN 1 .. Len(constants) ELSE 1 .. Len(variables)
    BY <1>2, <2>2, CurrentFacts
  <2>4. error' = error
    BY <2>1 DEF Return
  <2>5. CASE load_references
    <3>1. get_descriptor_value(d) \in Value
      BY <1>3, <2>3, ValueAssumption DEF get_descriptor_value, Descriptor
    <3>2. /\ result' = get_descriptor_value(d) /\ flags' = Status(get_descriptor_value(d))
          /\ current_descriptor' = current_descriptor
      BY <2>1, <2>5 DEF SetResult
    <3>3. TypesOK'
      BY <1>4, <2>4, <3>1, <3>2, StatusFacts DEF IInv, TypesOK
    <3>4. ~IsReturning(flags')
      BY <3>2, StatusFacts
    <3>5. LET g == control[Len(control) - 1]
          IN  Len(control) > 1 =>
                /\ g.at \in OperandLabel => (load_references' <=> ~IsTarget(g))
                /\ IsTarget(g) => IsCurrent(scopes', current_descriptor')
      BY <1>4, <1>5, <2>5 DEF IsTarget, OperandLabel
    <3> QED
      BY <1>1, <1>2, <1>3, <1>4, <1>6, <2>1, <3>3, <3>4, <3>5, ReturnStep
  <2>6. CASE ~load_references
    <3>1. /\ result' = result /\ flags' = flags /\ current_descriptor' = d
      BY <2>1, <2>6 DEF registers
    <3>2. TypesOK'
      BY <1>4, <2>3, <2>4, <3>1 DEF IInv, TypesOK
    <3>3. ~IsReturning(flags')
      BY <1>3, <3>1
    <3>4. LET g == control[Len(control) - 1]
          IN  Len(control) > 1 =>
                /\ g.at \in OperandLabel => (load_references' <=> ~IsTarget(g))
                /\ IsTarget(g) => IsCurrent(scopes', current_descriptor')
      BY <1>4, <1>5, <2>2, <3>1
    <3> QED
      BY <1>1, <1>2, <1>3, <1>4, <1>6, <2>1, <3>2, <3>3, <3>4, ReturnStep
  <2> QED
    BY <2>5, <2>6
<1> QED
  BY <1>7, <1>8


\* The handler goes on at another place, and evaluates nothing.
LEMMA BecomeStep ==
    ASSUME IInv, Active, top.at # "leave",
           NEW f \in FrameType, FrameOK(ast, f), f.node = node, f.scoped = top.scoped, Become(f),
           f.at # "start" /\ f.at # "lhs",
           f.at \in OperandLabel => load_references',
           node.type = "function_call" /\ f.at = "leave" => load_references' /\ ~IsReturning(flags'),
           IsReturning(flags') => load_references' /\ (f.at \in {"body", "leave"} \/ node.type = "loop"),
           node.type = "function_call" /\ f.at = "body" /\ f.rest = << >> => IsReturning(flags'),
           flags' \subseteq StateFlags, load_references' \in BOOLEAN,
           UNCHANGED <<phase, program, store, result, current_descriptor, error, saved>>
    PROVE  IInv'
<1>1. /\ HandlersOK(ast, control, scopes) /\ control # << >> /\ top = control[Len(control)]
      /\ phase = "running" /\ node = top.node
      /\ StoreOK(scopes, constants, variables, Len(scopes))
      /\ SavedOK(scopes, constants, variables, saved)
  BY ActiveFacts
<1>2. control' = Append(SubSeq(control, 1, Len(control) - 1), f)
  BY DEF Become, Callers
<1>3. /\ HandlersOK(ast, control', scopes)
      /\ ModesOK(control', scopes, load_references', flags', current_descriptor)
  <2>1. f.node = control[Len(control)].node /\ f.scoped = control[Len(control)].scoped
    BY <1>1
  <2> QED
    BY <1>1, <1>2, <2>1, BecomeKeeps
<1>4. /\ phase' = phase /\ ast' = ast /\ parameters' = parameters /\ scopes' = scopes
      /\ constants' = constants /\ variables' = variables /\ result' = result
      /\ current_descriptor' = current_descriptor /\ error' = error /\ saved' = saved
  BY DEF program, store
<1>5. TypesOK'
  BY <1>4 DEF IInv, TypesOK
<1> QED
  BY <1>1, <1>3, <1>4, <1>5, Conclude

\* Nothing that is saved is above the innermost scope.
LEMMA AllSavedBelow ==
    ASSUME NEW sc, NEW cs, NEW vs, NEW sv, SavedOK(sc, cs, vs, sv), Len(sc) \in Nat
    PROVE  SavedBelow(sv, Len(sc))
<1>1. \A k \in 1 .. Len(sv) : Len(sv[k].scopes) \in 1 .. Len(sc) - 1
  BY DEF SavedOK, SavedAt
<1> QED
  BY <1>1 DEF SavedBelow

\* An empty scope is pushed.
LEMMA PushKeeps ==
    ASSUME NEW sc \in Seq(ScopeType) \ {<< >>}, NEW cs, NEW vs, StoreOK(sc, cs, vs, Len(sc)),
           NEW sv, SavedOK(sc, cs, vs, sv)
    PROVE  LET sd == Append(sc, Scope(TRUE, NoNames))
           IN  /\ StoreOK(sd, cs, vs, Len(sd)) /\ SavedOK(sd, cs, vs, sv) /\ sd # << >>
               /\ Len(sd) = Len(sc) + 1 /\ \A s \in 1 .. Len(sc) : sd[s] = sc[s]
               /\ sd[Len(sd)].inherits
<1> DEFINE new == Scope(TRUE, NoNames)
           sd  == Append(sc, new)
<1>1. new \in ScopeType /\ new.inherits = TRUE /\ new.table = NoNames /\ DOMAIN NoNames = {}
  <2>1. NoNames \in TableType
    <3>1. NoNames \in [{} -> Descriptor] /\ {} \in SUBSET Name
      BY DEF NoNames
    <3> QED
      BY <3>1 DEF TableType
  <2> QED
    BY <2>1 DEF Scope, ScopeType, NoNames
<1> HIDE DEF new
<1>2. /\ sd \in Seq(ScopeType) /\ Len(sd) = Len(sc) + 1 /\ Len(sc) \in Nat \ {0}
      /\ \A s \in 1 .. Len(sc) : sd[s] = sc[s]
      /\ sd[Len(sc) + 1] = new
  BY <1>1
<1> HIDE DEF sd
<1>3. StoreOK(sd, cs, vs, Len(sd))
  <2>1. cs \in Seq(Value \cup {NoValue}) /\ vs \in Seq(Value) /\ Len(cs) \in Nat /\ Len(vs) \in Nat
    BY DEF StoreOK
  <2>2. << >> \in Seq(Name) /\ Distinct(<< >>) /\ Elements(<< >>) = {} /\ Len(<< >>) = 0
    BY DEF Distinct, Elements
  <2>3. Pushed(sc, cs, vs, << >>, << >>, sd)
    <3>1. Numbered(sd[Len(sc) + 1].table, << >>, Len(cs), "constant")
      BY DEF Numbered
    <3>2. Numbered(sd[Len(sc) + 1].table, << >>, Len(vs), "variable")
      BY DEF Numbered
    <3>3. DOMAIN sd[Len(sc) + 1].table = {}
      BY <1>1, <1>2
    <3> QED
      BY <1>2, <2>2, <3>1, <3>2, <3>3 DEF Pushed
  <2>4. /\ Elements(<< >>) \cap Elements(<< >>) = {}
        /\ Len(cs) = Len(cs) + Len(<< >>) /\ Len(vs) = Len(vs) + Len(<< >>)
    BY <2>1, <2>2
  <2> QED
    BY <2>1, <2>2, <2>3, <2>4, NewScopeKeepsStore
<1>4. SavedOK(sd, cs, vs, sv)
  <2>1. SavedBelow(sv, Len(sc))
    BY <1>2, AllSavedBelow
  <2>2. AgreeBelow(sc, cs, vs, cs, vs, Len(sc))
    BY DEF AgreeBelow
  <2>3. /\ Len(sc) \in 0 .. Len(sc) /\ Len(sc) =< Len(sd)
        /\ \A s \in Len(sc) + 1 .. Len(sd) : sd[s].inherits
        /\ \A s \in 1 .. Len(sc) - 1 : sd[s] = sc[s]
        /\ sd[Len(sc)].inherits = sc[Len(sc)].inherits
    BY <1>1, <1>2
  <2> QED
    BY <1>2, <2>1, <2>2, <2>3, SavedKept
<1>5. sd # << >> /\ sd[Len(sd)].inherits
  BY <1>1, <1>2
<1> QED
  BY <1>2, <1>3, <1>4, <1>5 DEF sd, new

\* The handler of a conditional or a loop pushes a scope and enters a body.
LEMMA EnterStep ==
    ASSUME IInv, Active, top.at = "condition", ConditionHolds \/ node.type = "conditional_construct",
           node.type \in {"conditional_construct", "loop"},
           NEW body \in Seq(Node), push_scope(TRUE), EnterBody(body),
           UNCHANGED <<phase, program, constants, variables, registers, reference, error, saved>>
    PROVE  IInv'
<1>1. top.at # "leave"
  OBVIOUS
<1>2. /\ HandlersOK(ast, control, scopes) /\ control # << >> /\ top = control[Len(control)]
      /\ phase = "running" /\ node = top.node /\ top \in FrameType /\ FrameOK(ast, top)
      /\ StoreOK(scopes, constants, variables, Len(scopes))
      /\ SavedOK(scopes, constants, variables, saved)
      /\ ReturnOK(control, load_references, flags)
  BY <1>1, ActiveFacts
<1>3. ~top.scoped
  BY <1>2 DEF FrameOK
<1>4. ~IsReturning(flags)
  <2>1. CASE ConditionHolds
    BY <2>1 DEF ConditionHolds, IsReturning
  <2>2. CASE node.type = "conditional_construct"
    BY <1>2, <2>2 DEF ReturnOK
  <2> QED
    BY <2>1, <2>2
<1> DEFINE f == [top EXCEPT !.at = "body", !.rest = body, !.scoped = TRUE]
<1>5. f \in FrameType /\ f.at = "body" /\ f.node = top.node /\ f.scoped = TRUE
  BY <1>2 DEF FrameType, Label
<1>6. control' = Append(SubSeq(control, 1, Len(control) - 1), f)
  BY DEF EnterBody, Become, Callers
<1> HIDE DEF f
<1>7. FrameOK(ast, f)
  BY <1>2, <1>5 DEF FrameOK, Labels
<1>8. /\ StoreOK(scopes', constants, variables, Len(scopes')) /\ SavedOK(scopes', constants, variables, saved)
      /\ scopes' # << >> /\ Len(scopes') = Len(scopes) + 1
      /\ \A s \in 1 .. Len(scopes) : scopes'[s] = scopes[s]
      /\ scopes'[Len(scopes')].inherits
  <2>1. scopes \in Seq(ScopeType) \ {<< >>} /\ scopes' = Append(scopes, Scope(TRUE, NoNames))
    BY <1>2 DEF StoreOK, IInv, TypesOK, push_scope
  <2> QED
    BY <1>2, <2>1, PushKeeps
<1>9. /\ HandlersOK(ast, control', scopes')
      /\ ModesOK(control', scopes', load_references, flags, current_descriptor)
  <2>1. /\ f.node = control[Len(control)].node /\ ~control[Len(control)].scoped /\ f.scoped
        /\ (scopes'[Len(scopes')].inherits <=> f.node.type # "function_call")
        /\ ~(f.node.type = "function_call" /\ f.rest = << >>)
    BY <1>2, <1>3, <1>5, <1>8
  <2> QED
    BY <1>2, <1>4, <1>5, <1>6, <1>7, <1>8, <2>1, EnterKeeps
<1>10. /\ phase' = phase /\ ast' = ast /\ parameters' = parameters /\ result' = result /\ flags' = flags
       /\ constants' = constants /\ variables' = variables /\ load_references' = load_references
       /\ current_descriptor' = current_descriptor /\ error' = error /\ saved' = saved
  BY DEF program, registers, reference
<1>11. TypesOK'
  BY <1>8, <1>10 DEF IInv, TypesOK
<1> QED
  BY <1>2, <1>8, <1>9, <1>10, <1>11, Conclude

\* A conditional or a loop whose body is not entered returns.
LEMMA SkipStep ==
    ASSUME IInv, Active, top.at = "condition", node.type \in {"conditional_construct", "loop"},
           Return, UNCHANGED <<phase, program, store, registers, reference, error, saved>>
    PROVE  IInv'
<1>1. top.at # "leave"
  OBVIOUS
<1>2. /\ HandlersOK(ast, control, scopes) /\ control # << >> /\ top = control[Len(control)]
      /\ phase = "running" /\ node = top.node /\ FrameOK(ast, top)
      /\ StoreOK(scopes, constants, variables, Len(scopes))
      /\ SavedOK(scopes, constants, variables, saved)
      /\ ReturnOK(control, load_references, flags)
  BY <1>1, ActiveFacts
<1>3. ~top.scoped
  BY <1>2 DEF FrameOK
<1>4. value_type(node) = "none" /\ node.type # "function_return"
  BY DEF value_type, NumberType
<1>5. Len(control) > 1 => LET g == control[Len(control) - 1] IN ~IsTarget(g) /\ g.at \notin OperandLabel
  BY <1>1, <1>4, StatementCaller
<1>6. /\ phase' = phase /\ ast' = ast /\ parameters' = parameters /\ result' = result /\ flags' = flags
      /\ constants' = constants /\ variables' = variables /\ scopes' = scopes
      /\ load_references' = load_references
      /\ current_descriptor' = current_descriptor /\ error' = error /\ saved' = saved
  BY DEF program, store, registers, reference
<1>7. TypesOK'
  BY <1>6 DEF IInv, TypesOK
<1>8. IsReturning(flags') => load_references'
  BY <1>2, <1>6 DEF ReturnOK
<1> QED
  BY <1>1, <1>2, <1>3, <1>4, <1>5, <1>6, <1>7, <1>8, ReturnStep

\* Interpreter.cpp handle_conditional_construct keeps the invariant.
LEMMA ConditionalStep ==
    ASSUME IInv, handle_conditional_construct PROVE IInv'
<1> SUFFICES ASSUME Active, node.type = "conditional_construct" PROVE IInv'
  BY DEF handle_conditional_construct, At, Active
<1>1. CASE /\ At({"conditional_construct"}, "start")
           /\ Load(TRUE)
           /\ Execute(node.condition, [top EXCEPT !.at = "condition"])
           /\ UNCHANGED <<phase, program, store, registers, error, saved>>
  <2> DEFINE f == [top EXCEPT !.at = "condition"]
  <2>1. /\ top.at = "start" /\ Execute(node.condition, f)
        /\ load_references' = TRUE /\ UNCHANGED current_descriptor
        /\ UNCHANGED <<phase, program, store, registers, error, saved>>
    BY <1>1 DEF At, Load
  <2>2. node \in Node /\ top \in FrameType /\ node = top.node
    BY <2>1, ActiveFacts
  <2>3. f \in FrameType /\ f.at = "condition" /\ f.node = node /\ f.scoped = top.scoped
    BY <2>2, FrameAt DEF Label
  <2> HIDE DEF f
  <2>4. ~IsTarget(f) /\ f.at \in OperandLabel /\ f.at \in Labels(node.type) /\ node.condition \in Node
    BY <2>2, <2>3, ChildFacts DEF IsTarget, OperandLabel, Labels
  <2> QED
    BY <2>1, <2>2, <2>3, <2>4, OperandStep
<1>2. CASE /\ At({"conditional_construct"}, "condition")
           /\ LET body == IF ConditionHolds THEN node.body ELSE node.else_body
              IN  IF body = << >>
                    THEN Return /\ UNCHANGED scopes
                    ELSE push_scope(TRUE) /\ EnterBody(body) /\ UNCHANGED error
           /\ UNCHANGED <<phase, program, constants, variables, registers, reference, saved>>
  <2> DEFINE body == IF ConditionHolds THEN node.body ELSE node.else_body
  <2>1. top.at = "condition" /\ UNCHANGED <<phase, program, constants, variables, registers, reference, saved>>
    BY <1>2 DEF At
  <2>2. \/ Return /\ UNCHANGED scopes
        \/ push_scope(TRUE) /\ EnterBody(body) /\ UNCHANGED error
    BY <1>2
  <2>3. node \in Node
    BY <2>1, ActiveFacts
  <2>4. body \in Seq(Node)
    BY <2>3, ChildFacts
  <2> HIDE DEF body
  <2>5. CASE Return /\ UNCHANGED scopes
    <3>1. UNCHANGED <<phase, program, store, registers, reference, error, saved>>
      BY <2>1, <2>5 DEF store, Return
    <3> QED
      BY <2>1, <2>5, <3>1, SkipStep
  <2>6. CASE push_scope(TRUE) /\ EnterBody(body) /\ UNCHANGED error
    BY <2>1, <2>4, <2>6, EnterStep
  <2> QED
    BY <2>2, <2>5, <2>6
<1> QED
  BY <1>1, <1>2 DEF handle_conditional_construct

\* Interpreter.cpp handle_loop keeps the invariant.
LEMMA LoopStep ==
    ASSUME IInv, handle_loop PROVE IInv'
<1> SUFFICES ASSUME Active, node.type = "loop" PROVE IInv'
  BY DEF handle_loop, At, Active
<1>1. CASE /\ At({"loop"}, "start")
           /\ Execute(node.condition, [top EXCEPT !.at = "condition"])
           /\ UNCHANGED <<phase, program, store, registers, reference, error, saved>>
  <2> DEFINE f == [top EXCEPT !.at = "condition"]
  <2>1. /\ top.at = "start" /\ top.at # "leave" /\ Execute(node.condition, f)
        /\ UNCHANGED <<phase, program, store, registers, error, saved>>
        /\ load_references' = load_references /\ current_descriptor' = current_descriptor
        /\ result' = result /\ flags' = flags
    BY <1>1 DEF At, reference, registers
  <2>2. /\ node \in Node /\ top \in FrameType /\ node = top.node /\ FrameOK(ast, top)
        /\ ReturnOK(control, load_references, flags) /\ top = control[Len(control)]
        /\ flags \subseteq StateFlags /\ load_references \in BOOLEAN
    BY <2>1, ActiveFacts DEF IInv, TypesOK
  <2>3. f \in FrameType /\ f.at = "condition" /\ f.node = node /\ f.scoped = top.scoped
    BY <2>2, FrameAt DEF Label
  <2>4. IsReturning(flags) => Become(f)
    BY <2>1 DEF Execute, IsReturning, Become
  <2> HIDE DEF f
  <2>5. f.at \in OperandLabel /\ node.condition \in Node /\ node.condition.type = "relational_operator"
    BY <2>2, <2>3, ChildFacts DEF OperandLabel, IsCondition, value_type
  <2>6. FrameOK(ast, f)
    BY <2>1, <2>2, <2>3 DEF FrameOK, Labels
  <2>7. CASE ~IsReturning(flags)
    <3>1. Called(f, Frame(node.condition))
      BY <2>3, <2>5, NewFrame DEF Called
    <3> QED
      BY <2>1, <2>2, <2>3, <2>5, <2>6, <2>7, <3>1, ExecuteStep
  <2>8. CASE IsReturning(flags)
    <3>1. load_references
      BY <2>2, <2>8 DEF ReturnOK
    <3>2. UNCHANGED <<phase, program, store, result, current_descriptor, error, saved>>
      BY <2>1
    <3> QED
      BY <2>1, <2>2, <2>3, <2>4, <2>5, <2>6, <2>8, <3>1, <3>2, BecomeStep
  <2> QED
    BY <2>7, <2>8
<1>2. CASE /\ At({"loop"}, "condition")
           /\ IF ConditionHolds
                THEN push_scope(TRUE) /\ EnterBody(node.body) /\ UNCHANGED error
                ELSE Return /\ UNCHANGED scopes
           /\ UNCHANGED <<phase, program, constants, variables, registers, reference, saved>>
  <2>1. top.at = "condition" /\ UNCHANGED <<phase, program, constants, variables, registers, reference, saved>>
    BY <1>2 DEF At
  <2>2. node \in Node
    BY <2>1, ActiveFacts
  <2>3. node.body \in Seq(Node)
    BY <2>2, ChildFacts
  <2>4. CASE ConditionHolds
    <3>1. push_scope(TRUE) /\ EnterBody(node.body) /\ UNCHANGED error
      BY <1>2, <2>4
    <3> QED
      BY <2>1, <2>3, <2>4, <3>1, EnterStep
  <2>5. CASE ~ConditionHolds
    <3>1. Return /\ UNCHANGED <<phase, program, store, registers, reference, error, saved>>
      BY <1>2, <2>1, <2>5 DEF store, Return
    <3> QED
      BY <2>1, <3>1, SkipStep
  <2> QED
    BY <2>4, <2>5
<1> QED
  BY <1>1, <1>2 DEF handle_loop


\* A handler goes on with the nodes that are left.
LEMMA FrameNext ==
    ASSUME NEW g \in FrameType, g.rest # << >>, NEW label \in Label
    PROVE  LET f == [g EXCEPT !.at = label, !.rest = Tail(@)]
           IN  /\ f \in FrameType /\ f.at = label /\ f.rest = Tail(g.rest)
               /\ f.node = g.node /\ f.values = g.values /\ f.scoped = g.scoped
               /\ Head(g.rest) \in Node
<1>1. g.rest \in Seq(Node) /\ Tail(g.rest) \in Seq(Node) /\ Head(g.rest) \in Node
  BY DEF FrameType
<1> DEFINE q == Tail(g.rest)
           f == [g EXCEPT !.at = label, !.rest = q]
<1>2. q \in Seq(Node)
  BY <1>1
<1> HIDE DEF q
<1>3. /\ f \in FrameType /\ f.at = label /\ f.rest = q
      /\ f.node = g.node /\ f.values = g.values /\ f.scoped = g.scoped
  BY <1>2 DEF FrameType
<1> QED
  BY <1>1, <1>3 DEF q

\* A handler goes on to the rest of its nodes.
LEMMA FrameTail ==
    ASSUME NEW g \in FrameType, g.rest # << >>
    PROVE  LET f == [g EXCEPT !.rest = Tail(@)]
           IN  /\ f \in FrameType /\ f.at = g.at /\ f.rest = Tail(g.rest)
               /\ f.node = g.node /\ f.values = g.values /\ f.scoped = g.scoped
               /\ Head(g.rest) \in Node
BY DEF FrameType

\* One node of a body is executed, or the body is left.
LEMMA BodyStep ==
    ASSUME IInv, execute_body PROVE IInv'
<1>1. /\ Active /\ node.type \in {"conditional_construct", "loop"} /\ top.at = "body" /\ top.at # "leave"
      /\ UNCHANGED <<phase, program, store, registers, current_descriptor, error, saved>>
      /\ UNCHANGED <<phase, program, store, result, current_descriptor, error, saved>>
      /\ flags' = flags
  BY DEF execute_body, At, Active, registers
<1>2. /\ node \in Node /\ top \in FrameType /\ node = top.node /\ FrameOK(ast, top)
      /\ ReturnOK(control, load_references, flags) /\ top = control[Len(control)]
      /\ flags \subseteq StateFlags /\ load_references \in BOOLEAN
  BY <1>1, ActiveFacts DEF IInv, TypesOK
<1>3. IsReturning(flags) => load_references
  BY <1>2 DEF ReturnOK
<1>4. CASE top.rest = << >>
  <2> DEFINE f == [top EXCEPT !.at = "leave"]
  <2>1. Become(f) /\ load_references' = load_references
    BY <1>4 DEF execute_body
  <2>2. f \in FrameType /\ f.at = "leave" /\ f.node = node /\ f.scoped = top.scoped
    BY <1>2, FrameAt DEF Label
  <2> HIDE DEF f
  <2>3. FrameOK(ast, f) /\ ~(f.at \in OperandLabel)
    BY <1>1, <1>2, <2>2 DEF FrameOK, Labels, OperandLabel
  <2> QED
    BY <1>1, <1>2, <1>3, <2>1, <2>2, <2>3, BecomeStep
<1>5. CASE top.rest # << >>
  <2> DEFINE f == [top EXCEPT !.rest = Tail(@)]
             n == Head(top.rest)
  <2>1. Execute(n, f) /\ load_references' = TRUE
    BY <1>5 DEF execute_body
  <2>2. f \in FrameType /\ f.at = "body" /\ f.node = node /\ f.scoped = top.scoped /\ n \in Node
    BY <1>1, <1>2, <1>5, FrameTail
  <2>3. IsReturning(flags) => Become(f)
    BY <2>1 DEF Execute, IsReturning, Become
  <2> HIDE DEF f, n
  <2>4. FrameOK(ast, f) /\ ~(f.at \in OperandLabel)
    BY <1>1, <1>2, <2>2 DEF FrameOK, Labels, OperandLabel
  <2>5. CASE ~IsReturning(flags)
    <3>1. Called(f, Frame(n)) /\ load_references' \in BOOLEAN
      BY <1>1, <2>1, <2>2 DEF Called
    <3> QED
      BY <1>1, <1>2, <2>1, <2>2, <2>4, <2>5, <3>1, ExecuteStep
  <2>6. CASE IsReturning(flags)
    BY <1>1, <1>2, <2>1, <2>2, <2>3, <2>4, <2>6, BecomeStep
  <2> QED
    BY <2>5, <2>6
<1> QED
  BY <1>4, <1>5

\* A function is found, or not, before anything else is done.
LEMMA CallStart ==
    ASSUME IInv, Active, node.type = "function_call", top.at = "start",
           IF node.callee \notin DOMAIN ast.functions
             THEN Fail("unresolved_identifier")
           ELSE IF Len(node.arguments) # Len(Callee.arguments)
             THEN Fail("invalid_argument")
             ELSE Become([top EXCEPT !.at = "arguments", !.rest = node.arguments]) /\ UNCHANGED error,
           UNCHANGED <<phase, program, store, registers, reference, saved>>
    PROVE  IInv'
<1>1. /\ top.at # "leave" /\ load_references' = load_references /\ current_descriptor' = current_descriptor
      /\ result' = result /\ flags' = flags
  BY DEF reference, registers
<1>2. /\ node \in Node /\ top \in FrameType /\ node = top.node /\ FrameOK(ast, top)
      /\ ReturnOK(control, load_references, flags) /\ top = control[Len(control)]
      /\ flags \subseteq StateFlags /\ load_references \in BOOLEAN
  BY <1>1, ActiveFacts DEF IInv, TypesOK
<1>3. UNCHANGED <<phase, program, store, registers, current_descriptor, saved>>
  BY <1>1
<1>4. CASE Fail("unresolved_identifier")
  <2>1. "unresolved_identifier" \in ErrorCode \ {"ok"} /\ load_references' \in BOOLEAN
    BY <1>1, <1>2 DEF ErrorCode
  <2> QED
    BY <1>1, <1>3, <1>4, <2>1, FailStep
<1>5. CASE Fail("invalid_argument")
  <2>1. "invalid_argument" \in ErrorCode \ {"ok"} /\ load_references' \in BOOLEAN
    BY <1>1, <1>2 DEF ErrorCode
  <2> QED
    BY <1>1, <1>3, <1>5, <2>1, FailStep
<1>6. CASE /\ node.callee \in DOMAIN ast.functions /\ Len(node.arguments) = Len(Callee.arguments)
           /\ Become([top EXCEPT !.at = "arguments", !.rest = node.arguments]) /\ UNCHANGED error
  <2> DEFINE f == [top EXCEPT !.at = "arguments", !.rest = node.arguments]
  <2>1. Become(f) /\ UNCHANGED <<phase, program, store, result, current_descriptor, error, saved>>
    BY <1>1, <1>6
  <2>2. /\ node.arguments \in Seq(Node) /\ AllNumbers(node.arguments)
        /\ Len(node.arguments) = Len(ast.functions[node.callee].arguments)
    BY <1>2, <1>6, NodeAssumption DEF WellFormedNode, AllNumbers, Callee
  <2>3. top.values = << >>
    BY <1>2 DEF FrameOK
  <2>4. /\ f \in FrameType /\ f.at = "arguments" /\ f.node = node /\ f.scoped = top.scoped
        /\ f.rest = node.arguments /\ f.values = << >>
    BY <1>2, <2>2, <2>3 DEF FrameType, Label
  <2> HIDE DEF f
  <2>5. CallOK(ast, f)
    <3>1. Len(f.values) + Len(f.rest) = Len(f.node.arguments)
      BY <2>2, <2>4
    <3> QED
      BY <1>6, <2>2, <2>4, <3>1 DEF CallOK
  <2>6. FrameOK(ast, f) /\ ~(f.at \in OperandLabel)
    BY <1>2, <2>4, <2>5 DEF FrameOK, Labels, OperandLabel
  <2>7. ~IsReturning(flags)
    BY <1>2 DEF ReturnOK
  <2> QED
    BY <1>1, <1>2, <2>1, <2>4, <2>6, <2>7, BecomeStep
<1> QED
  BY <1>4, <1>5, <1>6

\* The next argument is evaluated.
LEMMA CallArgument ==
    ASSUME IInv, Active, node.type = "function_call", top.at = "arguments", top.rest # << >>, Load(TRUE),
           Execute(Head(top.rest), [top EXCEPT !.at = "argument", !.rest = Tail(@)]),
           UNCHANGED <<phase, program, store, registers, error, saved>>
    PROVE  IInv'
<1>1. /\ top.at # "leave" /\ load_references' = TRUE /\ current_descriptor' = current_descriptor
  BY DEF Load
<1>2. /\ node \in Node /\ top \in FrameType /\ node = top.node /\ FrameOK(ast, top)
      /\ ReturnOK(control, load_references, flags) /\ top = control[Len(control)]
      /\ top.rest \in Seq(Node) /\ top.values \in Seq(Value)
  BY <1>1, ActiveFacts
<1> DEFINE f == [top EXCEPT !.at = "argument", !.rest = Tail(@)]
           n == Head(top.rest)
<1>3. /\ f \in FrameType /\ f.at = "argument" /\ f.node = node /\ f.scoped = top.scoped
      /\ f.rest = Tail(top.rest) /\ f.values = top.values /\ n \in Node
  BY <1>2, FrameNext DEF Label
<1>4. Execute(n, f)
  OBVIOUS
<1> HIDE DEF f
<1>5. CallOK(ast, top)
  BY <1>2 DEF FrameOK
<1>6. /\ Len(top.rest) \in Nat \ {0} /\ Len(f.rest) = Len(top.rest) - 1 /\ Len(top.values) \in Nat
      /\ n = top.rest[1] /\ \A k \in 1 .. Len(f.rest) : f.rest[k] = top.rest[k + 1] /\ k + 1 \in 1 .. Len(top.rest)
  BY <1>2, <1>3
<1>7. IsNumber(n) /\ AllNumbers(f.rest)
  BY <1>5, <1>6 DEF CallOK, AllNumbers
<1> HIDE DEF n
<1>8. CallOK(ast, f)
  <2>1. Len(f.values) + Len(f.rest) + 1 = Len(f.node.arguments)
    <3>1. Len(top.values) + Len(top.rest) = Len(top.node.arguments)
      BY <1>5 DEF CallOK
    <3>2. Len(f.node.arguments) = Len(top.node.arguments) /\ Len(f.values) = Len(top.values)
      BY <1>2, <1>3
    <3>3. Len(top.rest) \in Nat /\ Len(f.rest) = Len(top.rest) - 1 /\ Len(top.values) \in Nat
      BY <1>6
    <3> DEFINE v == Len(f.values)
               r == Len(f.rest)
               a == Len(f.node.arguments)
               w == Len(top.rest)
    <3>4. v + w = a /\ w \in Nat /\ r = w - 1 /\ v \in Nat
      BY <3>1, <3>2, <3>3
    <3> HIDE DEF v, r, a, w
    <3>5. v + r + 1 = a
      BY <3>4
    <3> QED
      BY <3>5 DEF v, r, a
  <2> QED
    BY <1>2, <1>3, <1>5, <1>7, <2>1 DEF CallOK
<1>9. FrameOK(ast, f) /\ ~IsTarget(f)
  BY <1>2, <1>3, <1>8 DEF FrameOK, Labels, IsTarget
<1>10. Called(f, Frame(n))
  BY <1>3, <1>7, NewFrame DEF Called
<1>11. ~IsReturning(flags)
  BY <1>2 DEF ReturnOK
<1> QED
  BY <1>1, <1>3, <1>4, <1>9, <1>10, <1>11, ExecuteStep

\* An argument has been evaluated.
LEMMA CallEvaluated ==
    ASSUME IInv, Active, node.type = "function_call", top.at = "argument",
           Become([top EXCEPT !.at = "arguments", !.values = Append(@, result)]),
           UNCHANGED <<phase, program, store, registers, reference, error, saved>>
    PROVE  IInv'
<1>1. /\ top.at # "leave" /\ load_references' = load_references /\ current_descriptor' = current_descriptor
      /\ result' = result /\ flags' = flags
  BY DEF reference, registers
<1>2. /\ node \in Node /\ top \in FrameType /\ node = top.node /\ FrameOK(ast, top)
      /\ ReturnOK(control, load_references, flags) /\ top = control[Len(control)]
      /\ flags \subseteq StateFlags /\ load_references \in BOOLEAN /\ result \in Value
      /\ top.rest \in Seq(Node) /\ top.values \in Seq(Value)
  BY <1>1, ActiveFacts DEF IInv, TypesOK
<1> DEFINE f == [top EXCEPT !.at = "arguments", !.values = Append(@, result)]
<1>3. /\ f \in FrameType /\ f.at = "arguments" /\ f.node = node /\ f.scoped = top.scoped
      /\ f.rest = top.rest /\ f.values = Append(top.values, result)
  <2> DEFINE q == Append(top.values, result)
             h == [top EXCEPT !.at = "arguments", !.values = q]
  <2>1. q \in Seq(Value)
    BY <1>2
  <2> HIDE DEF q
  <2>2. /\ h \in FrameType /\ h.at = "arguments" /\ h.node = top.node /\ h.scoped = top.scoped
        /\ h.rest = top.rest /\ h.values = q
    BY <1>2, <2>1 DEF FrameType, Label
  <2> QED
    BY <1>2, <2>2 DEF q
<1>4. Become(f) /\ UNCHANGED <<phase, program, store, result, current_descriptor, error, saved>>
  BY <1>1
<1> HIDE DEF f
<1>5. CallOK(ast, top)
  BY <1>2 DEF FrameOK
<1>6. CallOK(ast, f)
  <2>1. Len(f.values) = Len(top.values) + 1 /\ Len(top.values) \in Nat /\ Len(f.rest) \in Nat
    BY <1>2, <1>3
  <2>2. Len(f.values) + Len(f.rest) = Len(f.node.arguments)
    <3>1. Len(top.values) + Len(top.rest) + 1 = Len(top.node.arguments)
      BY <1>5 DEF CallOK
    <3>2. Len(f.node.arguments) = Len(top.node.arguments) /\ Len(f.rest) = Len(top.rest)
      BY <1>2, <1>3
    <3> DEFINE v == Len(f.values)
               r == Len(f.rest)
               a == Len(f.node.arguments)
               w == Len(top.values)
    <3>3. w + r + 1 = a /\ v = w + 1 /\ w \in Nat /\ r \in Nat
      BY <2>1, <3>1, <3>2
    <3> HIDE DEF v, r, a, w
    <3>4. v + r = a
      BY <3>3
    <3> QED
      BY <3>4 DEF v, r, a
  <2> QED
    BY <1>2, <1>3, <1>5, <2>2 DEF CallOK
<1>7. FrameOK(ast, f) /\ ~(f.at \in OperandLabel)
  BY <1>2, <1>3, <1>6 DEF FrameOK, Labels, OperandLabel
<1>8. ~IsReturning(flags)
  BY <1>2 DEF ReturnOK
<1> QED
  BY <1>1, <1>2, <1>3, <1>4, <1>7, <1>8, BecomeStep

\* The body of a function is executed up to its return.
LEMMA CallBody ==
    ASSUME IInv, Active, node.type = "function_call", top.at = "body",
           IF top.rest = << >> \/ "return_from_function" \in flags
             THEN Become([top EXCEPT !.at = "leave"]) /\ flags' = {}
             ELSE Execute(Head(top.rest), [top EXCEPT !.rest = Tail(@)]) /\ UNCHANGED flags,
           UNCHANGED <<phase, program, store, result, reference, error, saved>>
    PROVE  IInv'
<1>1. /\ top.at # "leave" /\ load_references' = load_references /\ current_descriptor' = current_descriptor
  BY DEF reference
<1>2. /\ node \in Node /\ top \in FrameType /\ node = top.node /\ FrameOK(ast, top)
      /\ ReturnOK(control, load_references, flags) /\ top = control[Len(control)]
      /\ flags \subseteq StateFlags /\ load_references \in BOOLEAN /\ top.rest \in Seq(Node)
  BY <1>1, ActiveFacts DEF IInv, TypesOK
<1>3. CallOK(ast, top) /\ EndsInReturn(top.rest)
  BY <1>2 DEF FrameOK, CallOK
<1>4. CASE top.rest = << >> \/ IsReturning(flags)
  <2> DEFINE f == [top EXCEPT !.at = "leave"]
  <2>1. Become(f) /\ flags' = {}
    BY <1>4 DEF IsReturning
  <2>2. /\ f \in FrameType /\ f.at = "leave" /\ f.node = node /\ f.scoped = top.scoped
    BY <1>2, FrameAt DEF Label
  <2> HIDE DEF f
  <2>3. load_references
    BY <1>2, <1>4 DEF ReturnOK
  <2>4. FrameOK(ast, f) /\ ~(f.at \in OperandLabel)
    BY <1>2, <1>3, <2>2 DEF FrameOK, Labels, OperandLabel, CallOK
  <2>5. ~IsReturning(flags') /\ flags' \subseteq StateFlags
    BY <2>1 DEF IsReturning
  <2>6. UNCHANGED <<phase, program, store, result, current_descriptor, error, saved>>
    BY <1>1
  <2> QED
    BY <1>1, <1>2, <2>1, <2>2, <2>3, <2>4, <2>5, <2>6, BecomeStep
<1>5. CASE top.rest # << >> /\ ~IsReturning(flags)
  <2> DEFINE f == [top EXCEPT !.rest = Tail(@)]
             n == Head(top.rest)
  <2>1. Execute(n, f) /\ flags' = flags
    BY <1>5 DEF IsReturning
  <2>2. /\ f \in FrameType /\ f.at = "body" /\ f.node = node /\ f.scoped = top.scoped
        /\ f.rest = Tail(top.rest) /\ n \in Node
    BY <1>2, <1>5, FrameTail
  <2>3. /\ Len(top.rest) \in Nat \ {0} /\ Len(f.rest) = Len(top.rest) - 1
        /\ n = top.rest[1] /\ \A k \in 1 .. Len(f.rest) : f.rest[k] = top.rest[k + 1]
    BY <1>2, <1>5, <2>2
  <2> HIDE DEF f, n
  <2>4. top.rest[Len(top.rest)].type = "function_return"
    BY <1>3, <1>5 DEF EndsInReturn
  <2>5. f.rest = << >> => n.type = "function_return"
    BY <2>3, <2>4
  <2>6. EndsInReturn(f.rest)
    <3>1. ASSUME f.rest # << >> PROVE f.rest[Len(f.rest)] = top.rest[Len(top.rest)]
      <4>1. f.rest \in Seq(Node)
        BY <1>2, <1>5, <2>2
      <4>2. Len(f.rest) \in 1 .. Len(f.rest) /\ Len(f.rest) + 1 = Len(top.rest)
        BY <2>3, <3>1, <4>1
      <4> QED
        BY <2>3, <4>2
    <3> QED
      BY <2>4, <3>1 DEF EndsInReturn
  <2>7. CallOK(ast, f)
    BY <1>2, <1>3, <2>2, <2>6 DEF CallOK
  <2>8. FrameOK(ast, f) /\ ~(f.at \in OperandLabel)
    BY <1>2, <2>2, <2>7 DEF FrameOK, Labels, OperandLabel
  <2>9. Called(f, Frame(n))
    BY <2>2, <2>5, NewFrame DEF Called
  <2>10. load_references' \in BOOLEAN
         /\ UNCHANGED <<phase, program, store, registers, current_descriptor, error, saved>>
    BY <1>1, <1>2, <2>1 DEF registers
  <2> QED
    BY <1>1, <1>5, <2>1, <2>2, <2>8, <2>9, <2>10, ExecuteStep
<1> QED
  BY <1>4, <1>5


\* The place of a name in a sequence of different names.
LEMMA Place ==
    ASSUME NEW a \in Seq(Name), Distinct(a), NEW k \in 1 .. Len(a)
    PROVE  (CHOOSE j \in DOMAIN a : a[j] = a[k]) = k
<1>1. DOMAIN a = 1 .. Len(a)
  OBVIOUS
<1>2. \E j \in DOMAIN a : a[j] = a[k]
  BY <1>1
<1> DEFINE i == CHOOSE j \in DOMAIN a : a[j] = a[k]
<1>3. i \in DOMAIN a /\ a[i] = a[k]
  BY <1>2
<1> HIDE DEF i
<1>4. i = k
  BY <1>1, <1>3 DEF Distinct
<1> QED
  BY <1>4 DEF i

\* The scope of a function binds its arguments to the next constants.
LEMMA ArgumentTable ==
    ASSUME NEW a \in Seq(Name), Distinct(a), NEW base \in Nat
    PROVE  LET position(name) == CHOOSE k \in DOMAIN a : a[k] = name
               U == [name \in { a[k] : k \in DOMAIN a } |->
                        [index |-> base + position(name), is_constant |-> TRUE]]
           IN  U \in TableType /\ DOMAIN U = Elements(a) /\ Numbered(U, a, base, "constant")
<1> DEFINE position(name) == CHOOSE k \in DOMAIN a : a[k] = name
           U == [name \in { a[k] : k \in DOMAIN a } |->
                    [index |-> base + position(name), is_constant |-> TRUE]]
<1>1. DOMAIN U = Elements(a) /\ Elements(a) \subseteq Name
  BY DEF Elements
<1>2. ASSUME NEW k \in 1 .. Len(a)
      PROVE  U[a[k]] = [index |-> base + k, is_constant |-> TRUE]
  <2>1. position(a[k]) = k
    BY Place
  <2>2. U[a[k]] = [index |-> base + position(a[k]), is_constant |-> TRUE]
    <3> HIDE DEF position
    <3> QED
      OBVIOUS
  <2> QED
    BY <2>1, <2>2
<1> HIDE DEF U
<1>3. ASSUME NEW k \in 1 .. Len(a)
      PROVE  U[a[k]] \in Descriptor /\ U[a[k]].index = base + k /\ KindOf(U[a[k]]) = "constant"
  <2> DEFINE r == [index |-> base + k, is_constant |-> TRUE]
  <2>1. base + k \in Nat
    OBVIOUS
  <2>2. r \in Descriptor /\ r.index = base + k /\ KindOf(r) = "constant"
    BY <2>1 DEF Descriptor, KindOf
  <2>3. U[a[k]] = r
    BY <1>2
  <2> HIDE DEF r
  <2> QED
    BY <2>2, <2>3
<1>4. \A n \in Elements(a) : U[n] \in Descriptor
  BY <1>3 DEF Elements
<1>5. Numbered(U, a, base, "constant")
  BY <1>3 DEF Numbered
<1>6. U \in TableType
  <2>1. U \in [Elements(a) -> Descriptor]
    <3>1. U = [n \in Elements(a) |-> U[n]]
      BY <1>1 DEF U
    <3> QED
      BY <1>4, <3>1
  <2> QED
    BY <1>1, <2>1 DEF TableType
<1> QED
  BY <1>1, <1>5, <1>6 DEF U

Snapshot(cs, vs, sc) == [constants |-> cs, variables |-> vs, scopes |-> sc]

\* A scope that does not inherit is pushed, with the arguments of a call.
LEMMA CallKeeps ==
    ASSUME NEW sc \in Seq(ScopeType) \ {<< >>}, NEW cs, NEW vs, StoreOK(sc, cs, vs, Len(sc)),
           NEW sv, SavedOK(sc, cs, vs, sv),
           NEW a \in Seq(Name), Distinct(a), NEW q \in Seq(Value), Len(q) = Len(a),
           NEW U \in TableType, DOMAIN U = Elements(a), Numbered(U, a, Len(cs), "constant")
    PROVE  LET sd == Append(sc, Scope(FALSE, U))
           IN  /\ StoreOK(sd, cs \o q, vs, Len(sd))
               /\ SavedOK(sd, cs \o q, vs, Append(sv, Snapshot(cs, vs, sc)))
               /\ sd # << >>
               /\ Len(sd) = Len(sc) + 1 /\ \A s \in 1 .. Len(sc) : sd[s] = sc[s]
               /\ sd[Len(sd)].inherits = FALSE
<1> DEFINE new == Scope(FALSE, U)
           sd  == Append(sc, new)
           cd  == cs \o q
<1>1. new \in ScopeType /\ new.inherits = FALSE /\ new.table = U
  BY DEF Scope, ScopeType
<1> HIDE DEF new
<1>2. /\ sd \in Seq(ScopeType) /\ Len(sd) = Len(sc) + 1 /\ Len(sc) \in Nat \ {0}
      /\ \A s \in 1 .. Len(sc) : sd[s] = sc[s]
      /\ sd[Len(sc) + 1] = new
  BY <1>1
<1> HIDE DEF sd
<1>3. /\ cs \in Seq(Value \cup {NoValue}) /\ vs \in Seq(Value) /\ q \in Seq(Value \cup {NoValue})
      /\ Len(cs) \in Nat /\ Len(vs) \in Nat /\ Len(q) \in Nat
  BY DEF StoreOK
<1>4. /\ cd \in Seq(Value \cup {NoValue}) /\ Len(cd) = Len(cs) + Len(a)
      /\ \A i \in 1 .. Len(cs) : cd[i] = cs[i]
  <2> DEFINE S == Value \cup {NoValue}
  <2>1. cs \in Seq(S) /\ q \in Seq(S)
    BY <1>3
  <2> HIDE DEF S
  <2>2. /\ cd \in Seq(S) /\ Len(cd) = Len(cs) + Len(q)
        /\ \A i \in 1 .. Len(cs) + Len(q) : cd[i] = IF i =< Len(cs) THEN cs[i] ELSE q[i - Len(cs)]
    BY <2>1, ConcatProperties
  <2>3. \A i \in 1 .. Len(cs) : i \in 1 .. Len(cs) + Len(q) /\ i =< Len(cs)
    BY <1>3
  <2> HIDE DEF cd
  <2>4. \A i \in 1 .. Len(cs) : cd[i] = cs[i]
    BY <2>2, <2>3
  <2> QED
    BY <2>2, <2>4 DEF S
<1> HIDE DEF cd
<1>5. StoreOK(sd, cd, vs, Len(sd))
  <2>1. << >> \in Seq(Name) /\ Distinct(<< >>) /\ Elements(<< >>) = {} /\ Len(<< >>) = 0
    BY DEF Distinct, Elements
  <2>2. Pushed(sc, cs, vs, a, << >>, sd)
    <3>1. Numbered(sd[Len(sc) + 1].table, a, Len(cs), "constant")
      BY <1>1, <1>2
    <3>2. Numbered(sd[Len(sc) + 1].table, << >>, Len(vs), "variable")
      BY DEF Numbered
    <3>3. DOMAIN sd[Len(sc) + 1].table = Elements(a) \cup Elements(<< >>)
      BY <1>1, <1>2, <2>1
    <3> QED
      BY <1>2, <3>1, <3>2, <3>3 DEF Pushed
  <2>3. Elements(a) \cap Elements(<< >>) = {} /\ Len(vs) = Len(vs) + Len(<< >>)
    BY <1>3, <2>1
  <2> QED
    BY <1>3, <1>4, <2>1, <2>2, <2>3, NewScopeKeepsStore
<1>6. SavedOK(sd, cd, vs, Append(sv, Snapshot(cs, vs, sc)))
  <2>1. ~sd[Len(sc) + 1].inherits
    BY <1>1, <1>2
  <2> QED
    BY <1>2, <1>4, <2>1, CallSaves DEF Snapshot
<1>7. sd # << >> /\ sd[Len(sd)].inherits = FALSE
  BY <1>1, <1>2
<1> QED
  BY <1>2, <1>5, <1>6, <1>7 DEF sd, cd, new

\* All arguments have been evaluated: the function is entered.
EntersFunction ==
    /\ LET position(name) == CHOOSE k \in DOMAIN Callee.arguments : Callee.arguments[k] = name
           descriptor(name) == [index |-> Len(constants) + position(name), is_constant |-> TRUE]
           names == { Callee.arguments[k] : k \in DOMAIN Callee.arguments }
       IN  scopes' = Append(scopes, Scope(FALSE, [name \in names |-> descriptor(name)]))
    /\ constants' = constants \o top.values
    /\ saved' = Append(saved, [constants |-> constants, variables |-> variables, scopes |-> scopes])
    /\ EnterBody(Callee.body)
    /\ UNCHANGED <<phase, program, variables, registers, reference, error>>

\* A call with all its arguments: its caller is saved, and its scope pushed, in which
\* the arguments are constants.
LEMMA CallPush ==
    ASSUME IInv, Active, node.type = "function_call", top.at = "arguments", top.rest = << >>,
           EntersFunction
    PROVE  IInv'
<1>1. top.at # "leave"
  OBVIOUS
<1>2. /\ HandlersOK(ast, control, scopes) /\ control # << >> /\ top = control[Len(control)]
      /\ phase = "running" /\ node = top.node /\ top \in FrameType /\ FrameOK(ast, top)
      /\ StoreOK(scopes, constants, variables, Len(scopes))
      /\ SavedOK(scopes, constants, variables, saved)
      /\ ReturnOK(control, load_references, flags)
      /\ top.values \in Seq(Value)
  BY <1>1, ActiveFacts
<1>3. CallOK(ast, top)
  BY <1>2 DEF FrameOK
<1> DEFINE a == Callee.arguments
           b == Callee.body
<1>4. /\ a \in Seq(Name) /\ Distinct(a) /\ b \in Seq(Node) /\ b # << >>
      /\ b[Len(b)].type = "function_return"
  <2>1. WellFormed(ast) /\ node.callee \in DOMAIN ast.functions
    BY <1>2, <1>3, ProgramAssumption DEF CallOK, IInv, TypesOK
  <2> QED
    BY <2>1 DEF WellFormed, WellFormedFunction, Distinct, Callee
<1>5. Len(top.values) = Len(a)
  <2>1. /\ Len(top.values) + Len(top.rest) = Len(top.node.arguments)
        /\ Len(top.node.arguments) = Len(a)
    BY <1>2, <1>3 DEF CallOK, Callee
  <2> DEFINE v == Len(top.values)
             l == Len(a)
  <2>2. v + 0 = l /\ v \in Nat
    BY <1>2, <2>1
  <2> HIDE DEF v, l
  <2>3. v = l
    BY <2>2
  <2> QED
    BY <2>3 DEF v, l
<1> DEFINE U == [name \in { a[k] : k \in DOMAIN a } |->
                    [index |-> Len(constants) + (CHOOSE k \in DOMAIN a : a[k] = name), is_constant |-> TRUE]]
<1>6. scopes' = Append(scopes, Scope(FALSE, U))
  BY DEF EntersFunction
<1>7. Len(constants) \in Nat /\ scopes \in Seq(ScopeType) \ {<< >>}
  BY <1>2 DEF StoreOK, IInv, TypesOK
<1>8. U \in TableType /\ DOMAIN U = Elements(a) /\ Numbered(U, a, Len(constants), "constant")
  <2> HIDE DEF a
  <2> QED
    BY <1>4, <1>7, ArgumentTable
<1> DEFINE f == [top EXCEPT !.at = "body", !.rest = b, !.scoped = TRUE]
<1>9. control' = Append(SubSeq(control, 1, Len(control) - 1), f)
  BY DEF EntersFunction, EnterBody, Become, Callers
<1> HIDE DEF U, a, b
<1>10. f \in FrameType /\ f.at = "body" /\ f.node = top.node /\ f.scoped = TRUE /\ f.rest = b
  BY <1>2, <1>4 DEF FrameType, Label
<1> HIDE DEF f
<1>11. FrameOK(ast, f)
  <2>1. CallOK(ast, f)
    BY <1>3, <1>4, <1>10 DEF CallOK, EndsInReturn
  <2> QED
    BY <1>2, <1>10, <2>1 DEF FrameOK, Labels
<1>12. /\ StoreOK(scopes', constants', variables, Len(scopes'))
       /\ SavedOK(scopes', constants', variables, saved')
       /\ scopes' # << >> /\ Len(scopes') = Len(scopes) + 1
       /\ \A s \in 1 .. Len(scopes) : scopes'[s] = scopes[s]
       /\ scopes'[Len(scopes')].inherits = FALSE
  <2>1. /\ saved' = Append(saved, Snapshot(constants, variables, scopes))
        /\ constants' = constants \o top.values
    BY DEF Snapshot, EntersFunction
  <2>2. LET sd == Append(scopes, Scope(FALSE, U))
        IN  /\ StoreOK(sd, constants \o top.values, variables, Len(sd))
            /\ SavedOK(sd, constants \o top.values, variables,
                       Append(saved, Snapshot(constants, variables, scopes)))
            /\ sd # << >>
            /\ Len(sd) = Len(scopes) + 1 /\ \A s \in 1 .. Len(scopes) : sd[s] = scopes[s]
            /\ sd[Len(sd)].inherits = FALSE
    BY <1>2, <1>4, <1>5, <1>7, <1>8, CallKeeps, ZenonT(60)
  <2> QED
    BY <1>6, <2>1, <2>2
<1>13. ~IsReturning(flags)
  BY <1>2 DEF ReturnOK
<1>14. ~top.scoped
  BY <1>2 DEF FrameOK
<1>15. /\ HandlersOK(ast, control', scopes')
       /\ ModesOK(control', scopes', load_references, flags, current_descriptor)
  <2>1. /\ f.node = control[Len(control)].node /\ ~control[Len(control)].scoped /\ f.scoped
        /\ (scopes'[Len(scopes')].inherits <=> f.node.type # "function_call")
        /\ ~(f.node.type = "function_call" /\ f.rest = << >>)
    BY <1>2, <1>4, <1>10, <1>12, <1>14
  <2> QED
    BY <1>2, <1>9, <1>10, <1>11, <1>12, <1>13, <2>1, EnterKeeps
<1>16. /\ phase' = phase /\ ast' = ast /\ parameters' = parameters /\ result' = result /\ flags' = flags
       /\ variables' = variables /\ load_references' = load_references
       /\ current_descriptor' = current_descriptor /\ error' = error
  BY DEF EntersFunction, program, registers, reference
<1>17. TypesOK'
  BY <1>12, <1>16 DEF IInv, TypesOK
<1> QED
  BY <1>2, <1>12, <1>15, <1>16, <1>17, Conclude

\* Interpreter.cpp handle_function_call keeps the invariant.
LEMMA CallStep ==
    ASSUME IInv, handle_function_call PROVE IInv'
<1>1. Active /\ node.type = "function_call"
  BY DEF handle_function_call, At, Active
<1>2. \/ top.at = "start"
      \/ top.at = "arguments"
      \/ top.at = "argument"
      \/ top.at = "body"
  BY DEF handle_function_call, At
<1>3. CASE top.at = "start"
  BY <1>1, <1>3, CallStart DEF handle_function_call, At
<1>4. CASE top.at = "arguments" /\ top.rest # << >>
  BY <1>1, <1>4, CallArgument DEF handle_function_call, At
<1>5. CASE top.at = "arguments" /\ top.rest = << >>
  BY <1>1, <1>5, CallPush DEF handle_function_call, At, EntersFunction
<1>6. CASE top.at = "argument"
  BY <1>1, <1>6, CallEvaluated DEF handle_function_call, At
<1>7. CASE top.at = "body"
  BY <1>1, <1>7, CallBody DEF handle_function_call, At
<1> QED
  BY <1>2, <1>3, <1>4, <1>5, <1>6, <1>7
===============================================================================
