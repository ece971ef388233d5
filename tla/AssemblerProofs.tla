---------------------------- MODULE AssemblerProofs ----------------------------
(***************************************************************************)
(* Proofs about Assembler: its types, that cells are never shared, and     *)
(* that what it emits is complete: jumps, operands, calls and ends of      *)
(* frames are what the virtual machine assumes.                            *)
(*                                                                         *)
(* The inductive invariant IInv relates the stack of handlers to the       *)
(* scopes, to the code of the current frame and to the uses of its cells.  *)
(***************************************************************************)
EXTENDS Assembler, FiniteSetTheorems, SequenceTheorems, WellFoundedInduction, TLAPS

ProgramNode == [type |-> "program"]

Label == {"start", "rhs", "lhs", "operand", "condition", "body", "else", "arguments", "argument", "value"}

\* The sets that indices belong to: any that is emitted, what handlers return, what they
\* hold, what scopes have free and what names are bound to.
AnyIndex    == { i \in MemoryIndex : InRange(i) }
IndicesOf(types) == { i \in AnyIndex : i.type \in types }
ResultIndex == {NoIndex} \cup IndicesOf({"immediate", "stack"})
HeldIndex   == IndicesOf({"immediate", "stack", "intermediate"})
FreeIndex   == IndicesOf({"intermediate"})
NameIndex   == IndicesOf({"stack"})

JumpOp == {"jpz", "jmp"}
TwoOp  == {"add", "sub", "mul", "div", "pow", "clt", "cgt", "ceq", "cne"}
SelfOp == {"inc", "dec", "mas", "das", "pas"}
CodeOp == TwoOp \cup SelfOp \cup JumpOp \cup {"mov", "mag", "fac", "hlt", "jsr", "ret", "put"}

HandlerType == [node : Node \cup {ProgramNode}, at : Label, rest : Seq(Node),
                indices : Seq(HeldIndex), jumps : Seq(Nat)]
TableType   == UNION { [D -> NameIndex] : D \in SUBSET Name }
ScopeType   == [inherits : BOOLEAN, free : Seq(FreeIndex), table : TableType]
InstructionType == [op : CodeOp, a : AnyIndex, b : AnyIndex]
FrameType   == [size : 0 .. Byte - 1, code : Seq(InstructionType)]

-------------------------------------------------------------------------------
(***************************************************************************)
(* The handlers.                                                           *)
(***************************************************************************)
\* What a handler of a node of some type can be at.
Labels(type) ==
    IF type = "program" THEN {"body"}
    ELSE IF type \in Operators THEN {"start", "rhs", "lhs"}
    ELSE IF type \in {"variable_decl", "variable_ref", "numeric_constant"} THEN {"start"}
    ELSE IF type = "unary_operator" THEN {"start", "operand"}
    ELSE IF type = "conditional_construct" THEN {"start", "condition", "body", "else"}
    ELSE IF type = "loop" THEN {"start", "condition", "body"}
    ELSE IF type = "function_call" THEN {"start", "arguments", "argument"}
    ELSE {"start", "value"}

AllNumbers(q)   == \A k \in 1 .. Len(q) : IsNumber(q[k])
EndsInReturn(q) == q # << >> => q[Len(q)].type = "function_return"

\* A handler that assembles a body has pushed a scope.
Scoped(f) == f.node.type \in Constructs /\ f.at \in {"body", "else"}

\* A call that is under way: its function is marked; no more arguments than there are.
CallOK(mk, f) ==
    /\ \E k \in 1 .. Len(mk) : k < Byte /\ mk[k] = f.node.callee
    /\ AllNumbers(f.rest)
    /\ Len(f.indices) + Len(f.rest) + (IF f.at = "argument" THEN 1 ELSE 0) =< Len(f.node.arguments)

JumpCount(f) == IF f.node.type \notin Constructs \/ f.at = "start" THEN 0
                ELSE IF f.at = "condition" THEN 1 ELSE IF f.at = "body" THEN 2 ELSE 3

\* Statements outside of functions are those of out, in bodies too.
Closed(out) ==
    \A n \in out : /\ n.type \in {"conditional_construct", "loop"} => n.body \in Seq(out)
                   /\ n.type = "conditional_construct" => n.else_body \in Seq(out)
HasReturn(out) == \E n \in out : n.type = "function_return"
Outside(out, f) == \/ value_type(f.node) # "none"
                   \/ f.node \in out \cup {ProgramNode} /\ f.rest \in Seq(out)

\* cur: the number of frames; mk: the marked functions; here: the length of the code.
HandlerOK(out, cur, mk, here, f) ==
    /\ f.at \in Labels(f.node.type)
    /\ f.at = "lhs" => Len(f.indices) = 1
    /\ f.at # "lhs" /\ ~(f.node.type = "function_call" /\ f.at # "start") => f.indices = << >>
    /\ f.node.type = "function_call" /\ f.at # "start" => CallOK(mk, f)
    /\ Len(f.jumps) = JumpCount(f)
    /\ \A k \in 1 .. Len(f.jumps) : f.jumps[k] =< here
    /\ cur = 1 => Outside(out, f)
    /\ cur # 1 /\ f.node = ProgramNode => EndsInReturn(f.rest)

\* f has called the handler of n. The last statement of a function is a return.
CallsNode(cur, f, n) ==
    \/ f.at = "rhs" /\ n = f.node.rhs
    \/ f.at = "lhs" /\ n = f.node.lhs
    \/ f.at = "operand" /\ n = f.node.operand
    \/ f.at = "condition" /\ n = f.node.condition
    \/ f.at = "value" /\ n = f.node.return_value
    \/ f.at = "argument" /\ IsNumber(n)
    \/ /\ f.at \in {"body", "else"}
       /\ f.node = ProgramNode /\ cur # 1 /\ f.rest = << >> => n.type = "function_return"

ControlOK(out, cur, mk, here, ct) ==
    /\ ct \in Seq(HandlerType)
    /\ \A i \in 1 .. Len(ct) : HandlerOK(out, cur, mk, here, ct[i]) /\ (i = 1 <=> ct[i].node = ProgramNode)
    /\ \A i \in 1 .. Len(ct) - 1 : CallsNode(cur, ct[i], ct[i + 1].node)

\* The handlers that have a scope of their own.
ScopedIn(ct) == { c \in 1 .. Len(ct) : Scoped(ct[c]) }

\* The scopes of the frame begin with one that does not inherit.
BaseOf(cur) == IF cur = 1 THEN 1 ELSE 2

ScopesOK(cur, sc, ct) ==
    IF ct = << >> THEN Len(sc) = 1
    ELSE /\ Len(sc) = BaseOf(cur) + Cardinality(ScopedIn(ct))
         /\ ~sc[BaseOf(cur)].inherits
         /\ \A s \in BaseOf(cur) + 1 .. Len(sc) : sc[s].inherits

-------------------------------------------------------------------------------
(***************************************************************************)
(* The code.                                                               *)
(***************************************************************************)
\* What is emitted, in a frame of the given size with n immediates and m functions.
IsLocal(i, size)      == i.type \in {"stack", "intermediate"} /\ i.value \in 0 .. size - 1
IsOperand(i, size, n) == IsLocal(i, size) \/ (i.type = "immediate" /\ i.value \in 0 .. n - 1)

InstructionOK(out, f, ins, size, n, m) ==
    /\ ins.op \in TwoOp \cup SelfOp \cup {"mov", "mag", "fac", "put"} => IsOperand(ins.a, size, n)
    /\ ins.op \in TwoOp \cup SelfOp => IsOperand(ins.b, size, n)
    /\ ins.op \in SelfOp => IsLocal(ins.a, size)
    /\ ins.op = "mov" => IsLocal(ins.b, size)
    /\ ins.op = "put" => ins.b.value \in 1 .. Byte - 1
    /\ ins.op = "jsr" => ins.a.value \in 1 .. m
    /\ ins.op = "hlt" => f = 1
    /\ ins.op = "ret" /\ f = 1 => HasReturn(out)

FrameOK(out, f, frame, n, m) ==
    /\ frame.size >= 1
    /\ \A k \in 1 .. Len(frame.code) : InstructionOK(out, f, frame.code[k], frame.size, n, m)

CodeOK(out, fr, n, m) == \A f \in 1 .. Len(fr) : FrameOK(out, f, fr[f], n, m)

\* The k-th instruction, if it is a jump, goes to one of the first n instructions.
JumpClosed(code, k, n) ==
    code[k].op \in JumpOp => code[k].a.type = "jump_offset" /\ k + code[k].a.value \in 1 .. n

CompleteCode(f, code) ==
    /\ code # << >>
    /\ code[Len(code)].op = IF f = 1 THEN "hlt" ELSE "ret"
    /\ \A k \in 1 .. Len(code) : JumpClosed(code, k, Len(code))

\* The jumps that are still to be given their offset.
LastJump(f)   == f.jumps[Len(f.jumps)]
OpenJumps(ct) == { LastJump(ct[c]) + 1 : c \in ScopedIn(ct) }

\* Every jump but those goes to an instruction, or to the one that will come next.
OpenCode(open, code) ==
    /\ \A k \in 1 .. Len(code) : k \in open \/ JumpClosed(code, k, Len(code) + 1)
    /\ \A k \in open : k \in 1 .. Len(code) /\ code[k].op \in JumpOp

\* The frame has its last instruction: a function ends in a return.
Finished(cur, ct) == ct = << >> \/ (cur # 1 /\ Len(ct) = 1 /\ ct[1].rest = << >>)

FramesOK(fr, ct) ==
    /\ \A f \in 1 .. Len(fr) - 1 : CompleteCode(f, fr[f].code)
    /\ IF Finished(Len(fr), ct) THEN CompleteCode(Len(fr), fr[Len(fr)].code)
                                ELSE OpenCode(OpenJumps(ct), fr[Len(fr)].code)

\* What handlers hold are operands.
HeldOK(ct, size, n) ==
    \A c \in 1 .. Len(ct) : \A k \in 1 .. Len(ct[c].indices) : IsOperand(ct[c].indices[k], size, n)

\* The innermost handler waits for an index, or for what it assigns to.
OperandLabel  == {"rhs", "lhs", "operand", "argument", "value"}
IsTarget(f)   == f.at = "lhs" /\ f.node.type \in {"assignment", "update_expression"}
NeedsIndex(f) == f.at \in OperandLabel /\ ~(f.at = "rhs" /\ f.node.type = "update_expression")

IndexOK(f, i, size, n) ==
    /\ NeedsIndex(f) => i # NoIndex
    /\ f.at \in OperandLabel /\ i # NoIndex => IsOperand(i, size, n)
    /\ IsTarget(f) => IsLocal(i, size)

-------------------------------------------------------------------------------
(***************************************************************************)
(* The uses of cells: names, free intermediates and intermediates that are *)
(* held.  <<"name", s, n>> is the name n of scope s, <<"free", s, k>> the  *)
(* k-th free intermediate of scope s, <<"held", c, k>> the k-th index that *)
(* handler c holds.                                                        *)
(***************************************************************************)
IsUse(sc, b, ct, u) ==
    \/ u[1] = "name" /\ u[2] \in b .. Len(sc) /\ u[3] \in DOMAIN sc[u[2]].table
    \/ u[1] = "free" /\ u[2] \in b .. Len(sc) /\ u[3] \in 1 .. Len(sc[u[2]].free)
    \/ /\ u[1] = "held" /\ u[2] \in 1 .. Len(ct) /\ u[3] \in 1 .. Len(ct[u[2]].indices)
       /\ ct[u[2]].indices[u[3]].type = "intermediate"

UseKind == {"name", "free", "held"}
Uses(sc, b, ct) == { u \in UseKind \X Nat \X (Nat \cup Name) : IsUse(sc, b, ct, u) }

Cell(sc, ct, u) == IF u[1] = "name" THEN sc[u[2]].table[u[3]].value
                   ELSE IF u[1] = "free" THEN sc[u[2]].free[u[3]].value
                   ELSE ct[u[2]].indices[u[3]].value

\* Every use has a cell of its own, and none is A.
CellsApart(sc, b, ct, size) ==
    /\ \A u \in Uses(sc, b, ct) : Cell(sc, ct, u) \in 1 .. size - 1
    /\ \A u, v \in Uses(sc, b, ct) : Cell(sc, ct, u) = Cell(sc, ct, v) => u = v

-------------------------------------------------------------------------------
(***************************************************************************)
(* The invariant.                                                          *)
(***************************************************************************)
TypesOK ==
    /\ stage \in {"starting", "running", "done", "failed", "asserted"}
    /\ ast \in Programs
    /\ index \in ResultIndex
    /\ frames \in Seq(FrameType)
    /\ immediates \in Seq(Value) /\ Len(immediates) =< Byte
    /\ scopes \in Seq(ScopeType)
    /\ marked \in Seq(FunctionName) /\ ~Repeated(marked)
    /\ \A k \in 1 .. Len(marked) : marked[k] \in DOMAIN ast.functions
    /\ pending \in 0 .. Len(marked)
    /\ ec \in AssemblerErrorCode /\ (ec # "ok" <=> stage = "failed")
    /\ wrapped \in BOOLEAN

StageOK ==
    /\ stage = "starting" => /\ control = << >> /\ frames = << >> /\ scopes = << >>
                             /\ marked = << >> /\ pending = 0
    /\ stage = "done" => control = << >> /\ pending = 0
    /\ stage \in {"running", "done"} => Len(frames) + pending = 1 + Len(marked) /\ frames # << >>
    /\ control # << >> => frames # << >>

ControlInv(out) == ControlOK(out, Len(frames), marked, Here, control)
ScopesInv       == stage = "running" => ScopesOK(Len(frames), scopes, control)

CodeInv(out) ==
    stage \in {"running", "done"} /\ ~wrapped =>
      /\ CodeOK(out, frames, Len(immediates), Len(marked))
      /\ FramesOK(frames, control)
      /\ 1 + Len(ast.inputs) + Len(ast.outputs) =< frames[1].size

IndexInv ==
    stage = "running" /\ ~wrapped /\ control # << >> =>
      /\ HeldOK(control, frames[Len(frames)].size, Len(immediates))
      /\ IndexOK(top, index, frames[Len(frames)].size, Len(immediates))

CellsInv ==
    stage = "running" /\ ~wrapped /\ control # << >> =>
      CellsApart(scopes, BaseOf(Len(frames)), control, frames[Len(frames)].size)

IInv(out) == TypesOK /\ StageOK /\ ControlInv(out) /\ ScopesInv /\ CodeInv(out) /\ IndexInv /\ CellsInv

\* What is known of out: statements outside of functions are in it.
OutAssumption(out) ==
    /\ out \subseteq Node
    /\ Closed(out)
    /\ \A p \in Programs : p.nodes \in Seq(out)
    /\ MinusOne \in Value

-------------------------------------------------------------------------------
(***************************************************************************)
(* Sequences as stacks.                                                    *)
(***************************************************************************)
\* r is q without its last element, with one more, or with its last one replaced.
Popped(q, r)      == Len(r) = Len(q) - 1 /\ \A i \in 1 .. Len(q) - 1 : r[i] = q[i]
Extended(q, r, x) == Len(r) = Len(q) + 1 /\ r[Len(q) + 1] = x /\ \A i \in 1 .. Len(q) : r[i] = q[i]
Replaced(q, r, x) == Len(r) = Len(q) /\ r[Len(q)] = x /\ \A i \in 1 .. Len(q) - 1 : r[i] = q[i]

LEMMA FrontIs ==
    ASSUME NEW S, NEW q \in Seq(S), q # << >>
    PROVE  SubSeq(q, 1, Len(q) - 1) \in Seq(S) /\ Popped(q, SubSeq(q, 1, Len(q) - 1)) /\ Len(q) \in Nat \ {0}
<1>1. Len(q) \in Nat \ {0} /\ Len(q) - 1 \in Int /\ \A i \in 1 .. Len(q) - 1 : q[i] \in S
  OBVIOUS
<1> DEFINE n == Len(q) - 1
<1>2. /\ SubSeq(q, 1, n) \in Seq(S)
      /\ Len(SubSeq(q, 1, n)) = IF 1 =< n THEN n - 1 + 1 ELSE 0
      /\ \A i \in 1 .. n - 1 + 1 : SubSeq(q, 1, n)[i] = q[1 + i - 1]
  <2> HIDE DEF n
  <2> QED
    BY <1>1, SubSeqProperties DEF n
<1>3. n \in Nat /\ Len(q) \in Nat \ {0}
  BY <1>1
<1> HIDE DEF n
<1>4. /\ \A i \in 1 .. n : i \in 1 .. n - 1 + 1 /\ 1 + i - 1 = i
      /\ n = IF 1 =< n THEN n - 1 + 1 ELSE 0
  BY <1>3
<1>5. /\ SubSeq(q, 1, n) \in Seq(S) /\ Len(SubSeq(q, 1, n)) = n
      /\ \A i \in 1 .. n : SubSeq(q, 1, n)[i] = q[i]
  BY <1>2, <1>4
<1> QED
  BY <1>3, <1>5 DEF n, Popped

LEMMA AppendIs ==
    ASSUME NEW S, NEW q \in Seq(S), NEW x \in S
    PROVE  Append(q, x) \in Seq(S) /\ Extended(q, Append(q, x), x) /\ Append(q, x) # << >>
BY DEF Extended

LEMMA TailIs ==
    ASSUME NEW S, NEW q \in Seq(S), q # << >>
    PROVE  /\ Tail(q) \in Seq(S) /\ Len(Tail(q)) = Len(q) - 1 /\ Head(q) = q[1] /\ Head(q) \in S
           /\ Len(q) \in Nat \ {0}
           /\ \A i \in 1 .. Len(q) - 1 : Tail(q)[i] = q[i + 1]
OBVIOUS

\* Taking the last element away and putting another one there replaces it.
LEMMA ReplaceIs ==
    ASSUME NEW S, NEW q \in Seq(S), NEW r \in Seq(S), NEW s \in Seq(S), NEW x,
           q # << >>, Popped(q, r), Extended(r, s, x)
    PROVE  Replaced(q, s, x)
<1>1. Len(q) \in Nat \ {0} /\ Len(r) = Len(q) - 1 /\ Len(s) = Len(r) + 1
  BY DEF Popped, Extended
<1> QED
  BY <1>1 DEF Popped, Extended, Replaced

\* And the other way round.
LEMMA ReplacedParts ==
    ASSUME NEW S, NEW q \in Seq(S), NEW r \in Seq(S), NEW s \in Seq(S), NEW x,
           q # << >>, Popped(q, r), Replaced(q, s, x)
    PROVE  Extended(r, s, x) /\ Popped(s, r) /\ s # << >> /\ x \in S
<1>1. Len(q) \in Nat \ {0} /\ Len(r) = Len(q) - 1 /\ Len(s) = Len(q)
  BY DEF Popped, Replaced
<1>2. s # << >> /\ x \in S
  BY <1>1 DEF Replaced
<1> QED
  BY <1>1, <1>2 DEF Popped, Extended, Replaced

LEMMA ExceptIs ==
    ASSUME NEW S, NEW q \in Seq(S), q # << >>, NEW x \in S
    PROVE  /\ [q EXCEPT ![Len(q)] = x] \in Seq(S) /\ Replaced(q, [q EXCEPT ![Len(q)] = x], x)
           /\ [q EXCEPT ![Len(q)] = x] # << >>
BY DEF Replaced

\* A set of natural numbers that is not empty has a least element.
LEMMA Least ==
    ASSUME NEW S, S \subseteq Nat, S # {}
    PROVE  \E m \in S : \A k \in S : m =< k
<1> DEFINE R == OpToRel(<, Nat)
<1>1. IsWellFoundedOn(R, Nat)
  BY NatLessThanWellFounded
<1>2. PICK x \in S : \A y \in S : ~(<<y, x>> \in R)
  <2> HIDE DEF R
  <2> QED
    BY <1>1, WFMin
<1>3. ASSUME NEW y \in S PROVE ~(y < x)
  BY <1>2 DEF OpToRel
<1> QED
  BY <1>3

\* A bounded set of natural numbers that is not empty has a greatest element.
LEMMA Greatest ==
    ASSUME NEW n \in Nat, NEW S, S \subseteq 1 .. n, S # {}
    PROVE  \E m \in S : \A k \in S : k =< m
<1> DEFINE T == { n - k : k \in S }
<1>1. T \subseteq Nat /\ T # {}
  <2>1. \A k \in S : n - k \in Nat
    OBVIOUS
  <2>2. \E k \in S : n - k \in T
    OBVIOUS
  <2> QED
    BY <2>1, <2>2
<1>2. PICK m \in T : \A k \in T : m =< k
  <2> HIDE DEF T
  <2> QED
    BY <1>1, Least
<1>3. PICK j \in S : m = n - j
  BY <1>2
<1>4. ASSUME NEW k \in S PROVE k =< j
  <2>1. n - k \in T
    OBVIOUS
  <2>2. n - j =< n - k
    BY <1>2, <1>3, <2>1
  <2> QED
    BY <2>2
<1> QED
  BY <1>4

-------------------------------------------------------------------------------
(***************************************************************************)
(* Nodes and handlers.                                                     *)
(***************************************************************************)
LEMMA IsProgram == ProgramNode.type = "program"
BY DEF ProgramNode

\* What the nodes of each type have.
LEMMA NodeFacts ==
    ASSUME NEW n \in Node
    PROVE  /\ n # ProgramNode /\ n.type # "program"
           /\ n.type \in Operators => n.lhs \in Node /\ n.rhs \in Node
           /\ n.type \in {"arithmetic_operator", "relational_operator"} => IsNumber(n.lhs) /\ IsNumber(n.rhs)
           /\ n.type = "assignment" => is_lvalue(n.lhs) /\ IsNumber(n.rhs)
           /\ n.type = "update_expression" => n.lhs.type = "variable_ref" /\ n.op \in ArithmeticOp
                                              /\ value_type(n.rhs) # "none"
           /\ n.type = "arithmetic_operator" => n.op \in ArithmeticOp
           /\ n.type = "relational_operator" => n.op \in RelationalOp
           /\ n.type = "unary_operator" => n.operand \in Node /\ IsNumber(n.operand) /\ n.op \in UnaryOp
           /\ n.type = "function_return" => n.return_value \in Node /\ IsNumber(n.return_value)
<1>1. /\ WellFormedNode(n) /\ Children(n) \subseteq Node
  BY NodeAssumption
<1>2. n.type \in Operators => Children(n) = {n.lhs, n.rhs}
  BY DEF Children, Operators
<1>3. n.type = "unary_operator" => Children(n) = {n.operand}
  BY DEF Children
<1>4. n.type = "function_return" => Children(n) = {n.return_value}
  BY DEF Children
<1>5. n.type # "program"
  BY <1>1 DEF WellFormedNode
<1>6. n # ProgramNode
  BY <1>5, IsProgram
<1>7. /\ n.type \in {"arithmetic_operator", "relational_operator"} => IsNumber(n.lhs) /\ IsNumber(n.rhs)
      /\ n.type = "assignment" => is_lvalue(n.lhs) /\ IsNumber(n.rhs)
      /\ n.type = "update_expression" => n.lhs.type = "variable_ref" /\ n.op \in ArithmeticOp
                                              /\ value_type(n.rhs) # "none"
      /\ n.type = "arithmetic_operator" => n.op \in ArithmeticOp
      /\ n.type = "relational_operator" => n.op \in RelationalOp
      /\ n.type = "unary_operator" => IsNumber(n.operand) /\ n.op \in UnaryOp
      /\ n.type = "function_return" => IsNumber(n.return_value)
  BY <1>1 DEF WellFormedNode
<1> QED
  BY <1>1, <1>2, <1>3, <1>4, <1>5, <1>6, <1>7

LEMMA ConstructFacts ==
    ASSUME NEW n \in Node
    PROVE  /\ n.type \in Constructs => n.condition \in Node /\ IsCondition(n.condition) /\ n.body \in Seq(Node)
           /\ n.type = "conditional_construct" => n.else_body \in Seq(Node)
           /\ n.type = "function_call" => /\ n.callee \in FunctionName /\ n.arguments \in Seq(Node)
                                          /\ AllNumbers(n.arguments)
           /\ n.type \in {"variable_decl", "variable_ref"} => n.name \in Name
           /\ n.type = "numeric_constant" => n.value \in Value
<1>1. /\ WellFormedNode(n) /\ Children(n) \subseteq Node
      /\ n.type \in {"variable_decl", "variable_ref"} => n.name \in Name
      /\ n.type = "numeric_constant" => n.value \in Value
      /\ n.type \in {"conditional_construct", "loop"} => n.body \in Seq(Node)
      /\ n.type = "conditional_construct" => n.else_body \in Seq(Node)
      /\ n.type = "function_call" => n.callee \in FunctionName /\ n.arguments \in Seq(Node)
  BY NodeAssumption
<1>2. n.type \in Constructs => n.condition \in Children(n)
  <2>1. CASE n.type = "conditional_construct"
    BY <2>1 DEF Children
  <2>2. CASE n.type = "loop"
    BY <2>2 DEF Children
  <2> QED
    BY <2>1, <2>2 DEF Constructs
<1>3. /\ n.type \in Constructs => IsCondition(n.condition)
      /\ n.type = "function_call" => AllNumbers(n.arguments)
  BY <1>1 DEF WellFormedNode, Constructs, AllNumbers
<1> QED
  BY <1>1, <1>2, <1>3 DEF Constructs

\* The types that nodes can have; only statements have no value.
LEMMA NodeTypes ==
    ASSUME NEW n \in Node
    PROVE  n.type \in Operators \cup {"variable_decl", "variable_ref", "numeric_constant", "unary_operator",
                                      "conditional_construct", "loop", "function_call", "function_return"}
BY NodeAssumption DEF WellFormedNode, Operators

\* A handler that has just been called.
LEMMA NewHandler ==
    ASSUME NEW n \in Node, NEW out, NEW cur, NEW mk, NEW here, cur = 1 => Outside(out, Handler(n))
    PROVE  /\ Handler(n) \in HandlerType /\ HandlerOK(out, cur, mk, here, Handler(n)) /\ ~Scoped(Handler(n))
           /\ Handler(n).node = n /\ Handler(n).at = "start" /\ Handler(n).indices = << >>
<1> DEFINE h == Handler(n)
<1>1. h \in HandlerType
  BY DEF Handler, HandlerType, Label
<1>2. h.node = n /\ h.at = "start" /\ h.rest = << >> /\ h.indices = << >> /\ h.jumps = << >>
  BY DEF Handler
<1> HIDE DEF h
<1>3. ~Scoped(h)
  BY <1>2 DEF Scoped
<1>4. h.at \in Labels(h.node.type)
  BY <1>2, NodeTypes, NodeFacts DEF Labels, Operators
<1>5. Len(h.jumps) = JumpCount(h)
  BY <1>2 DEF JumpCount
<1>6. HandlerOK(out, cur, mk, here, h)
  BY <1>2, <1>4, <1>5, NodeFacts DEF HandlerOK, h
<1> QED
  BY <1>1, <1>2, <1>3, <1>6 DEF h

\* More functions may be marked and more code emitted.
Prefix(q, r) == Len(q) =< Len(r) /\ \A k \in 1 .. Len(q) : r[k] = q[k]

LEMMA HandlerLater ==
    ASSUME NEW out, NEW cur, NEW S, NEW mk \in Seq(S), NEW mk2 \in Seq(S), Prefix(mk, mk2),
           NEW here \in Nat, NEW here2 \in Nat, here =< here2,
           NEW f \in HandlerType, HandlerOK(out, cur, mk, here, f)
    PROVE  HandlerOK(out, cur, mk2, here2, f)
<1>1. CallOK(mk, f) => CallOK(mk2, f)
  <2>1. Len(mk) \in Nat /\ Len(mk2) \in Nat /\ Len(mk) =< Len(mk2)
    BY DEF Prefix
  <2>2. ASSUME NEW k \in 1 .. Len(mk) PROVE k \in 1 .. Len(mk2) /\ mk2[k] = mk[k]
    BY <2>1 DEF Prefix
  <2>3. (\E k \in 1 .. Len(mk) : k < Byte /\ mk[k] = f.node.callee) =>
        \E k \in 1 .. Len(mk2) : k < Byte /\ mk2[k] = f.node.callee
    BY <2>2
  <2> QED
    BY <2>3, Zenon DEF CallOK
<1>2. f.jumps \in Seq(Nat)
  BY DEF HandlerType
<1>3. (\A k \in 1 .. Len(f.jumps) : f.jumps[k] =< here) => \A k \in 1 .. Len(f.jumps) : f.jumps[k] =< here2
  <2> SUFFICES ASSUME \A k \in 1 .. Len(f.jumps) : f.jumps[k] =< here, NEW k \in 1 .. Len(f.jumps)
               PROVE  f.jumps[k] =< here2
    OBVIOUS
  <2>1. f.jumps[k] \in Nat /\ f.jumps[k] =< here
    BY <1>2
  <2> QED
    BY <2>1
<1> QED
  BY <1>1, <1>3 DEF HandlerOK

LEMMA ControlLater ==
    ASSUME NEW out, NEW cur, NEW S, NEW mk \in Seq(S), NEW mk2 \in Seq(S), Prefix(mk, mk2),
           NEW here \in Nat, NEW here2 \in Nat, here =< here2,
           NEW ct, ControlOK(out, cur, mk, here, ct)
    PROVE  ControlOK(out, cur, mk2, here2, ct)
<1>1. ct \in Seq(HandlerType)
  BY DEF ControlOK
<1>2. ASSUME NEW i \in 1 .. Len(ct) PROVE HandlerOK(out, cur, mk2, here2, ct[i])
  <2>1. ct[i] \in HandlerType /\ HandlerOK(out, cur, mk, here, ct[i])
    BY <1>1 DEF ControlOK
  <2> QED
    BY <2>1, HandlerLater
<1> QED
  BY <1>2 DEF ControlOK

LEMMA ControlPopped ==
    ASSUME NEW out, NEW cur, NEW mk, NEW here, NEW ct, ControlOK(out, cur, mk, here, ct), ct # << >>,
           NEW cd \in Seq(HandlerType), Popped(ct, cd)
    PROVE  ControlOK(out, cur, mk, here, cd)
<1>1. ct \in Seq(HandlerType) /\ Len(ct) \in Nat \ {0} /\ Len(cd) = Len(ct) - 1
  BY DEF ControlOK, Popped
<1>2. ASSUME NEW i \in 1 .. Len(cd)
      PROVE  i \in 1 .. Len(ct) /\ cd[i] = ct[i]
  BY <1>1 DEF Popped
<1>3. ASSUME NEW i \in 1 .. Len(cd) - 1
      PROVE  i \in 1 .. Len(ct) - 1 /\ cd[i] = ct[i] /\ cd[i + 1] = ct[i + 1]
  BY <1>1 DEF Popped
<1> QED
  BY <1>2, <1>3 DEF ControlOK

LEMMA ControlExtended ==
    ASSUME NEW out, NEW cur, NEW mk, NEW here, NEW ct, ControlOK(out, cur, mk, here, ct),
           NEW f, HandlerOK(out, cur, mk, here, f), ct = << >> <=> f.node = ProgramNode,
           ct # << >> => CallsNode(cur, ct[Len(ct)], f.node),
           NEW cd \in Seq(HandlerType), Extended(ct, cd, f)
    PROVE  ControlOK(out, cur, mk, here, cd)
<1>1. ct \in Seq(HandlerType) /\ Len(ct) \in Nat /\ Len(cd) = Len(ct) + 1 /\ (ct = << >> <=> Len(ct) = 0)
  BY DEF ControlOK, Extended
<1>2. ASSUME NEW i \in 1 .. Len(cd)
      PROVE  HandlerOK(out, cur, mk, here, cd[i]) /\ (i = 1 <=> cd[i].node = ProgramNode)
  <2>1. CASE i \in 1 .. Len(ct)
    BY <2>1 DEF ControlOK, Extended
  <2>2. CASE i = Len(ct) + 1
    BY <1>1, <2>2 DEF Extended
  <2> QED
    BY <1>1, <2>1, <2>2
<1>3. ASSUME NEW i \in 1 .. Len(cd) - 1
      PROVE  CallsNode(cur, cd[i], cd[i + 1].node)
  <2>1. i \in 1 .. Len(ct) /\ cd[i] = ct[i]
    BY <1>1 DEF Extended
  <2>2. CASE i # Len(ct)
    <3>1. i \in 1 .. Len(ct) - 1 /\ i + 1 \in 1 .. Len(ct)
      BY <1>1, <2>1, <2>2
    <3>2. cd[i + 1] = ct[i + 1]
      BY <3>1 DEF Extended
    <3> QED
      BY <2>1, <3>1, <3>2 DEF ControlOK
  <2>3. CASE i = Len(ct)
    <3>1. ct # << >> /\ cd[i + 1] = f
      BY <1>1, <2>1, <2>3 DEF Extended
    <3> QED
      BY <2>1, <2>3, <3>1
  <2> QED
    BY <2>2, <2>3
<1> QED
  BY <1>2, <1>3 DEF ControlOK

\* The innermost handler, and who has called it.
LEMMA TopFacts ==
    ASSUME NEW out, NEW cur, NEW mk, NEW here, NEW ct, ControlOK(out, cur, mk, here, ct), ct # << >>
    PROVE  /\ ct \in Seq(HandlerType) /\ Len(ct) \in Nat \ {0} /\ ct[Len(ct)] \in HandlerType
           /\ HandlerOK(out, cur, mk, here, ct[Len(ct)])
           /\ Len(ct) = 1 <=> ct[Len(ct)].node = ProgramNode
           /\ Len(ct) # 1 => /\ ct[Len(ct)].node \in Node /\ ct[Len(ct) - 1] \in HandlerType
                             /\ HandlerOK(out, cur, mk, here, ct[Len(ct) - 1])
                             /\ CallsNode(cur, ct[Len(ct) - 1], ct[Len(ct)].node)
                             /\ Len(ct) - 1 = 1 <=> ct[Len(ct) - 1].node = ProgramNode
                             /\ Len(ct) - 1 # 1 => ct[Len(ct) - 1].node \in Node
<1>1. ct \in Seq(HandlerType) /\ Len(ct) \in Nat \ {0}
  BY DEF ControlOK
<1> DEFINE n == Len(ct)
<1>3. /\ \A i \in 1 .. n : /\ ct[i] \in HandlerType /\ HandlerOK(out, cur, mk, here, ct[i])
                           /\ (i = 1 <=> ct[i].node = ProgramNode)
      /\ \A i \in 1 .. n - 1 : CallsNode(cur, ct[i], ct[i + 1].node)
  BY <1>1 DEF ControlOK
<1>4. \A f \in HandlerType : f.node \in Node \cup {ProgramNode}
  BY DEF HandlerType
<1>0. n \in Nat \ {0}
  BY <1>1
<1> HIDE DEF n
<1>2. n \in Nat \ {0} /\ (n # 1 => n - 1 \in 1 .. n - 1 /\ n - 1 \in 1 .. n /\ n - 1 + 1 = n) /\ n \in 1 .. n
  BY <1>0
<1>5. /\ ct[n] \in HandlerType /\ HandlerOK(out, cur, mk, here, ct[n])
      /\ n = 1 <=> ct[n].node = ProgramNode
      /\ n # 1 => /\ ct[n].node \in Node /\ ct[n - 1] \in HandlerType
                  /\ HandlerOK(out, cur, mk, here, ct[n - 1])
                  /\ CallsNode(cur, ct[n - 1], ct[n].node)
                  /\ n - 1 = 1 <=> ct[n - 1].node = ProgramNode
                  /\ n - 1 # 1 => ct[n - 1].node \in Node
  BY <1>2, <1>3, <1>4
<1> QED
  BY <1>1, <1>5 DEF n

LEMMA ControlReplaced ==
    ASSUME NEW out, NEW cur, NEW mk, NEW here, NEW ct, ControlOK(out, cur, mk, here, ct), ct # << >>,
           NEW f, HandlerOK(out, cur, mk, here, f), f.node = ct[Len(ct)].node,
           NEW cd \in Seq(HandlerType), Replaced(ct, cd, f)
    PROVE  ControlOK(out, cur, mk, here, cd)
<1> DEFINE fr == SubSeq(ct, 1, Len(ct) - 1)
<1>1. ct \in Seq(HandlerType) /\ fr \in Seq(HandlerType) /\ Popped(ct, fr) /\ Len(ct) \in Nat \ {0}
  BY TopFacts, FrontIs
<1> HIDE DEF fr
<1>2. Extended(fr, cd, f)
  BY <1>1, ReplacedParts
<1>3. ControlOK(out, cur, mk, here, fr)
  BY <1>1, ControlPopped
<1>4. fr = << >> <=> f.node = ProgramNode
  <2>1. Len(fr) = Len(ct) - 1 /\ (fr = << >> <=> Len(fr) = 0)
    BY <1>1 DEF Popped
  <2>2. Len(ct) = 1 <=> ct[Len(ct)].node = ProgramNode
    BY TopFacts
  <2> QED
    BY <1>1, <2>1, <2>2
<1>5. fr # << >> => CallsNode(cur, fr[Len(fr)], f.node)
  <2> SUFFICES ASSUME fr # << >> PROVE CallsNode(cur, fr[Len(fr)], f.node)
    OBVIOUS
  <2>1. Len(fr) = Len(ct) - 1 /\ Len(ct) # 1 /\ Len(ct) - 1 \in 1 .. Len(ct) - 1
    BY <1>1 DEF Popped
  <2>2. fr[Len(ct) - 1] = ct[Len(ct) - 1]
    BY <2>1, <1>1 DEF Popped
  <2> QED
    BY <2>1, <2>2, TopFacts
<1> QED
  BY <1>2, <1>3, <1>4, <1>5, ControlExtended

\* What the last handler adds to the scopes and to the open jumps.
LEMMA ScopedPopped ==
    ASSUME NEW ct \in Seq(HandlerType), ct # << >>, NEW cd \in Seq(HandlerType), Popped(ct, cd)
    PROVE  /\ IsFiniteSet(ScopedIn(ct)) /\ Cardinality(ScopedIn(ct)) \in Nat /\ Cardinality(ScopedIn(cd)) \in Nat
           /\ Scoped(ct[Len(ct)]) => /\ Cardinality(ScopedIn(ct)) = Cardinality(ScopedIn(cd)) + 1
                                     /\ OpenJumps(ct) = OpenJumps(cd) \cup {LastJump(ct[Len(ct)]) + 1}
           /\ ~Scoped(ct[Len(ct)]) => ScopedIn(ct) = ScopedIn(cd) /\ OpenJumps(ct) = OpenJumps(cd)
<1>1. Len(ct) \in Nat \ {0} /\ Len(cd) \in Nat /\ Len(cd) = Len(ct) - 1
  BY DEF Popped
<1>2. \A i \in 1 .. Len(cd) : i # Len(ct) /\ i \in 1 .. Len(ct) /\ cd[i] = ct[i]
  BY <1>1 DEF Popped
<1>3. \A i \in 1 .. Len(ct) : i = Len(ct) \/ i \in 1 .. Len(cd)
  BY <1>1
<1>4. IsFiniteSet(ScopedIn(cd)) /\ Cardinality(ScopedIn(cd)) \in Nat
  <2>1. IsFiniteSet(1 .. Len(cd)) /\ ScopedIn(cd) \subseteq 1 .. Len(cd)
    <3>1. 1 \in Int /\ Len(cd) \in Int
      BY <1>1
    <3> QED
      BY <3>1, FS_Interval DEF ScopedIn
  <2> QED
    BY <2>1, FS_Subset, FS_CardinalityType
<1>5. Len(ct) \in 1 .. Len(ct) /\ Len(ct) \notin ScopedIn(cd)
  BY <1>1, <1>2 DEF ScopedIn
<1>6. CASE Scoped(ct[Len(ct)])
  <2>1. ScopedIn(ct) = ScopedIn(cd) \cup {Len(ct)}
    BY <1>2, <1>3, <1>5, <1>6 DEF ScopedIn
  <2>2. IsFiniteSet(ScopedIn(ct)) /\ Cardinality(ScopedIn(ct)) = Cardinality(ScopedIn(cd)) + 1
    BY <1>4, <1>5, <2>1, FS_AddElement
  <2>3. \A c \in ScopedIn(cd) : cd[c] = ct[c]
    BY <1>2 DEF ScopedIn
  <2>4. OpenJumps(ct) = OpenJumps(cd) \cup {LastJump(ct[Len(ct)]) + 1}
    BY <2>1, <2>3 DEF OpenJumps
  <2> QED
    BY <1>4, <1>6, <2>2, <2>4
<1>7. CASE ~Scoped(ct[Len(ct)])
  <2>1. ScopedIn(ct) = ScopedIn(cd)
    BY <1>2, <1>3, <1>5, <1>7 DEF ScopedIn
  <2>2. \A c \in ScopedIn(cd) : cd[c] = ct[c]
    BY <1>2 DEF ScopedIn
  <2>3. OpenJumps(ct) = OpenJumps(cd)
    BY <2>1, <2>2 DEF OpenJumps
  <2> QED
    BY <1>4, <1>7, <2>1, <2>3
<1> QED
  BY <1>6, <1>7

\* The innermost handler can go on as f.
GoesOn(out, cur, mk, here, ct, f) ==
    /\ ControlOK(out, cur, mk, here, ct) /\ ct # << >>
    /\ f \in HandlerType /\ HandlerOK(out, cur, mk, here, f) /\ f.node = ct[Len(ct)].node

\* With the scope and the open jump that it has.
SameBody(ct, f) == /\ Scoped(f) <=> Scoped(ct[Len(ct)])
                   /\ Scoped(f) => f.jumps = ct[Len(ct)].jumps

\* And it can call the handler of n.
CanCall(out, cur, f, n) == n \in Node /\ CallsNode(cur, f, n) /\ (cur = 1 => Outside(out, Handler(n)))

LEMMA PushControl ==
    ASSUME NEW out, NEW cur, NEW mk, NEW here, NEW ct, NEW f, NEW n,
           GoesOn(out, cur, mk, here, ct, f), SameBody(ct, f), CanCall(out, cur, f, n)
    PROVE  LET mid == Append(SubSeq(ct, 1, Len(ct) - 1), f)
               cd  == Append(mid, Handler(n))
           IN  /\ mid \in Seq(HandlerType) /\ Replaced(ct, mid, f)
               /\ cd \in Seq(HandlerType) /\ Extended(mid, cd, Handler(n))
               /\ ControlOK(out, cur, mk, here, cd) /\ Len(cd) = Len(ct) + 1 /\ Len(ct) \in Nat \ {0}
               /\ Cardinality(ScopedIn(cd)) = Cardinality(ScopedIn(ct)) /\ OpenJumps(cd) = OpenJumps(ct)
<1>0. /\ ControlOK(out, cur, mk, here, ct) /\ ct # << >>
      /\ f \in HandlerType /\ HandlerOK(out, cur, mk, here, f) /\ f.node = ct[Len(ct)].node
      /\ Scoped(f) <=> Scoped(ct[Len(ct)])
      /\ Scoped(f) => f.jumps = ct[Len(ct)].jumps
      /\ n \in Node /\ CallsNode(cur, f, n) /\ (cur = 1 => Outside(out, Handler(n)))
  BY DEF GoesOn, SameBody, CanCall
<1> DEFINE fr  == SubSeq(ct, 1, Len(ct) - 1)
           mid == Append(fr, f)
           cd  == Append(mid, Handler(n))
<1>1. ct \in Seq(HandlerType) /\ fr \in Seq(HandlerType) /\ Popped(ct, fr) /\ Len(ct) \in Nat \ {0}
  BY <1>0, TopFacts, FrontIs
<1> HIDE DEF fr
<1>2. mid \in Seq(HandlerType) /\ Extended(fr, mid, f) /\ mid # << >>
  BY <1>0, <1>1, AppendIs
<1> HIDE DEF mid
<1>3. Handler(n) \in HandlerType /\ HandlerOK(out, cur, mk, here, Handler(n)) /\ ~Scoped(Handler(n)) /\ Handler(n).node = n
  BY <1>0, NewHandler
<1>4. cd \in Seq(HandlerType) /\ Extended(mid, cd, Handler(n)) /\ cd # << >>
  BY <1>2, <1>3, AppendIs
<1> HIDE DEF cd
<1>5. Replaced(ct, mid, f)
  BY <1>0, <1>1, <1>2, ReplaceIs
<1>6. ControlOK(out, cur, mk, here, mid)
  BY <1>0, <1>2, <1>5, ControlReplaced
<1>7. Len(mid) = Len(ct) /\ mid[Len(mid)] = f
  BY <1>5 DEF Replaced
<1>8. ControlOK(out, cur, mk, here, cd)
  <2>1. n # ProgramNode
    BY <1>0, NodeFacts
  <2> QED
    BY <1>2, <1>3, <1>4, <1>6, <1>7, <2>1, <1>0, ControlExtended
<1>9. Len(cd) = Len(ct) + 1 /\ cd[Len(cd)] = Handler(n) /\ Popped(cd, mid)
  <2>1. Len(cd) = Len(mid) + 1 /\ Len(mid) \in Nat
    BY <1>2, <1>4 DEF Extended
  <2>2. Len(cd) - 1 = Len(mid)
    BY <2>1
  <2> QED
    BY <1>4, <1>7, <2>1, <2>2 DEF Extended, Popped
<1>10. ScopedIn(cd) = ScopedIn(mid) /\ OpenJumps(cd) = OpenJumps(mid)
  BY <1>2, <1>3, <1>4, <1>9, <1>0, ScopedPopped
<1>11. Popped(mid, fr)
  BY <1>0, <1>1, <1>2, <1>5, ReplacedParts
<1>12. Cardinality(ScopedIn(mid)) = Cardinality(ScopedIn(ct)) /\ OpenJumps(mid) = OpenJumps(ct)
  <2>1. CASE Scoped(f)
    <3>1. LastJump(f) = LastJump(ct[Len(ct)])
      BY <1>0, <2>1 DEF LastJump
    <3>2. /\ Cardinality(ScopedIn(ct)) = Cardinality(ScopedIn(fr)) + 1
          /\ OpenJumps(ct) = OpenJumps(fr) \cup {LastJump(ct[Len(ct)]) + 1}
      BY <1>1, <2>1, <1>0, ScopedPopped
    <3>3. /\ Cardinality(ScopedIn(mid)) = Cardinality(ScopedIn(fr)) + 1
          /\ OpenJumps(mid) = OpenJumps(fr) \cup {LastJump(f) + 1}
      <4>1. Scoped(mid[Len(mid)])
        BY <1>0, <1>2, <1>7, <1>11, <2>1
      <4>2. OpenJumps(mid) = OpenJumps(fr) \cup {LastJump(mid[Len(mid)]) + 1}
            /\ Cardinality(ScopedIn(mid)) = Cardinality(ScopedIn(fr)) + 1
        BY <1>1, <1>2, <1>7, <1>11, <2>1, <4>1, <1>0, ScopedPopped
      <4> QED
        BY <4>2, <1>7
    <3> QED
      BY <3>1, <3>2, <3>3
  <2>2. CASE ~Scoped(f)
    BY <1>1, <1>2, <1>7, <1>11, <2>2, <1>0, ScopedPopped
  <2> QED
    BY <2>1, <2>2
<1> QED
  BY <1>1, <1>2, <1>4, <1>5, <1>8, <1>9, <1>10, <1>12 DEF fr, mid, cd

\* The innermost handler goes on; more functions may be marked and more code be emitted.
LEMMA BecomeControl ==
    ASSUME NEW out, NEW cur, NEW mk, NEW here, NEW ct, NEW f, GoesOn(out, cur, mk, here, ct, f)
    PROVE  LET fr  == SubSeq(ct, 1, Len(ct) - 1)
               mid == Append(fr, f)
           IN  /\ fr \in Seq(HandlerType) /\ Popped(ct, fr) /\ Popped(mid, fr)
               /\ mid \in Seq(HandlerType) /\ Replaced(ct, mid, f) /\ mid # << >>
               /\ ControlOK(out, cur, mk, here, mid) /\ Len(ct) \in Nat \ {0}
               /\ SameBody(ct, f) =>
                    Cardinality(ScopedIn(mid)) = Cardinality(ScopedIn(ct)) /\ OpenJumps(mid) = OpenJumps(ct)
<1> DEFINE fr  == SubSeq(ct, 1, Len(ct) - 1)
           mid == Append(fr, f)
<1>0. /\ ControlOK(out, cur, mk, here, ct) /\ ct # << >>
      /\ f \in HandlerType /\ HandlerOK(out, cur, mk, here, f) /\ f.node = ct[Len(ct)].node
  BY DEF GoesOn
<1>1. ct \in Seq(HandlerType) /\ fr \in Seq(HandlerType) /\ Popped(ct, fr) /\ Len(ct) \in Nat \ {0}
  BY <1>0, TopFacts, FrontIs
<1> HIDE DEF fr
<1>2. mid \in Seq(HandlerType) /\ Extended(fr, mid, f) /\ mid # << >>
  BY <1>0, <1>1, AppendIs
<1> HIDE DEF mid
<1>3. Replaced(ct, mid, f)
  BY <1>0, <1>1, <1>2, ReplaceIs
<1>4. ControlOK(out, cur, mk, here, mid)
  BY <1>0, <1>2, <1>3, ControlReplaced
<1>5. Len(mid) = Len(ct) /\ mid[Len(mid)] = f
  BY <1>3 DEF Replaced
<1>6. Popped(mid, fr)
  BY <1>0, <1>1, <1>2, <1>3, ReplacedParts
<1>7. ASSUME SameBody(ct, f)
      PROVE  Cardinality(ScopedIn(mid)) = Cardinality(ScopedIn(ct)) /\ OpenJumps(mid) = OpenJumps(ct)
  <2>0. (Scoped(f) <=> Scoped(ct[Len(ct)])) /\ (Scoped(f) => f.jumps = ct[Len(ct)].jumps)
    BY <1>7 DEF SameBody
  <2>1. CASE Scoped(f)
    <3>1. LastJump(f) = LastJump(ct[Len(ct)])
      BY <2>0, <2>1 DEF LastJump
    <3>2. /\ Cardinality(ScopedIn(ct)) = Cardinality(ScopedIn(fr)) + 1
          /\ OpenJumps(ct) = OpenJumps(fr) \cup {LastJump(ct[Len(ct)]) + 1}
      BY <1>1, <2>1, <1>7, <1>0, <2>0, ScopedPopped
    <3>3. /\ Cardinality(ScopedIn(mid)) = Cardinality(ScopedIn(fr)) + 1
          /\ OpenJumps(mid) = OpenJumps(fr) \cup {LastJump(f) + 1}
      <4>1. Scoped(mid[Len(mid)])
        BY <1>0, <1>2, <1>5, <1>6, <2>1
      <4>2. OpenJumps(mid) = OpenJumps(fr) \cup {LastJump(mid[Len(mid)]) + 1}
            /\ Cardinality(ScopedIn(mid)) = Cardinality(ScopedIn(fr)) + 1
        BY <1>1, <1>2, <1>5, <1>6, <2>1, <4>1, <1>0, <2>0, ScopedPopped
      <4> QED
        BY <4>2, <1>5
    <3> QED
      BY <3>1, <3>2, <3>3
  <2>2. CASE ~Scoped(f)
    BY <1>1, <1>2, <1>5, <1>6, <1>7, <2>2, <1>0, <2>0, ScopedPopped
  <2> QED
    BY <2>1, <2>2
<1> QED
  BY <1>1, <1>2, <1>3, <1>4, <1>6, <1>7 DEF fr, mid

\* The innermost handler, which is not the program's, returns.
LEMMA ReturnControl ==
    ASSUME NEW out, NEW cur, NEW mk, NEW here, NEW ct, ControlOK(out, cur, mk, here, ct), ct # << >>,
           ct[Len(ct)].node # ProgramNode
    PROVE  LET cd == SubSeq(ct, 1, Len(ct) - 1)
           IN  /\ cd \in Seq(HandlerType) /\ Popped(ct, cd) /\ cd # << >> /\ ControlOK(out, cur, mk, here, cd)
               /\ Len(ct) \in Nat /\ Len(ct) > 1 /\ Len(cd) = Len(ct) - 1 /\ cd[Len(cd)] = ct[Len(ct) - 1]
               /\ CallsNode(cur, cd[Len(cd)], ct[Len(ct)].node) /\ ct[Len(ct)].node \in Node
               /\ ct[Len(ct)].node.type # "function_return" => ~Finished(cur, cd)
<1> DEFINE cd == SubSeq(ct, 1, Len(ct) - 1)
           f  == ct[Len(ct)]
<1>1. ct \in Seq(HandlerType) /\ cd \in Seq(HandlerType) /\ Popped(ct, cd) /\ Len(ct) \in Nat \ {0}
  BY TopFacts, FrontIs
<1> HIDE DEF cd
<1>2. ControlOK(out, cur, mk, here, cd)
  BY <1>1, ControlPopped
<1>3. Len(ct) # 1
  BY TopFacts
<1>4. Len(ct) > 1 /\ Len(cd) = Len(ct) - 1 /\ Len(ct) - 1 \in 1 .. Len(ct) - 1 /\ cd # << >>
  BY <1>1, <1>3 DEF Popped
<1>5. cd[Len(cd)] = ct[Len(ct) - 1]
  BY <1>4, <1>1 DEF Popped
<1>6. CallsNode(cur, cd[Len(cd)], f.node) /\ f.node \in Node
  BY <1>3, <1>5, TopFacts
<1>7. ASSUME f.node.type # "function_return", Finished(cur, cd) PROVE FALSE
  <2>1. cur # 1 /\ Len(cd) = 1 /\ cd[1].rest = << >>
    BY <1>4, <1>7 DEF Finished
  <2>2. cd[1].node = ProgramNode
    BY <1>2, <2>1, <1>4, TopFacts
  <2>3. HandlerOK(out, cur, mk, here, cd[1])
    BY <1>2, <2>1, <1>4, TopFacts
  <2>4. cd[1].at = "body"
    BY <2>2, <2>3, IsProgram DEF HandlerOK, Labels
  <2> QED
    BY <1>6, <1>7, <2>1, <2>2, <2>4 DEF CallsNode
<1> QED
  BY <1>1, <1>2, <1>4, <1>5, <1>6, <1>7 DEF cd

-------------------------------------------------------------------------------
(***************************************************************************)
(* Operands.                                                               *)
(***************************************************************************)
\* An operand remains one when the frame and the immediates grow.
LEMMA OperandLater ==
    ASSUME NEW i, NEW size \in Int, NEW n \in Int, NEW size2 \in Int, NEW n2 \in Int, size =< size2, n =< n2
    PROVE  (IsOperand(i, size, n) => IsOperand(i, size2, n2)) /\ (IsLocal(i, size) => IsLocal(i, size2))
<1>1. \A v \in 0 .. size - 1 : v \in 0 .. size2 - 1
  OBVIOUS
<1>2. \A v \in 0 .. n - 1 : v \in 0 .. n2 - 1
  OBVIOUS
<1> QED
  BY <1>1, <1>2 DEF IsOperand, IsLocal

LEMMA HeldPopped ==
    ASSUME NEW ct \in Seq(HandlerType), ct # << >>, NEW cd \in Seq(HandlerType), Popped(ct, cd), NEW size, NEW n,
           HeldOK(ct, size, n)
    PROVE  HeldOK(cd, size, n) /\ \A k \in 1 .. Len(ct[Len(ct)].indices) : IsOperand(ct[Len(ct)].indices[k], size, n)
<1>1. Len(ct) \in Nat \ {0} /\ Len(cd) = Len(ct) - 1 /\ Len(ct) \in 1 .. Len(ct)
  BY DEF Popped
<1>2. \A c \in 1 .. Len(cd) : c \in 1 .. Len(ct) /\ cd[c] = ct[c]
  BY <1>1 DEF Popped
<1> QED
  BY <1>1, <1>2 DEF HeldOK

LEMMA HeldExtended ==
    ASSUME NEW ct \in Seq(HandlerType), NEW f, NEW cd \in Seq(HandlerType), Extended(ct, cd, f), NEW size, NEW n,
           HeldOK(ct, size, n), \A k \in 1 .. Len(f.indices) : IsOperand(f.indices[k], size, n)
    PROVE  HeldOK(cd, size, n)
<1>1. Len(ct) \in Nat /\ Len(cd) = Len(ct) + 1 /\ cd[Len(ct) + 1] = f
  BY DEF Extended
<1>2. \A c \in 1 .. Len(cd) : c \in 1 .. Len(ct) \/ c = Len(ct) + 1
  BY <1>1
<1>3. \A c \in 1 .. Len(ct) : cd[c] = ct[c]
  BY DEF Extended
<1> QED
  BY <1>1, <1>2, <1>3 DEF HeldOK

LEMMA HeldLater ==
    ASSUME NEW ct, NEW size \in Int, NEW n \in Int, NEW size2 \in Int, NEW n2 \in Int, size =< size2, n =< n2,
           HeldOK(ct, size, n)
    PROVE  HeldOK(ct, size2, n2)
BY OperandLater DEF HeldOK

LEMMA HeldReplaced ==
    ASSUME NEW ct \in Seq(HandlerType), ct # << >>, NEW f, NEW cd \in Seq(HandlerType), Replaced(ct, cd, f), NEW size, NEW n,
           HeldOK(ct, size, n), \A k \in 1 .. Len(f.indices) : IsOperand(f.indices[k], size, n)
    PROVE  HeldOK(cd, size, n)
<1> DEFINE fr == SubSeq(ct, 1, Len(ct) - 1)
<1>1. fr \in Seq(HandlerType) /\ Popped(ct, fr)
  BY FrontIs
<1> HIDE DEF fr
<1> QED
  BY <1>1, HeldPopped, ReplacedParts, HeldExtended

\* What the handler of a node returns.
ReturnOK(n, i, size, m) ==
    /\ i # NoIndex => IsOperand(i, size, m)
    /\ IsNumber(n) => i # NoIndex
    /\ is_lvalue(n) => IsLocal(i, size)

\* It is what the caller waits for.
LEMMA ReturnedIsOK ==
    ASSUME NEW cur, NEW f \in HandlerType, NEW n \in Node, CallsNode(cur, f, n), f.at \in Labels(f.node.type),
           NEW i, NEW size, NEW m, ReturnOK(n, i, size, m)
    PROVE  IndexOK(f, i, size, m)
<1>1. f.node \in Node \/ f.node = ProgramNode
  BY DEF HandlerType
<1>2. CASE f.node = ProgramNode
  <2>1. f.at = "body"
    BY <1>2, IsProgram DEF Labels
  <2> QED
    BY <2>1 DEF IndexOK, NeedsIndex, OperandLabel, IsTarget
<1>3. CASE f.node \in Node /\ f.at \in OperandLabel
  <2>1. NeedsIndex(f) => i # NoIndex
    <3>1. IsLocal(i, size) => i # NoIndex
      BY DEF IsLocal, NoIndex, Index
    <3> SUFFICES ASSUME NeedsIndex(f) PROVE IsNumber(n) \/ is_lvalue(n)
      BY <3>1 DEF ReturnOK
    <3>2. CASE f.at = "rhs"
      <4>1. n = f.node.rhs /\ f.node.type \in Operators /\ f.node.type # "update_expression"
        <5>1. f.node.type \in Operators
          BY <1>3, <3>2, NodeTypes DEF Labels, Operators
        <5> QED
          BY <3>2, <5>1 DEF CallsNode, NeedsIndex
      <4> QED
        BY <1>3, <4>1, NodeFacts DEF Operators
    <3>3. CASE f.at = "lhs"
      <4>1. n = f.node.lhs /\ f.node.type \in Operators
        BY <1>3, <3>3, NodeTypes DEF Labels, Operators, CallsNode
      <4>2. f.node.type = "update_expression" => is_lvalue(n)
        BY <1>3, <4>1, NodeFacts DEF is_lvalue
      <4> QED
        BY <1>3, <4>1, <4>2, NodeFacts DEF Operators
    <3>4. CASE f.at = "operand"
      <4>1. n = f.node.operand /\ f.node.type = "unary_operator"
        BY <1>3, <3>4, NodeTypes DEF Labels, Operators, CallsNode
      <4> QED
        BY <1>3, <4>1, NodeFacts
    <3>5. CASE f.at = "argument"
      BY <3>5 DEF CallsNode
    <3>6. CASE f.at = "value"
      <4>1. n = f.node.return_value /\ f.node.type = "function_return"
        BY <1>3, <3>6, NodeTypes DEF Labels, Operators, CallsNode
      <4> QED
        BY <1>3, <4>1, NodeFacts
    <3> QED
      BY <1>3, <3>2, <3>3, <3>4, <3>5, <3>6 DEF OperandLabel
  <2>2. IsTarget(f) => is_lvalue(n)
    <3> SUFFICES ASSUME IsTarget(f) PROVE is_lvalue(n)
      OBVIOUS
    <3>1. f.at = "lhs" /\ f.node.type \in {"assignment", "update_expression"} /\ n = f.node.lhs
      BY DEF IsTarget, CallsNode
    <3> QED
      BY <1>3, <3>1, NodeFacts DEF is_lvalue
  <2> QED
    BY <2>1, <2>2 DEF IndexOK, ReturnOK
<1>4. CASE f.at \notin OperandLabel
  BY <1>4 DEF IndexOK, NeedsIndex, OperandLabel, IsTarget
<1> QED
  BY <1>1, <1>2, <1>3, <1>4

-------------------------------------------------------------------------------
(***************************************************************************)
(* Code that grows.                                                        *)
(***************************************************************************)
\* e is c with d after it.
Concatenated(c, d, e) ==
    /\ Len(e) = Len(c) + Len(d) /\ Len(c) \in Nat /\ Len(d) \in Nat
    /\ \A k \in 1 .. Len(c) : e[k] = c[k]
    /\ \A k \in 1 .. Len(d) : e[Len(c) + k] = d[k]
    /\ \A k \in 1 .. Len(e) : k \in 1 .. Len(c) \/ \E j \in 1 .. Len(d) : k = Len(c) + j

LEMMA ConcatIs ==
    ASSUME NEW S, NEW c \in Seq(S), NEW d \in Seq(S)
    PROVE  /\ c \o d \in Seq(S) /\ Len(c \o d) = Len(c) + Len(d) /\ Len(c) \in Nat /\ Len(d) \in Nat
           /\ \A k \in 1 .. Len(c) : (c \o d)[k] = c[k]
           /\ \A k \in 1 .. Len(d) : (c \o d)[Len(c) + k] = d[k]
           /\ \A k \in 1 .. Len(c \o d) : k \in 1 .. Len(c) \/ \E j \in 1 .. Len(d) : k = Len(c) + j
<1>1. /\ c \o d \in Seq(S) /\ Len(c \o d) = Len(c) + Len(d) /\ Len(c) \in Nat /\ Len(d) \in Nat
      /\ \A k \in 1 .. Len(c) : (c \o d)[k] = c[k]
  OBVIOUS
<1>2. ASSUME NEW k \in 1 .. Len(d) PROVE (c \o d)[Len(c) + k] = d[k]
  <2>1. Len(c) + k \in 1 .. Len(c) + Len(d) /\ Len(c) + k > Len(c) /\ Len(c) + k - Len(c) = k
    BY <1>1
  <2> QED
    BY <2>1
<1>3. ASSUME NEW k \in 1 .. Len(c \o d), k \notin 1 .. Len(c) PROVE \E j \in 1 .. Len(d) : k = Len(c) + j
  <2>1. k - Len(c) \in 1 .. Len(d) /\ k = Len(c) + (k - Len(c))
    BY <1>1, <1>3
  <2> QED
    BY <2>1
<1> QED
  BY <1>1, <1>2, <1>3

\* gr has the frames fr with code added to the last one, and another size of it.
Grown(fr, gr, added, size) ==
    /\ Len(gr) = Len(fr)
    /\ \A f \in 1 .. Len(fr) - 1 : gr[f] = fr[f]
    /\ gr[Len(fr)].size = size
    /\ gr[Len(fr)].code = fr[Len(fr)].code \o added

LEMMA FrameFacts ==
    ASSUME NEW fr \in Seq(FrameType), fr # << >>
    PROVE  /\ Len(fr) \in Nat \ {0} /\ fr[Len(fr)] \in FrameType
           /\ fr[Len(fr)].size \in 0 .. Byte - 1 /\ fr[Len(fr)].code \in Seq(InstructionType)
           /\ Len(fr[Len(fr)].code) \in Nat
<1>1. Len(fr) \in Nat \ {0} /\ fr[Len(fr)] \in FrameType
  OBVIOUS
<1> DEFINE f == fr[Len(fr)]
<1>2. f \in FrameType
  BY <1>1
<1> HIDE DEF f
<1>3. f.size \in 0 .. Byte - 1 /\ f.code \in Seq(InstructionType)
  BY <1>2, SMTT(30) DEF FrameType
<1>4. Len(f.code) \in Nat
  BY <1>3
<1> QED
  BY <1>1, <1>3, <1>4 DEF f

LEMMA NewFrame ==
    ASSUME NEW fr \in Seq(FrameType), fr # << >>, NEW size \in 0 .. Byte - 1, NEW c \in Seq(InstructionType),
           NEW g, g = [size |-> size, code |-> c]
    PROVE  /\ [fr EXCEPT ![Len(fr)] = g] \in Seq(FrameType)
           /\ Len([fr EXCEPT ![Len(fr)] = g]) = Len(fr)
           /\ \A f \in 1 .. Len(fr) - 1 : [fr EXCEPT ![Len(fr)] = g][f] = fr[f]
           /\ [fr EXCEPT ![Len(fr)] = g][Len(fr)] = g
           /\ g.size = size /\ g.code = c
<1>1. g \in FrameType /\ g.size = size /\ g.code = c
  BY DEF FrameType
<1> HIDE DEF FrameType
<1>2. [fr EXCEPT ![Len(fr)] = g] \in Seq(FrameType) /\ Replaced(fr, [fr EXCEPT ![Len(fr)] = g], g)
  BY <1>1, ExceptIs
<1> QED
  BY <1>1, <1>2 DEF Replaced

LEMMA FrameExcept ==
    ASSUME NEW f \in FrameType, NEW c, NEW size
    PROVE  /\ f = [size |-> f.size, code |-> f.code]
           /\ [f EXCEPT !.code = c] = [size |-> f.size, code |-> c]
           /\ [f EXCEPT !.size = size] = [size |-> size, code |-> f.code]
BY DEF FrameType

LEMMA ExceptTwice ==
    ASSUME NEW D, NEW S, NEW q \in [D -> S], NEW n \in D, NEW g, NEW h
    PROVE  [[q EXCEPT ![n] = g] EXCEPT ![n] = h] = [q EXCEPT ![n] = h] /\ [q EXCEPT ![n] = g][n] = g
<1> DEFINE r == [q EXCEPT ![n] = g]
           s == [r EXCEPT ![n] = h]
           t == [q EXCEPT ![n] = h]
<1>1. DOMAIN s = D /\ DOMAIN t = D /\ r[n] = g
  OBVIOUS
<1>2. \A k \in D : s[k] = t[k]
  OBVIOUS
<1>3. s = t
  <2>1. s = [k \in D |-> s[k]] /\ t = [k \in D |-> t[k]]
    OBVIOUS
  <2> HIDE DEF s, t
  <2> QED
    BY <1>2, <2>1
<1> QED
  BY <1>1, <1>3

\* A frame of its own.
LEMMA FrameReplaced ==
    ASSUME NEW fr \in Seq(FrameType), fr # << >>, NEW size \in 0 .. Byte - 1, NEW added \in Seq(InstructionType),
           NEW gr, gr = [fr EXCEPT ![Len(fr)] = [size |-> size, code |-> fr[Len(fr)].code \o added]]
    PROVE  gr \in Seq(FrameType) /\ Grown(fr, gr, added, size)
<1> DEFINE c == fr[Len(fr)].code \o added
           g == [size |-> size, code |-> c]
<1>1. c \in Seq(InstructionType)
  BY FrameFacts, ConcatIs
<1>2. g = [size |-> size, code |-> c] /\ gr = [fr EXCEPT ![Len(fr)] = g]
  OBVIOUS
<1> HIDE DEF g, c
<1> DEFINE r == [fr EXCEPT ![Len(fr)] = g]
<1>4. r \in Seq(FrameType) /\ Len(r) = Len(fr) /\ (\A f \in 1 .. Len(fr) - 1 : r[f] = fr[f])
      /\ r[Len(fr)] = g /\ g.size = size /\ g.code = c
  BY <1>1, <1>2, NewFrame
<1>5. gr = r
  BY <1>2
<1> HIDE DEF r
<1>3. gr \in Seq(FrameType) /\ Len(gr) = Len(fr) /\ (\A f \in 1 .. Len(fr) - 1 : gr[f] = fr[f])
      /\ gr[Len(fr)] = g /\ g.size = size /\ g.code = c
  BY <1>4, <1>5
<1> QED
  BY <1>3 DEF Grown, c

\* What emitting, allocating or both make of the frames.
LEMMA EmittedGrows ==
    ASSUME frames \in Seq(FrameType), frames # << >>, NEW added \in Seq(InstructionType), NEW size \in 0 .. Byte - 1
    PROVE  /\ Emitted(added) \in Seq(FrameType)
           /\ Grown(frames, Emitted(added), added, frames[Len(frames)].size)
           /\ [Emitted(added) EXCEPT ![Current].size = size] \in Seq(FrameType)
           /\ Grown(frames, [Emitted(added) EXCEPT ![Current].size = size], added, size)
           /\ [frames EXCEPT ![Current].size = size] \in Seq(FrameType)
           /\ Grown(frames, [frames EXCEPT ![Current].size = size], << >>, size)
<1> DEFINE n == Len(frames)
           f == frames[n]
           c == f.code \o added
           g == [size |-> f.size, code |-> c]
           h == [size |-> size, code |-> c]
           e == [size |-> size, code |-> f.code]
<1>1. f \in FrameType /\ f.size \in 0 .. Byte - 1 /\ f.code \in Seq(InstructionType) /\ n \in 1 .. n
      /\ n \in 1 .. Len(frames)
  BY FrameFacts
<1>2. c \in Seq(InstructionType)
  BY <1>1, ConcatIs
<1>3. Emitted(added) = [frames EXCEPT ![n] = [f EXCEPT !.code = c]]
  BY DEF Emitted, Current
<1>4. [f EXCEPT !.code = c] = g /\ [f EXCEPT !.size = size] = e
  BY <1>1, FrameExcept
<1>5. [frames EXCEPT ![Current].size = size] = [frames EXCEPT ![n] = e]
  BY <1>4 DEF Current
<1>6. [Emitted(added) EXCEPT ![Current].size = size] = [frames EXCEPT ![n] = h]
  <2>1. g \in FrameType /\ g.code = c
    BY <1>1, <1>2 DEF FrameType
  <2>2. [g EXCEPT !.size = size] = [size |-> size, code |-> g.code]
    <3> HIDE DEF g
    <3> QED
      BY <2>1, FrameExcept
  <2>3. Emitted(added) = [frames EXCEPT ![n] = g]
    BY <1>3, <1>4
  <2>4. [frames EXCEPT ![n] = g][n] = g /\ [[frames EXCEPT ![n] = g] EXCEPT ![n] = h] = [frames EXCEPT ![n] = h]
    <3> HIDE DEF g, h, n
    <3> QED
      <4>1. frames \in [1 .. Len(frames) -> FrameType]
        BY LenProperties
      <4> QED
        BY <1>1, <4>1, ExceptTwice
  <2>5. [Emitted(added) EXCEPT ![Current].size = size] = [Emitted(added) EXCEPT ![n] = [Emitted(added)[n] EXCEPT !.size = size]]
    BY DEF Current
  <2>6. [g EXCEPT !.size = size] = h
    BY <2>1, <2>2
  <2> HIDE DEF g, h, n
  <2> QED
    BY <2>3, <2>4, <2>5, <2>6
<1>7. f.code \o << >> = f.code
  BY <1>1
<1>8. << >> \in Seq(InstructionType)
  OBVIOUS
<1>9. /\ Emitted(added) \in Seq(FrameType) /\ Grown(frames, Emitted(added), added, f.size)
  <2>1. Emitted(added) = [frames EXCEPT ![n] = g]
    BY <1>3, <1>4
  <2> QED
    BY <1>1, <2>1, FrameReplaced
<1>10. /\ [Emitted(added) EXCEPT ![Current].size = size] \in Seq(FrameType)
       /\ Grown(frames, [Emitted(added) EXCEPT ![Current].size = size], added, size)
  BY <1>6, FrameReplaced
<1>11. /\ [frames EXCEPT ![Current].size = size] \in Seq(FrameType)
       /\ Grown(frames, [frames EXCEPT ![Current].size = size], << >>, size)
  <2>1. [frames EXCEPT ![Current].size = size] = [frames EXCEPT ![n] = [size |-> size, code |-> f.code \o << >>]]
    BY <1>5, <1>7
  <2> QED
    BY <1>8, <2>1, FrameReplaced
<1> QED
  BY <1>9, <1>10, <1>11

LEMMA SameGrows ==
    ASSUME NEW fr \in Seq(FrameType), fr # << >>
    PROVE  Grown(fr, fr, << >>, fr[Len(fr)].size)
BY FrameFacts DEF Grown

\* Instructions remain what they must be when the frame, the immediates and the functions
\* become more.
LEMMA InstructionLater ==
    ASSUME NEW out, NEW f, NEW ins, NEW size \in Int, NEW n \in Int, NEW m \in Int,
           NEW size2 \in Int, NEW n2 \in Int, NEW m2 \in Int, size =< size2, n =< n2, m =< m2,
           InstructionOK(out, f, ins, size, n, m)
    PROVE  InstructionOK(out, f, ins, size2, n2, m2)
<1>1. \A i : (IsOperand(i, size, n) => IsOperand(i, size2, n2)) /\ (IsLocal(i, size) => IsLocal(i, size2))
  BY OperandLater
<1>2. \A v \in 1 .. m : v \in 1 .. m2
  OBVIOUS
<1> QED
  BY <1>1, <1>2 DEF InstructionOK

LEMMA CodeGrown ==
    ASSUME NEW out, NEW fr \in Seq(FrameType), fr # << >>, NEW gr \in Seq(FrameType),
           NEW added \in Seq(InstructionType), NEW size \in Int, Grown(fr, gr, added, size),
           NEW n \in Int, NEW m \in Int, NEW n2 \in Int, NEW m2 \in Int, n =< n2, m =< m2,
           fr[Len(fr)].size =< size, CodeOK(out, fr, n, m),
           \A k \in 1 .. Len(added) : InstructionOK(out, Len(fr), added[k], size, n2, m2)
    PROVE  CodeOK(out, gr, n2, m2) /\ fr[1].size =< gr[1].size
<1>1. Len(fr) \in Nat \ {0} /\ Len(gr) = Len(fr)
  BY DEF Grown
<1>2. ASSUME NEW f \in 1 .. Len(fr), f # Len(fr) PROVE FrameOK(out, f, gr[f], n2, m2) /\ gr[f] = fr[f]
  <2>1. f \in 1 .. Len(fr) - 1
    BY <1>1, <1>2
  <2>2. fr[f] \in FrameType
    OBVIOUS
  <2>3. gr[f] = fr[f] /\ FrameOK(out, f, fr[f], n, m) /\ fr[f].size \in 0 .. Byte - 1 /\ fr[f].code \in Seq(InstructionType)
    BY <2>1, <2>2 DEF Grown, CodeOK, FrameType
  <2> QED
    BY <2>3, InstructionLater, SMTT(30) DEF FrameOK
<1>3. FrameOK(out, Len(fr), gr[Len(fr)], n2, m2)
  <2> DEFINE F == fr[Len(fr)]
             G == gr[Len(fr)]
  <2>1. F.size \in 0 .. Byte - 1 /\ F.code \in Seq(InstructionType) /\ FrameOK(out, Len(fr), F, n, m)
    BY FrameFacts DEF CodeOK
  <2>2. G.size = size /\ G.code = F.code \o added
    BY DEF Grown
  <2>3. F.size >= 1 /\ F.size =< size /\ F.size \in Int
    BY <2>1 DEF FrameOK
  <2>4. \A k \in 1 .. Len(F.code) : InstructionOK(out, Len(fr), F.code[k], size, n2, m2)
    BY <2>1, <2>3, InstructionLater DEF FrameOK
  <2>5. ASSUME NEW k \in 1 .. Len(F.code \o added)
        PROVE  InstructionOK(out, Len(fr), (F.code \o added)[k], size, n2, m2)
    <3> DEFINE c == F.code
    <3>1. c \in Seq(InstructionType) /\ k \in 1 .. Len(c \o added)
      BY <2>1
    <3> HIDE DEF c
    <3>2. /\ \A j \in 1 .. Len(c) : (c \o added)[j] = c[j]
          /\ \A j \in 1 .. Len(added) : (c \o added)[Len(c) + j] = added[j]
          /\ k \in 1 .. Len(c) \/ \E j \in 1 .. Len(added) : k = Len(c) + j
      BY <3>1, ConcatIs
    <3>3. \A j \in 1 .. Len(c) : InstructionOK(out, Len(fr), c[j], size, n2, m2)
      BY <2>4 DEF c
    <3>4. InstructionOK(out, Len(fr), (c \o added)[k], size, n2, m2)
      BY <3>2, <3>3
    <3> QED
      BY <3>4 DEF c
  <2> QED
    BY <2>2, <2>3, <2>5, SMTT(30) DEF FrameOK
<1>4. fr[1].size =< gr[1].size
  <2>1. CASE Len(fr) = 1
    BY <2>1 DEF Grown
  <2>2. CASE Len(fr) # 1
    <3>1. 1 \in 1 .. Len(fr) /\ gr[1] = fr[1] /\ fr[1] \in FrameType
      BY <1>1, <1>2, <2>2
    <3> QED
      BY <3>1 DEF FrameType
  <2> QED
    BY <2>1, <2>2
<1> QED
  BY <1>1, <1>2, <1>3, <1>4 DEF CodeOK

LEMMA ConcatenatedIs ==
    ASSUME NEW S, NEW c \in Seq(S), NEW d \in Seq(S)
    PROVE  Concatenated(c, d, c \o d)
BY ConcatIs DEF Concatenated

\* Jumps that go somewhere still do, and more of them can be open.
LEMMA OpenGrown ==
    ASSUME NEW c \in Seq(InstructionType), NEW d \in Seq(InstructionType), NEW open, OpenCode(open, c),
           NEW more, open \subseteq more,
           \A k \in 1 .. Len(d) : Len(c) + k \in more \/ d[k].op \notin JumpOp,
           \A k \in more : k \in open \/ \E j \in 1 .. Len(d) : k = Len(c) + j /\ d[j].op \in JumpOp
    PROVE  OpenCode(more, c \o d)
<1> DEFINE e == c \o d
<1>0. Concatenated(c, d, c \o d)
  BY ConcatenatedIs
<1> HIDE DEF e
<1>9. Concatenated(c, d, e)
  BY <1>0 DEF e
<1>1. /\ Len(e) = Len(c) + Len(d) /\ Len(c) \in Nat /\ Len(d) \in Nat
      /\ \A k \in 1 .. Len(c) : e[k] = c[k]
      /\ \A k \in 1 .. Len(e) : k \in 1 .. Len(c) \/ \E j \in 1 .. Len(d) : k = Len(c) + j
      /\ \A j \in 1 .. Len(d) : e[Len(c) + j] = d[j]
  BY <1>9, Zenon DEF Concatenated
<1>2. ASSUME NEW k \in 1 .. Len(e) PROVE k \in more \/ JumpClosed(e, k, Len(e) + 1)
  <2>1. CASE k \in 1 .. Len(c)
    <3>1. e[k] = c[k] /\ \A v \in 1 .. Len(c) + 1 : v \in 1 .. Len(e) + 1
      BY <1>1, <2>1
    <3>2. k \in open \/ JumpClosed(c, k, Len(c) + 1)
      BY <2>1 DEF OpenCode
    <3> QED
      BY <3>1, <3>2 DEF JumpClosed
  <2>2. CASE \E j \in 1 .. Len(d) : k = Len(c) + j
    <3>1. PICK j \in 1 .. Len(d) : k = Len(c) + j
      BY <2>2
    <3> QED
      BY <1>1, <3>1 DEF JumpClosed
  <2> QED
    BY <1>1, <2>1, <2>2
<1>3. ASSUME NEW k \in more PROVE k \in 1 .. Len(e) /\ e[k].op \in JumpOp
  <2>1. CASE k \in open
    <3>1. k \in 1 .. Len(c) /\ c[k].op \in JumpOp
      BY <2>1 DEF OpenCode
    <3> QED
      BY <1>1, <3>1
  <2>2. CASE k \notin open
    <3>1. PICK j \in 1 .. Len(d) : k = Len(c) + j /\ d[j].op \in JumpOp
      BY <2>2
    <3> QED
      BY <1>1, <3>1
  <2> QED
    BY <2>1, <2>2
<1> QED
  BY <1>2, <1>3 DEF OpenCode, e

\* The last instruction is added.
LEMMA CompleteGrown ==
    ASSUME NEW c \in Seq(InstructionType), NEW d \in Seq(InstructionType), OpenCode({}, c),
           d # << >>, \A k \in 1 .. Len(d) : d[k].op \notin JumpOp,
           NEW f, d[Len(d)].op = IF f = 1 THEN "hlt" ELSE "ret"
    PROVE  CompleteCode(f, c \o d)
<1> DEFINE e == c \o d
<1>1. /\ Len(e) = Len(c) + Len(d) /\ Len(c) \in Nat /\ Len(d) \in Nat
      /\ \A k \in 1 .. Len(c) : e[k] = c[k]
      /\ \A j \in 1 .. Len(d) : e[Len(c) + j] = d[j]
      /\ \A k \in 1 .. Len(e) : k \in 1 .. Len(c) \/ \E j \in 1 .. Len(d) : k = Len(c) + j
      /\ e \in Seq(InstructionType)
  BY ConcatIs
<1> HIDE DEF e
<1>2. Len(d) \in 1 .. Len(d) /\ e # << >>
  BY <1>1
<1>3. e[Len(e)].op = IF f = 1 THEN "hlt" ELSE "ret"
  BY <1>1, <1>2
<1>4. ASSUME NEW k \in 1 .. Len(e) PROVE JumpClosed(e, k, Len(e))
  <2>1. CASE k \in 1 .. Len(c)
    <3>1. e[k] = c[k] /\ \A v \in 1 .. Len(c) + 1 : v \in 1 .. Len(e)
      BY <1>1, <1>2, <2>1
    <3>2. JumpClosed(c, k, Len(c) + 1)
      BY <2>1 DEF OpenCode
    <3> QED
      BY <3>1, <3>2 DEF JumpClosed
  <2>2. CASE \E j \in 1 .. Len(d) : k = Len(c) + j
    <3>1. PICK j \in 1 .. Len(d) : k = Len(c) + j
      BY <2>2
    <3> QED
      BY <1>1, <3>1 DEF JumpClosed
  <2> QED
    BY <1>1, <2>1, <2>2
<1> QED
  BY <1>2, <1>3, <1>4 DEF CompleteCode, e

\* The frame grows while it is being assembled.
LEMMA FramesGrown ==
    ASSUME NEW fr \in Seq(FrameType), fr # << >>, NEW gr, NEW added \in Seq(InstructionType), NEW size,
           Grown(fr, gr, added, size), NEW ct, NEW cd, FramesOK(fr, ct), ~Finished(Len(fr), ct),
           ~Finished(Len(fr), cd), OpenJumps(ct) \subseteq OpenJumps(cd),
           \A k \in 1 .. Len(added) :
             Len(fr[Len(fr)].code) + k \in OpenJumps(cd) \/ added[k].op \notin JumpOp,
           \A k \in OpenJumps(cd) : \/ k \in OpenJumps(ct)
                                    \/ \E j \in 1 .. Len(added) :
                                         k = Len(fr[Len(fr)].code) + j /\ added[j].op \in JumpOp
    PROVE  FramesOK(gr, cd)
<1>1. fr[Len(fr)].code \in Seq(InstructionType)
  BY FrameFacts
<1>2. OpenCode(OpenJumps(ct), fr[Len(fr)].code)
  BY DEF FramesOK
<1>3. OpenCode(OpenJumps(cd), gr[Len(fr)].code)
  BY <1>1, <1>2, OpenGrown DEF Grown
<1> QED
  BY <1>3 DEF FramesOK, Grown

\* The last instruction of the frame is emitted.
LEMMA FramesFinished ==
    ASSUME NEW fr \in Seq(FrameType), fr # << >>, NEW gr, NEW added \in Seq(InstructionType), NEW size,
           Grown(fr, gr, added, size), NEW ct, NEW cd, FramesOK(fr, ct), ~Finished(Len(fr), ct),
           Finished(Len(fr), cd), OpenJumps(ct) = {}, added # << >>,
           \A k \in 1 .. Len(added) : added[k].op \notin JumpOp,
           added[Len(added)].op = IF Len(fr) = 1 THEN "hlt" ELSE "ret"
    PROVE  FramesOK(gr, cd)
<1>1. fr[Len(fr)].code \in Seq(InstructionType)
  BY FrameFacts
<1>2. OpenCode({}, fr[Len(fr)].code)
  BY DEF FramesOK
<1>3. CompleteCode(Len(fr), gr[Len(fr)].code)
  BY <1>1, <1>2, CompleteGrown DEF Grown
<1> QED
  BY <1>3 DEF FramesOK, Grown

-------------------------------------------------------------------------------
(***************************************************************************)
(* Code in which a jump is given its offset.                               *)
(***************************************************************************)
\* gr has the frames fr but for the code of the last one.
Recoded(fr, gr, e) ==
    /\ Len(gr) = Len(fr)
    /\ \A f \in 1 .. Len(fr) - 1 : gr[f] = fr[f]
    /\ gr[Len(fr)].size = fr[Len(fr)].size
    /\ gr[Len(fr)].code = e

LEMMA RecodedIs ==
    ASSUME NEW fr \in Seq(FrameType), fr # << >>, NEW e \in Seq(InstructionType),
           NEW gr, gr = [fr EXCEPT ![Len(fr)].code = e]
    PROVE  gr \in Seq(FrameType) /\ Recoded(fr, gr, e)
<1> DEFINE f == fr[Len(fr)]
           g == [size |-> f.size, code |-> e]
           r == [fr EXCEPT ![Len(fr)] = g]
<1>1. f \in FrameType /\ f.size \in 0 .. Byte - 1
  BY FrameFacts
<1>2. [f EXCEPT !.code = e] = g
  BY <1>1, FrameExcept
<1>3. gr = r
  BY <1>2
<1>4. g = [size |-> f.size, code |-> e]
  OBVIOUS
<1> HIDE DEF g
<1>5. r \in Seq(FrameType) /\ Len(r) = Len(fr) /\ (\A k \in 1 .. Len(fr) - 1 : r[k] = fr[k])
      /\ r[Len(fr)] = g /\ g.size = f.size /\ g.code = e
  BY <1>1, <1>4, NewFrame
<1> HIDE DEF r
<1> QED
  BY <1>3, <1>5 DEF Recoded

LEMMA CodeRecoded ==
    ASSUME NEW out, NEW fr \in Seq(FrameType), fr # << >>, NEW gr, NEW e, Recoded(fr, gr, e), NEW n, NEW m,
           CodeOK(out, fr, n, m), \A k \in 1 .. Len(e) : InstructionOK(out, Len(fr), e[k], fr[Len(fr)].size, n, m)
    PROVE  CodeOK(out, gr, n, m) /\ gr[1].size = fr[1].size
<1>1. Len(fr) \in Nat \ {0} /\ Len(gr) = Len(fr)
  BY DEF Recoded
<1>2. ASSUME NEW f \in 1 .. Len(fr), f # Len(fr) PROVE gr[f] = fr[f]
  <2>1. f \in 1 .. Len(fr) - 1
    BY <1>1, <1>2
  <2> QED
    BY <2>1 DEF Recoded
<1>3. FrameOK(out, Len(fr), gr[Len(fr)], n, m)
  <2>1. FrameOK(out, Len(fr), fr[Len(fr)], n, m)
    BY <1>1 DEF CodeOK
  <2> QED
    BY <2>1 DEF FrameOK, Recoded
<1>4. gr[1].size = fr[1].size
  <2>1. CASE Len(fr) = 1
    BY <2>1 DEF Recoded
  <2>2. CASE Len(fr) # 1
    BY <1>1, <1>2, <2>2
  <2> QED
    BY <2>1, <2>2
<1> QED
  BY <1>1, <1>2, <1>3, <1>4 DEF CodeOK

LEMMA FramesRecoded ==
    ASSUME NEW fr, NEW gr, NEW e, Recoded(fr, gr, e), NEW ct, NEW cd, FramesOK(fr, ct),
           ~Finished(Len(fr), ct), ~Finished(Len(fr), cd), OpenCode(OpenJumps(cd), e)
    PROVE  FramesOK(gr, cd)
BY DEF FramesOK, Recoded

LEMMA PatchedIs ==
    ASSUME NEW c \in Seq(InstructionType), NEW j \in Nat, j + 1 \in 1 .. Len(c), NEW d,
           make_jump_offset(j, d) \in AnyIndex
    PROVE  LET e == Patched(c, j, d)
           IN  /\ e \in Seq(InstructionType) /\ Len(e) = Len(c)
               /\ \A k \in 1 .. Len(c) : k # j + 1 => e[k] = c[k]
               /\ e[j + 1].op = c[j + 1].op /\ e[j + 1].a = make_jump_offset(j, d)
<1> DEFINE p == j + 1
           i == make_jump_offset(j, d)
           x == c[p]
           y == [op |-> x.op, a |-> i, b |-> x.b]
<1>1. x \in InstructionType
  OBVIOUS
<1>2. x = [op |-> x.op, a |-> x.a, b |-> x.b] /\ x.op \in CodeOp /\ x.b \in AnyIndex
  BY <1>1 DEF InstructionType
<1>3. [x EXCEPT !.a = i] = y
  <2> HIDE DEF x, i
  <2> QED
    BY <1>1 DEF InstructionType
<1>4. y \in InstructionType /\ y.op = x.op /\ y.a = i
  BY <1>2 DEF InstructionType
<1>5. Patched(c, j, d) = [c EXCEPT ![p] = y]
  BY <1>3 DEF Patched
<1> HIDE DEF y, x, i
<1>6. [c EXCEPT ![p] = y] \in Seq(InstructionType) /\ Len([c EXCEPT ![p] = y]) = Len(c)
      /\ (\A k \in 1 .. Len(c) : k # p => [c EXCEPT ![p] = y][k] = c[k]) /\ [c EXCEPT ![p] = y][p] = y
  <2> HIDE DEF p
  <2>1. p \in 1 .. Len(c)
    BY DEF p
  <2> QED
    BY <1>4, <2>1
<1> QED
  BY <1>4, <1>5, <1>6 DEF i, x

LEMMA OpenPatched ==
    ASSUME NEW c \in Seq(InstructionType), NEW j \in Nat, j + 1 \in 1 .. Len(c), make_jump_offset(j, Len(c)) \in AnyIndex,
           c[j + 1].op \in JumpOp, NEW open, OpenCode(open, c), NEW rest, rest \subseteq open,
           \A k \in open : k \in rest \/ k = j + 1 \/ JumpClosed(c, k, Len(c) + 1)
    PROVE  OpenCode(rest, Patched(c, j, Len(c)))
<1> DEFINE e == Patched(c, j, Len(c))
<1>1. /\ e \in Seq(InstructionType) /\ Len(e) = Len(c)
      /\ \A k \in 1 .. Len(c) : k # j + 1 => e[k] = c[k]
      /\ e[j + 1].op = c[j + 1].op /\ e[j + 1].a = make_jump_offset(j, Len(c))
  BY PatchedIs
<1> HIDE DEF e
<1>2. JumpClosed(e, j + 1, Len(e) + 1)
  <2>1. e[j + 1].a.type = "jump_offset" /\ e[j + 1].a.value = Len(c) - j
    BY <1>1 DEF make_jump_offset, Index
  <2>2. j + 1 + (Len(c) - j) \in 1 .. Len(c) + 1
    OBVIOUS
  <2> QED
    BY <1>1, <2>1, <2>2 DEF JumpClosed
<1>3. ASSUME NEW k \in 1 .. Len(e) PROVE k \in rest \/ JumpClosed(e, k, Len(e) + 1)
  <2>1. k = j + 1 \/ e[k] = c[k]
    BY <1>1
  <2>2. k \in open \/ JumpClosed(c, k, Len(c) + 1)
    BY <1>1 DEF OpenCode
  <2> QED
    BY <1>1, <1>2, <2>1, <2>2 DEF JumpClosed
<1>4. ASSUME NEW k \in rest PROVE k \in 1 .. Len(e) /\ e[k].op \in JumpOp
  BY <1>1 DEF OpenCode
<1> QED
  BY <1>3, <1>4 DEF OpenCode, e

-------------------------------------------------------------------------------
(***************************************************************************)
(* What is looked up.                                                      *)
(***************************************************************************)
LEMMA FindIs ==
    ASSUME scopes \in Seq(ScopeType), NEW name, has_identifier(name)
    PROVE  \E s \in 1 .. Len(scopes) : Binds(s, name) /\ find_identifier(name) = scopes[s].table[name]
<1> DEFINE S == { s \in 1 .. Len(scopes) : Binds(s, name) }
<1>1. S \subseteq 1 .. Len(scopes) /\ S # {} /\ Len(scopes) \in Nat
  BY DEF has_identifier
<1>2. PICK m \in S : \A k \in S : k =< m
  <2> HIDE DEF S
  <2> QED
    BY <1>1, Greatest
<1>3. m \in 1 .. Len(scopes) /\ Binds(m, name) /\ \A t \in m + 1 .. Len(scopes) : ~Binds(t, name)
  <2>1. ASSUME NEW t \in m + 1 .. Len(scopes), Binds(t, name) PROVE FALSE
    <3>1. t \in 1 .. Len(scopes) /\ t > m
      BY <1>1
    <3>2. t \in S
      BY <2>1, <3>1
    <3> QED
      BY <1>2, <3>1, <3>2
  <2> QED
    BY <2>1
<1> DEFINE P(s) == Binds(s, name) /\ \A t \in s + 1 .. Len(scopes) : ~Binds(t, name)
           c == CHOOSE s \in 1 .. Len(scopes) : P(s)
<1>4. c \in 1 .. Len(scopes) /\ P(c)
  <2>1. \E s \in 1 .. Len(scopes) : P(s)
    BY <1>3
  <2> HIDE DEF P
  <2> QED
    BY <2>1
<1>5. find_identifier(name) = scopes[c].table[name]
  BY DEF find_identifier
<1> QED
  BY <1>4, <1>5

\* The first position of a value in a sequence.
LEMMA FirstIs ==
    ASSUME NEW S, NEW q \in Seq(S), NEW v, \E k \in 1 .. Len(q) : q[k] = v
    PROVE  LET c == CHOOSE k \in DOMAIN q : q[k] = v /\ \A j \in 1 .. k - 1 : q[j] # v
           IN  c \in 1 .. Len(q) /\ q[c] = v /\ \A j \in 1 .. c - 1 : q[j] # v
<1> DEFINE T == { k \in 1 .. Len(q) : q[k] = v }
<1>1. DOMAIN q = 1 .. Len(q) /\ Len(q) \in Nat
  OBVIOUS
<1>2. T \subseteq Nat /\ T # {}
  OBVIOUS
<1>3. PICK m \in T : \A k \in T : m =< k
  <2> HIDE DEF T
  <2> QED
    BY <1>2, Least
<1>4. m \in DOMAIN q /\ q[m] = v
  BY <1>1
<1>5. ASSUME NEW j \in 1 .. m - 1, q[j] = v PROVE FALSE
  <2>1. j \in 1 .. Len(q) /\ j < m
    BY <1>1, <1>4
  <2>2. j \in T
    BY <1>5, <2>1
  <2>3. m =< j
    BY <1>3, <2>2
  <2> QED
    BY <1>1, <1>4, <2>1, <2>3
<1>6. \E k \in DOMAIN q : q[k] = v /\ \A j \in 1 .. k - 1 : q[j] # v
  BY <1>4, <1>5
<1> QED
  BY <1>1, <1>6

LEMMA ImmediateIs ==
    ASSUME immediates \in Seq(Value), NEW v \in Value
    PROVE  /\ WithImmediate(v) \in Seq(Value) /\ Prefix(immediates, WithImmediate(v))
           /\ ImmediateIndex(v) \in MemoryIndex /\ ImmediateIndex(v).type = "immediate"
           /\ ImmediateIndex(v).value \in 0 .. Len(WithImmediate(v)) - 1
           /\ Len(immediates) =< Byte /\ InRange(ImmediateIndex(v)) => Len(WithImmediate(v)) =< Byte
<1> DEFINE all == WithImmediate(v)
           c == CHOOSE k \in DOMAIN all : all[k] = v /\ \A j \in 1 .. k - 1 : all[j] # v
<1>1. /\ all \in Seq(Value) /\ Prefix(immediates, all) /\ Len(all) \in Nat
      /\ \E k \in 1 .. Len(all) : all[k] = v
      /\ all = immediates \/ (Len(all) = Len(immediates) + 1 /\ \A k \in 1 .. Len(immediates) : all[k] # v)
  <2> HIDE DEF c
  <2>1. CASE \E k \in DOMAIN immediates : immediates[k] = v
    <3>1. all = immediates
      BY <2>1 DEF WithImmediate
    <3> HIDE DEF all
    <3> QED
      BY <2>1, <3>1 DEF Prefix
  <2>2. CASE ~\E k \in DOMAIN immediates : immediates[k] = v
    <3>1. all = Append(immediates, v)
      BY <2>2 DEF WithImmediate
    <3> DEFINE n == Len(immediates)
    <3>2. n \in Nat /\ DOMAIN immediates = 1 .. n
      OBVIOUS
    <3>3. Append(immediates, v) \in Seq(Value) /\ Extended(immediates, Append(immediates, v), v)
      BY AppendIs
    <3> HIDE DEF all
    <3>4. all \in Seq(Value) /\ Len(all) = n + 1 /\ all[n + 1] = v /\ \A k \in 1 .. n : all[k] = immediates[k]
      BY <3>1, <3>3 DEF Extended
    <3>5. n + 1 \in 1 .. Len(all) /\ Len(all) \in Nat
      BY <3>2, <3>4
    <3> QED
      BY <2>2, <3>2, <3>4, <3>5 DEF Prefix
  <2> QED
    BY <2>1, <2>2
<1>2. ImmediateIndex(v) = Index("immediate", c - 1)
  BY Zenon DEF ImmediateIndex
<1> HIDE DEF all
<1>3. all \in Seq(Value) /\ \E k \in 1 .. Len(all) : all[k] = v
  BY <1>1
<1>4. c \in 1 .. Len(all) /\ \A j \in 1 .. c - 1 : all[j] # v
  BY <1>3, FirstIs
<1> HIDE DEF c
<1>5. c \in 1 .. Len(all) /\ Len(all) \in Nat
  BY <1>1, <1>4
<1>6. c - 1 \in Int /\ c - 1 \in 0 .. Len(all) - 1
  BY <1>5
<1>7. /\ ImmediateIndex(v) \in MemoryIndex /\ ImmediateIndex(v).type = "immediate"
      /\ ImmediateIndex(v).value = c - 1
  BY <1>2, <1>6 DEF Index, MemoryIndex, IndexType
<1>8. ASSUME Len(immediates) =< Byte, InRange(ImmediateIndex(v)) PROVE Len(all) =< Byte
  <2>1. c - 1 \in 0 .. 255
    BY <1>7, <1>8 DEF InRange, Byte
  <2>2. CASE all = immediates
    BY <1>8, <2>2
  <2>3. CASE Len(all) = Len(immediates) + 1 /\ \A k \in 1 .. Len(immediates) : all[k] # v
    <3>1. Len(immediates) \in Nat
      OBVIOUS
    <3>2. all[c] = v
      BY <1>3, FirstIs DEF c
    <3>3. c \notin 1 .. Len(immediates)
      BY <2>3, <3>2
    <3>4. c = Len(all)
      BY <1>5, <2>3, <3>1, <3>3
    <3> QED
      <4>1. \A n \in Nat : n - 1 \in 0 .. 255 => n =< Byte
        BY DEF Byte
      <4> QED
        BY <1>5, <2>1, <3>4, <4>1
  <2> QED
    BY <1>1, <2>2, <2>3
<1> QED
  BY <1>1, <1>6, <1>7, <1>8 DEF all

\* The position of a function that is marked.
LEMMA FunctionIs ==
    ASSUME marked \in Seq(FunctionName), ~Repeated(marked), NEW k \in 1 .. Len(marked)
    PROVE  find_function(marked[k]) = k
<1> DEFINE name == marked[k]
<1>1. DOMAIN marked = 1 .. Len(marked) /\ Len(marked) \in Nat
  BY SMTT(30)
<1>2. Marked(name) = marked
  BY <1>1 DEF Marked
<1>3. \A j \in DOMAIN marked : marked[j] = name => j = k
  BY <1>1 DEF Repeated
<1>4. find_function(name) = CHOOSE j \in DOMAIN marked : marked[j] = name
  BY <1>2 DEF find_function
<1> QED
  BY <1>1, <1>3, <1>4

\* Marking a function.
LEMMA MarkedIs ==
    ASSUME marked \in Seq(FunctionName), ~Repeated(marked), NEW name \in FunctionName
    PROVE  /\ Marked(name) \in Seq(FunctionName) /\ ~Repeated(Marked(name)) /\ Prefix(marked, Marked(name))
           /\ find_function(name) \in 1 .. Len(Marked(name)) /\ Marked(name)[find_function(name)] = name
           /\ \A k \in 1 .. Len(Marked(name)) : k \in 1 .. Len(marked) \/ Marked(name)[k] = name
<1> DEFINE all == Marked(name)
<1>1. /\ all \in Seq(FunctionName) /\ Prefix(marked, all) /\ ~Repeated(all) /\ Len(all) \in Nat
      /\ \E k \in 1 .. Len(all) : all[k] = name
      /\ \A k \in 1 .. Len(all) : k \in 1 .. Len(marked) \/ all[k] = name
  <2>1. CASE \E k \in DOMAIN marked : marked[k] = name
    <3>1. all = marked
      BY <2>1 DEF Marked
    <3> QED
      BY <2>1, <3>1 DEF Prefix
  <2>2. CASE ~\E k \in DOMAIN marked : marked[k] = name
    <3>1. all = Append(marked, name)
      BY <2>2 DEF Marked
    <3> DEFINE n == Len(marked)
    <3>2. n \in Nat /\ DOMAIN marked = 1 .. n
      OBVIOUS
    <3>3. Append(marked, name) \in Seq(FunctionName) /\ Extended(marked, Append(marked, name), name)
      BY AppendIs
    <3> HIDE DEF all
    <3>4. all \in Seq(FunctionName) /\ Len(all) = n + 1 /\ all[n + 1] = name /\ \A k \in 1 .. n : all[k] = marked[k]
      BY <3>1, <3>3 DEF Extended
    <3>5. n + 1 \in 1 .. Len(all) /\ Len(all) \in Nat /\ DOMAIN all = 1 .. n + 1
      BY <3>2, <3>4
    <3>6. ~Repeated(all)
      <4> SUFFICES ASSUME NEW j \in DOMAIN all, NEW k \in DOMAIN all, j < k, all[j] = all[k] PROVE FALSE
        BY DEF Repeated
      <4>1. j \in 1 .. n /\ (k \in 1 .. n \/ k = n + 1)
        BY <3>2, <3>5
      <4> QED
        BY <2>2, <3>2, <3>4, <4>1 DEF Repeated
    <3>7. \A k \in 1 .. Len(all) : k \in 1 .. n \/ all[k] = name
      BY <3>2, <3>4
    <3> QED
      BY <3>2, <3>4, <3>5, <3>6, <3>7 DEF Prefix
  <2> QED
    BY <2>1, <2>2
<1> HIDE DEF all
<1>2. find_function(name) \in 1 .. Len(all) /\ all[find_function(name)] = name
  <2> DEFINE c == CHOOSE k \in DOMAIN all : all[k] = name
  <2>1. c \in DOMAIN all /\ all[c] = name
    <3>1. \E k \in DOMAIN all : all[k] = name
      BY <1>1
    <3> QED
      BY <3>1
  <2>2. find_function(name) = c
    BY DEF find_function, all
  <2> QED
    BY <1>1, <2>1, <2>2
<1> QED
  BY <1>1, <1>2 DEF all

-------------------------------------------------------------------------------
(***************************************************************************)
(* Uses of cells.                                                          *)
(***************************************************************************)
UseSpace == UseKind \X Nat \X (Nat \cup Name)

\* The cell of the k-th index of handler c of cd, an intermediate, is one that ct holds there too.
SameHeld(ct, cd, c, k) ==
    /\ c \in 1 .. Len(ct) /\ k \in 1 .. Len(ct[c].indices)
    /\ ct[c].indices[k] = cd[c].indices[k]

Held(cd, c, k) ==
    c \in 1 .. Len(cd) /\ k \in 1 .. Len(cd[c].indices) /\ cd[c].indices[k].type = "intermediate"

\* The scope s of sd is that of sc, or it is empty.
SameScope(sc, sd, b, s) ==
    \/ s \in b .. Len(sc) /\ sd[s] = sc[s]
    \/ DOMAIN sd[s].table = {} /\ sd[s].free = << >>

LEMMA UseIs ==
    ASSUME NEW sc, NEW b \in Nat, NEW ct, NEW a, NEW x
    PROVE  /\ \A n \in Name : <<"name", a, n>> \in Uses(sc, b, ct) <=>
                                a \in Nat /\ a \in b .. Len(sc) /\ n \in DOMAIN sc[a].table
           /\ <<"free", a, x>> \in Uses(sc, b, ct) <=>
                a \in Nat /\ x \in Nat \cup Name /\ a \in b .. Len(sc) /\ x \in 1 .. Len(sc[a].free)
           /\ <<"held", a, x>> \in Uses(sc, b, ct) <=> a \in Nat /\ x \in Nat \cup Name /\ Held(ct, a, x)
           /\ Cell(sc, ct, <<"name", a, x>>) = sc[a].table[x].value
           /\ Cell(sc, ct, <<"free", a, x>>) = sc[a].free[x].value
           /\ Cell(sc, ct, <<"held", a, x>>) = ct[a].indices[x].value
BY DEF Uses, IsUse, Held, Cell, UseKind

LEMMA UseCases ==
    ASSUME NEW sc, NEW b \in Nat, NEW ct, NEW u \in Uses(sc, b, ct)
    PROVE  /\ u \in UseSpace /\ u = <<u[1], u[2], u[3]>> /\ u[2] \in Nat /\ u[3] \in Nat \cup Name
           /\ \/ /\ u[1] = "name" /\ u[2] \in b .. Len(sc) /\ u[3] \in DOMAIN sc[u[2]].table
                 /\ Cell(sc, ct, u) = sc[u[2]].table[u[3]].value
              \/ /\ u[1] = "free" /\ u[2] \in b .. Len(sc) /\ u[3] \in 1 .. Len(sc[u[2]].free)
                 /\ Cell(sc, ct, u) = sc[u[2]].free[u[3]].value
              \/ /\ u[1] = "held" /\ Held(ct, u[2], u[3])
                 /\ Cell(sc, ct, u) = ct[u[2]].indices[u[3]].value
BY DEF Uses, IsUse, Held, Cell, UseSpace, UseKind

\* Every use was one before.
LEMMA CellsFewer ==
    ASSUME NEW sc, NEW sd, NEW b \in Nat, NEW ct, NEW cd, NEW size \in Int, NEW size2 \in Int, size =< size2,
           CellsApart(sc, b, ct, size),
           \A u \in Uses(sd, b, cd) : u \in Uses(sc, b, ct) /\ Cell(sd, cd, u) = Cell(sc, ct, u)
    PROVE  CellsApart(sd, b, cd, size2)
BY DEF CellsApart

\* h tells which use each one was before.
LEMMA CellsMoved ==
    ASSUME NEW sc, NEW sd, NEW b \in Nat, NEW ct, NEW cd, NEW size \in Int, CellsApart(sc, b, ct, size), NEW h,
           \A u \in Uses(sd, b, cd) : h[u] \in Uses(sc, b, ct) /\ Cell(sd, cd, u) = Cell(sc, ct, h[u]),
           \A u, v \in Uses(sd, b, cd) : h[u] = h[v] => u = v
    PROVE  CellsApart(sd, b, cd, size)
BY DEF CellsApart

\* One use, w, is new, and has a new cell.
LEMMA CellsAdded ==
    ASSUME NEW sc, NEW sd, NEW b \in Nat, NEW ct, NEW cd, NEW size \in Nat \ {0}, CellsApart(sc, b, ct, size), NEW w,
           \A u \in Uses(sd, b, cd) : \/ u = w
                                      \/ u \in Uses(sc, b, ct) /\ Cell(sd, cd, u) = Cell(sc, ct, u),
           Cell(sd, cd, w) = size
    PROVE  CellsApart(sd, b, cd, size + 1)
<1>1. ASSUME NEW u \in Uses(sd, b, cd)
      PROVE  u = w \/ (u \in Uses(sc, b, ct) /\ Cell(sd, cd, u) = Cell(sc, ct, u) /\ Cell(sd, cd, u) \in 1 .. size - 1)
  BY DEF CellsApart
<1>2. \A u \in Uses(sd, b, cd) : Cell(sd, cd, u) \in 1 .. size + 1 - 1
  <2>1. ASSUME NEW u \in Uses(sd, b, cd) PROVE Cell(sd, cd, u) \in 1 .. size + 1 - 1
    <3>1. CASE u = w
      <4>1. size \in 1 .. size + 1 - 1
        OBVIOUS
      <4> QED
        BY <3>1, <4>1
    <3>2. CASE u # w
      <4>1. Cell(sd, cd, u) \in 1 .. size - 1
        BY <1>1, <3>2
      <4> QED
        BY <4>1
    <3> QED
      BY <3>1, <3>2
  <2> QED
    BY <2>1
<1>3. ASSUME NEW u \in Uses(sd, b, cd), NEW v \in Uses(sd, b, cd), Cell(sd, cd, u) = Cell(sd, cd, v) PROVE u = v
  <2>1. ASSUME NEW x \in Uses(sd, b, cd), x # w PROVE Cell(sd, cd, x) # size
    <3>1. Cell(sd, cd, x) \in 1 .. size - 1
      BY <1>1, <2>1
    <3> QED
      BY <3>1
  <2>2. CASE u = w \/ v = w
    BY <1>3, <2>1, <2>2
  <2>3. CASE u # w /\ v # w
    BY <1>1, <1>3, <2>3 DEF CellsApart
  <2> QED
    BY <2>2, <2>3
<1> QED
  BY <1>2, <1>3 DEF CellsApart

\* Handlers that come or go with nothing in their hands, scopes that come or go empty.
LEMMA CellsKept ==
    ASSUME NEW sc, NEW sd, NEW b \in Nat, NEW ct, NEW cd, NEW size \in Int, NEW size2 \in Int, size =< size2,
           CellsApart(sc, b, ct, size),
           \A s \in b .. Len(sd) : SameScope(sc, sd, b, s),
           \A c, k : Held(cd, c, k) => SameHeld(ct, cd, c, k)
    PROVE  CellsApart(sd, b, cd, size2)
<1>1. ASSUME NEW u \in Uses(sd, b, cd)
      PROVE  u \in Uses(sc, b, ct) /\ Cell(sd, cd, u) = Cell(sc, ct, u)
  <2>1. u = <<u[1], u[2], u[3]>> /\ u[2] \in Nat /\ u[3] \in Nat \cup Name /\ u \in UseSpace
    BY UseCases
  <2>2. CASE /\ u[1] = "name" /\ u[2] \in b .. Len(sd) /\ u[3] \in DOMAIN sd[u[2]].table
             /\ Cell(sd, cd, u) = sd[u[2]].table[u[3]].value
    <3>1. u[2] \in b .. Len(sc) /\ sd[u[2]] = sc[u[2]]
      BY <2>2 DEF SameScope
    <3> QED
      BY <2>1, <2>2, <3>1 DEF Uses, IsUse, Cell, UseSpace
  <2>3. CASE /\ u[1] = "free" /\ u[2] \in b .. Len(sd) /\ u[3] \in 1 .. Len(sd[u[2]].free)
             /\ Cell(sd, cd, u) = sd[u[2]].free[u[3]].value
    <3>1. u[2] \in b .. Len(sc) /\ sd[u[2]] = sc[u[2]]
      <4>1. sd[u[2]].free # << >>
        BY <2>3
      <4> QED
        BY <2>3, <4>1 DEF SameScope
    <3> QED
      BY <2>1, <2>3, <3>1 DEF Uses, IsUse, Cell, UseSpace
  <2>4. CASE /\ u[1] = "held" /\ Held(cd, u[2], u[3])
             /\ Cell(sd, cd, u) = cd[u[2]].indices[u[3]].value
    <3>1. SameHeld(ct, cd, u[2], u[3])
      BY <2>4
    <3>2. Held(ct, u[2], u[3]) /\ ct[u[2]].indices[u[3]] = cd[u[2]].indices[u[3]]
      BY <2>4, <3>1 DEF Held, SameHeld
    <3> QED
      BY <2>1, <2>4, <3>2 DEF Uses, IsUse, Cell, UseSpace, Held
  <2> QED
    BY <2>2, <2>3, <2>4, UseCases
<1> QED
  BY <1>1, CellsFewer

\* A new intermediate that handler a holds as its x-th index.
LEMMA CellsHeld ==
    ASSUME NEW sc, NEW b \in Nat, NEW ct, NEW cd, NEW size \in Nat \ {0}, CellsApart(sc, b, ct, size), NEW a, NEW x,
           \A c, k : Held(cd, c, k) => SameHeld(ct, cd, c, k) \/ (c = a /\ k = x),
           cd[a].indices[x].value = size
    PROVE  CellsApart(sc, b, cd, size + 1)
<1> DEFINE w == <<"held", a, x>>
<1>1. Cell(sc, cd, w) = size
  BY DEF Cell
<1>2. ASSUME NEW u \in Uses(sc, b, cd), u # w
      PROVE  u \in Uses(sc, b, ct) /\ Cell(sc, cd, u) = Cell(sc, ct, u)
  <2>1. u = <<u[1], u[2], u[3]>> /\ u[2] \in Nat /\ u[3] \in Nat \cup Name /\ u \in UseSpace
    <3>1. u \in UseSpace
      BY DEF Uses, UseSpace
    <3> QED
      BY <3>1 DEF UseSpace
  <2>2. CASE u[1] # "held"
    BY <2>1, <2>2 DEF Uses, IsUse, Cell, UseSpace
  <2>3. CASE /\ u[1] = "held" /\ Held(cd, u[2], u[3])
    <3>1. SameHeld(ct, cd, u[2], u[3])
      BY <1>2, <2>1, <2>3
    <3>2. Held(ct, u[2], u[3]) /\ ct[u[2]].indices[u[3]] = cd[u[2]].indices[u[3]]
      BY <2>3, <3>1 DEF Held, SameHeld
    <3> QED
      BY <2>1, <2>3, <3>2 DEF Uses, IsUse, Cell, UseSpace, Held
  <2> QED
    BY <2>2, <2>3, UseCases
<1> HIDE DEF w
<1> QED
  BY <1>1, <1>2, CellsAdded

\* A new name x in scope a, with the given cell.
ScopeNamed(sc, sd, b, a, x, cell) ==
    /\ Len(sd) = Len(sc) /\ \A s \in b .. Len(sd) : s # a => sd[s] = sc[s]
    /\ sd[a].free = sc[a].free /\ DOMAIN sd[a].table = DOMAIN sc[a].table \cup {x}
    /\ \A n \in DOMAIN sc[a].table : n # x => sd[a].table[n] = sc[a].table[n]
    /\ sd[a].table[x].value = cell

LEMMA CellsNamed ==
    ASSUME NEW sc, NEW sd, NEW b \in Nat, NEW cd, NEW size \in Nat \ {0}, CellsApart(sc, b, cd, size),
           NEW a, NEW x, ScopeNamed(sc, sd, b, a, x, size)
    PROVE  CellsApart(sd, b, cd, size + 1)
<1> DEFINE w == <<"name", a, x>>
<1>0. /\ Len(sd) = Len(sc) /\ \A s \in b .. Len(sd) : s # a => sd[s] = sc[s]
      /\ sd[a].free = sc[a].free /\ DOMAIN sd[a].table = DOMAIN sc[a].table \cup {x}
      /\ \A n \in DOMAIN sc[a].table : n # x => sd[a].table[n] = sc[a].table[n]
      /\ sd[a].table[x].value = size
  BY DEF ScopeNamed
<1>1. Cell(sd, cd, w) = size
  BY <1>0 DEF Cell
<1>2. ASSUME NEW u \in Uses(sd, b, cd), u # w
      PROVE  u \in Uses(sc, b, cd) /\ Cell(sd, cd, u) = Cell(sc, cd, u)
  <2> HIDE DEF w
  <2>1. u = <<u[1], u[2], u[3]>> /\ u[2] \in Nat /\ u[3] \in Nat \cup Name /\ u \in UseSpace
    BY DEF Uses, UseSpace, UseKind
  <2> USE DEF w
  <2>2. CASE /\ u[1] = "name" /\ u[2] \in b .. Len(sd) /\ u[3] \in DOMAIN sd[u[2]].table
             /\ Cell(sd, cd, u) = sd[u[2]].table[u[3]].value
    <3>1. u[2] \in b .. Len(sc) /\ u[3] \in DOMAIN sc[u[2]].table /\ sd[u[2]].table[u[3]] = sc[u[2]].table[u[3]]
      BY <1>0, <1>2, <2>1, <2>2
    <3> QED
      BY <2>1, <2>2, <3>1 DEF Uses, IsUse, Cell, UseSpace
  <2>3. CASE /\ u[1] = "free" /\ u[2] \in b .. Len(sd) /\ u[3] \in 1 .. Len(sd[u[2]].free)
             /\ Cell(sd, cd, u) = sd[u[2]].free[u[3]].value
    <3>1. u[2] \in b .. Len(sc) /\ sd[u[2]].free = sc[u[2]].free
      BY <1>0, <2>3
    <3> QED
      BY <2>1, <2>3, <3>1 DEF Uses, IsUse, Cell, UseSpace
  <2>4. CASE /\ u[1] = "held" /\ Held(cd, u[2], u[3])
             /\ Cell(sd, cd, u) = cd[u[2]].indices[u[3]].value
    BY <2>1, <2>4 DEF Uses, IsUse, Cell, UseSpace, Held
  <2> QED
    BY <2>2, <2>3, <2>4, UseCases
<1>3. \A u \in Uses(sd, b, cd) : u = w \/ (u \in Uses(sc, b, cd) /\ Cell(sd, cd, u) = Cell(sc, cd, u))
  BY <1>2
<1> HIDE DEF w
<1> QED
  BY <1>1, <1>3, CellsAdded

\* The m + 1 free intermediates of scope l, but the first one.
ScopeTaken(sc, sd, b, l, m) ==
    /\ l \in Nat /\ m \in Nat /\ Len(sd) = Len(sc) /\ l \in b .. Len(sd)
    /\ \A s \in b .. Len(sd) : s # l => sd[s] = sc[s]
    /\ sd[l].table = sc[l].table /\ Len(sd[l].free) = m /\ Len(sc[l].free) = m + 1
    /\ \A k \in 1 .. m : sd[l].free[k] = sc[l].free[k + 1]

\* cd holds what ct does but for its x-th index of handler a, which is i.
HeldNow(ct, cd, a, x, i) ==
    /\ \A c, k : Held(cd, c, k) => SameHeld(ct, cd, c, k) \/ (c = a /\ k = x)
    /\ cd[a].indices[x] = i

\* The first free intermediate of scope l is what handler a now holds as its x-th index.
LEMMA CellsTaken ==
    ASSUME NEW sc, NEW sd, NEW b \in Nat, NEW ct, NEW cd, NEW size \in Int, CellsApart(sc, b, ct, size),
           NEW l, NEW m, ScopeTaken(sc, sd, b, l, m),
           NEW a \in Nat, NEW x \in Nat, HeldNow(ct, cd, a, x, sc[l].free[1])
    PROVE  CellsApart(sd, b, cd, size)
<1>0. /\ l \in Nat /\ m \in Nat /\ Len(sd) = Len(sc) /\ l \in b .. Len(sd)
      /\ \A s \in b .. Len(sd) : s # l => sd[s] = sc[s]
      /\ sd[l].table = sc[l].table /\ Len(sd[l].free) = m /\ Len(sc[l].free) = m + 1
      /\ \A k \in 1 .. m : sd[l].free[k] = sc[l].free[k + 1]
      /\ \A c, k : Held(cd, c, k) => SameHeld(ct, cd, c, k) \/ (c = a /\ k = x)
      /\ cd[a].indices[x] = sc[l].free[1]
  BY DEF ScopeTaken, HeldNow
<1> USE <1>0
<1> DEFINE w == <<"held", a, x>>
           first == <<"free", l, 1>>
           H(u) == IF u = w THEN first
                   ELSE IF u[1] = "free" /\ u[2] = l THEN <<"free", l, u[3] + 1>> ELSE u
           h == [u \in UseSpace |-> H(u)]
           Moves(u) == \E k \in 1 .. m : u = <<"free", l, k>> /\ h[u] = <<"free", l, k + 1>>
           Stays_(u) == h[u] = u /\ u # w /\ ~(u[1] = "free" /\ u[2] = l)
           Becomes(u) == u = w /\ h[u] = first
<1>1. ASSUME NEW u \in Uses(sd, b, cd)
      PROVE  /\ Becomes(u) \/ Moves(u) \/ Stays_(u)
             /\ h[u] \in Uses(sc, b, ct) /\ Cell(sd, cd, u) = Cell(sc, ct, h[u])
  <2>1. u = <<u[1], u[2], u[3]>> /\ u[2] \in Nat /\ u[3] \in Nat \cup Name /\ u \in UseSpace
    <3> HIDE DEF w, h
    <3> QED
      BY UseCases
  <2>2. h[u] = H(u)
    BY <2>1
  <2> HIDE DEF h
  <2>3. CASE u = w
    <3>1. h[u] = first
      BY <2>2, <2>3
    <3>2. first \in Uses(sc, b, ct) /\ Cell(sc, ct, first) = sc[l].free[1].value
      <4>1. 1 \in 1 .. Len(sc[l].free) /\ l \in b .. Len(sc) /\ 1 \in Nat \cup Name
        OBVIOUS
      <4> QED
        BY <4>1 DEF Uses, IsUse, UseKind, Cell
    <3>3. Cell(sd, cd, u) = cd[a].indices[x].value
      BY <2>3 DEF Cell
    <3> QED
      BY <2>3, <3>1, <3>2, <3>3
  <2>4. CASE u # w /\ u[1] = "free" /\ u[2] = l
    <3>1. u[3] \in 1 .. m /\ Cell(sd, cd, u) = sd[l].free[u[3]].value
      <4>1. IsUse(sd, b, cd, u)
        BY DEF Uses
      <4> HIDE DEF w, H
      <4> QED
        BY <2>4, <4>1 DEF IsUse, Cell
    <3>2. h[u] = <<"free", l, u[3] + 1>> /\ u = <<"free", l, u[3]>>
      BY <2>1, <2>2, <2>4
    <3>3. u[3] + 1 \in 1 .. Len(sc[l].free) /\ l \in b .. Len(sc) /\ u[3] + 1 \in Nat
      <4>1. \A k \in 1 .. m : k + 1 \in 1 .. m + 1 /\ k + 1 \in Nat
        OBVIOUS
      <4> QED
        BY <3>1, <4>1
    <3>4. h[u] \in Uses(sc, b, ct) /\ Cell(sc, ct, h[u]) = sc[l].free[u[3] + 1].value
      <4>1. \A k \in Nat : k \in 1 .. Len(sc[l].free) =>
                 <<"free", l, k>> \in Uses(sc, b, ct) /\ Cell(sc, ct, <<"free", l, k>>) = sc[l].free[k].value
        BY <3>3 DEF Uses, IsUse, UseKind, Cell
      <4> HIDE DEF first, w, H
      <4> QED
        BY <3>2, <3>3, <4>1
    <3>5. Moves(u)
      BY <3>1, <3>2
    <3> HIDE DEF Moves
    <3> QED
      BY <3>1, <3>4, <3>5
  <2>5. CASE u # w /\ ~(u[1] = "free" /\ u[2] = l)
    <3>1. h[u] = u /\ Stays_(u)
      BY <2>2, <2>5
    <3>2. u \in Uses(sc, b, ct) /\ Cell(sd, cd, u) = Cell(sc, ct, u)
      <4>1. CASE /\ u[1] = "name" /\ u[2] \in b .. Len(sd) /\ u[3] \in DOMAIN sd[u[2]].table
                 /\ Cell(sd, cd, u) = sd[u[2]].table[u[3]].value
        <5>1. u[2] \in b .. Len(sc) /\ sd[u[2]].table = sc[u[2]].table
          BY <4>1
        <5> QED
          BY <2>1, <4>1, <5>1 DEF Uses, IsUse, Cell, UseSpace
      <4>2. CASE /\ u[1] = "free" /\ u[2] \in b .. Len(sd) /\ u[3] \in 1 .. Len(sd[u[2]].free)
                 /\ Cell(sd, cd, u) = sd[u[2]].free[u[3]].value
        <5>1. u[2] \in b .. Len(sc) /\ sd[u[2]] = sc[u[2]]
          BY <4>2, <2>5
        <5> QED
          BY <2>1, <4>2, <5>1 DEF Uses, IsUse, Cell, UseSpace
      <4>3. CASE /\ u[1] = "held" /\ Held(cd, u[2], u[3])
                 /\ Cell(sd, cd, u) = cd[u[2]].indices[u[3]].value
        <5>1. SameHeld(ct, cd, u[2], u[3])
          BY <2>1, <2>5, <4>3
        <5>2. Held(ct, u[2], u[3]) /\ ct[u[2]].indices[u[3]] = cd[u[2]].indices[u[3]]
          BY <4>3, <5>1 DEF Held, SameHeld
        <5> QED
          BY <2>1, <4>3, <5>2 DEF Uses, IsUse, Cell, UseSpace, Held
      <4> HIDE DEF w
      <4> QED
        BY <4>1, <4>2, <4>3, UseCases
    <3> HIDE DEF Stays_
    <3> QED
      BY <3>1, <3>2
  <2> QED
    BY <2>3, <2>4, <2>5
<1> HIDE DEF h
<1>2. ASSUME NEW u \in Uses(sd, b, cd), NEW v \in Uses(sd, b, cd), h[u] = h[v] PROVE u = v
  <2>1. (Becomes(u) \/ Moves(u) \/ Stays_(u)) /\ (Becomes(v) \/ Moves(v) \/ Stays_(v))
    BY <1>1
  <2>2. CASE Becomes(u)
    <3>1. CASE Moves(v)
      BY <1>2, <2>2, <3>1
    <3>2. CASE Stays_(v)
      BY <1>2, <2>2, <3>2, SMTT(30)
    <3> QED
      BY <2>1, <2>2, <3>1, <3>2
  <2>3. CASE Moves(u)
    <3>1. CASE Becomes(v)
      BY <1>2, <2>3, <3>1
    <3>2. CASE Moves(v)
      <4>1. PICK j \in 1 .. m : u = <<"free", l, j>> /\ h[u] = <<"free", l, j + 1>>
        BY <2>3
      <4>2. PICK k \in 1 .. m : v = <<"free", l, k>> /\ h[v] = <<"free", l, k + 1>>
        BY <3>2
      <4>3. j + 1 = k + 1
        BY <1>2, <4>1, <4>2
      <4> QED
        BY <4>1, <4>2, <4>3
    <3>3. CASE Stays_(v)
      <4>1. PICK k \in 1 .. m : v = <<"free", l, k + 1>>
        BY <1>2, <2>3, <3>3, ZenonT(30)
      <4> QED
        BY <3>3, <4>1
    <3> QED
      BY <2>1, <3>1, <3>2, <3>3
  <2>4. CASE Stays_(u)
    <3>1. CASE Becomes(v)
      <4>1. u = first
        BY <1>2, <2>4, <3>1
      <4> QED
        BY <2>4, <4>1
    <3>2. CASE Moves(v)
      <4>1. PICK k \in 1 .. m : u = <<"free", l, k + 1>>
        BY <1>2, <2>4, <3>2, ZenonT(30)
      <4> QED
        BY <2>4, <4>1
    <3>3. CASE Stays_(v)
      BY <1>2, <2>4, <3>3
    <3> QED
      BY <2>1, <3>1, <3>2, <3>3
  <2> QED
    BY <2>1, <2>2, <2>3, <2>4
<1>3. \A u \in Uses(sd, b, cd) : h[u] \in Uses(sc, b, ct) /\ Cell(sd, cd, u) = Cell(sc, ct, h[u])
  BY <1>1
<1>4. \A u, v \in Uses(sd, b, cd) : h[u] = h[v] => u = v
  BY <1>2
<1> HIDE <1>0
<1>5. ASSUME NEW u \in Uses(sd, b, cd) PROVE Cell(sd, cd, u) \in 1 .. size - 1
  <2> HIDE DEF w, first, H
  <2> QED
    BY <1>3 DEF CellsApart
<1>6. ASSUME NEW u \in Uses(sd, b, cd), NEW v \in Uses(sd, b, cd), Cell(sd, cd, u) = Cell(sd, cd, v) PROVE u = v
  <2> HIDE DEF w, first, H
  <2> QED
    BY <1>3, <1>4, <1>6 DEF CellsApart
<1> QED
  BY <1>5, <1>6, Zenon DEF CellsApart

\* cd holds what ct does, but for the first index of handler a; the others of it move up.
LetsGo(ct, cd, a) ==
    \A c, k : Held(cd, c, k) =>
      \/ c # a /\ SameHeld(ct, cd, c, k)
      \/ c = a /\ k \in Nat \ {0} /\ Held(ct, a, k + 1) /\ ct[a].indices[k + 1] = cd[a].indices[k]

\* A cell of the frame that nothing uses.
Unused(sc, b, ct, size, value) ==
    value \in 1 .. size - 1 /\ \A u \in Uses(sc, b, ct) : Cell(sc, ct, u) # value

\* Handler a lets go of its first index.
LEMMA CellsDropped ==
    ASSUME NEW sc, NEW b \in Nat, NEW ct, NEW cd, NEW size \in Int, CellsApart(sc, b, ct, size), NEW a \in Nat,
           LetsGo(ct, cd, a)
    PROVE  /\ CellsApart(sc, b, cd, size)
           /\ Held(ct, a, 1) => Unused(sc, b, cd, size, ct[a].indices[1].value)
<1>0. \A c, k : Held(cd, c, k) =>
        \/ c # a /\ SameHeld(ct, cd, c, k)
        \/ c = a /\ k \in Nat \ {0} /\ Held(ct, a, k + 1) /\ ct[a].indices[k + 1] = cd[a].indices[k]
  BY DEF LetsGo
<1> DEFINE w == <<"held", a, 1>>
           H(u) == IF u[1] = "held" /\ u[2] = a THEN <<"held", a, u[3] + 1>> ELSE u
           h == [u \in UseSpace |-> H(u)]
           Moves(u) == \E k \in Nat \ {0} : u = <<"held", a, k>> /\ h[u] = <<"held", a, k + 1>>
           Stays_(u) == h[u] = u /\ ~(u[1] = "held" /\ u[2] = a)
<1>1. ASSUME NEW u \in Uses(sc, b, cd)
      PROVE  /\ Moves(u) \/ Stays_(u)
             /\ h[u] \in Uses(sc, b, ct) /\ Cell(sc, cd, u) = Cell(sc, ct, h[u])
  <2>1. u = <<u[1], u[2], u[3]>> /\ u[2] \in Nat /\ u[3] \in Nat \cup Name /\ u \in UseSpace
    <3>1. u \in UseSpace
      BY DEF Uses, UseSpace
    <3> QED
      BY <3>1 DEF UseSpace
  <2>2. h[u] = H(u)
    BY <2>1
  <2> HIDE DEF h
  <2>4. CASE u[1] = "held" /\ u[2] = a
    <3>1. Held(cd, a, u[3]) /\ Cell(sc, cd, u) = cd[a].indices[u[3]].value
      <4>1. IsUse(sc, b, cd, u)
        BY DEF Uses
      <4> HIDE DEF w, H
      <4> QED
        BY <2>4, <4>1 DEF IsUse, Held, Cell
    <3>2. u[3] \in Nat \ {0} /\ Held(ct, a, u[3] + 1) /\ ct[a].indices[u[3] + 1] = cd[a].indices[u[3]]
      BY <1>0, <3>1
    <3>3. h[u] = <<"held", a, u[3] + 1>> /\ u = <<"held", a, u[3]>>
      BY <2>1, <2>2, <2>4
    <3>4. u[3] + 1 \in Nat
      BY <3>2
    <3>5. h[u] \in Uses(sc, b, ct) /\ Cell(sc, ct, h[u]) = ct[a].indices[u[3] + 1].value
      <4>1. \A k \in Nat : Held(ct, a, k) =>
                 <<"held", a, k>> \in Uses(sc, b, ct) /\ Cell(sc, ct, <<"held", a, k>>) = ct[a].indices[k].value
        BY DEF Uses, IsUse, UseKind, Cell, Held
      <4> HIDE DEF w, H
      <4> QED
        BY <3>2, <3>3, <3>4, <4>1
    <3>6. Moves(u)
      BY <3>2, <3>3
    <3> HIDE DEF Moves
    <3> QED
      BY <3>1, <3>2, <3>5, <3>6
  <2>5. CASE ~(u[1] = "held" /\ u[2] = a)
    <3>1. h[u] = u /\ Stays_(u)
      BY <2>2, <2>5
    <3>2. u \in Uses(sc, b, ct) /\ Cell(sc, cd, u) = Cell(sc, ct, u)
      <4>1. CASE u[1] # "held"
        BY <2>1, <4>1 DEF Uses, IsUse, Cell, UseSpace
      <4>2. CASE u[1] = "held" /\ Held(cd, u[2], u[3])
        <5>1. SameHeld(ct, cd, u[2], u[3])
          BY <1>0, <2>5, <4>2
        <5>2. Held(ct, u[2], u[3]) /\ ct[u[2]].indices[u[3]] = cd[u[2]].indices[u[3]]
          BY <4>2, <5>1 DEF Held, SameHeld
        <5> QED
          BY <2>1, <4>2, <5>2 DEF Uses, IsUse, Cell, UseSpace, Held
      <4> QED
        BY <4>1, <4>2, UseCases
    <3> HIDE DEF Stays_
    <3> QED
      BY <3>1, <3>2
  <2> QED
    BY <2>4, <2>5
<1> HIDE DEF h
<1>2. ASSUME NEW u \in Uses(sc, b, cd), NEW v \in Uses(sc, b, cd), h[u] = h[v] PROVE u = v
  <2>1. (Moves(u) \/ Stays_(u)) /\ (Moves(v) \/ Stays_(v))
    BY <1>1
  <2>3. CASE Moves(u) /\ Moves(v)
    <3>1. PICK j \in Nat \ {0} : u = <<"held", a, j>> /\ h[u] = <<"held", a, j + 1>>
      BY <2>3
    <3>2. PICK k \in Nat \ {0} : v = <<"held", a, k>> /\ h[v] = <<"held", a, k + 1>>
      BY <2>3
    <3>3. j + 1 = k + 1
      BY <1>2, <3>1, <3>2
    <3> QED
      BY <3>1, <3>2, <3>3
  <2>4. CASE Stays_(u) \/ Stays_(v)
    BY <1>2, <2>1, <2>4
  <2> QED
    BY <2>1, <2>3, <2>4
<1>3. CellsApart(sc, b, cd, size)
  <2>1. \A u \in Uses(sc, b, cd) : h[u] \in Uses(sc, b, ct) /\ Cell(sc, cd, u) = Cell(sc, ct, h[u])
    BY <1>1
  <2>2. \A u, v \in Uses(sc, b, cd) : h[u] = h[v] => u = v
    BY <1>2
  <2> QED
    BY <2>1, <2>2, CellsMoved
<1>4. ASSUME Held(ct, a, 1)
      PROVE  /\ ct[a].indices[1].value \in 1 .. size - 1
             /\ \A u \in Uses(sc, b, cd) : Cell(sc, cd, u) # ct[a].indices[1].value
  <2>1. w \in Uses(sc, b, ct) /\ Cell(sc, ct, w) = ct[a].indices[1].value
    BY <1>4 DEF Uses, IsUse, UseKind, Cell, Held
  <2>2. ASSUME NEW u \in Uses(sc, b, cd), Cell(sc, cd, u) = Cell(sc, ct, w) PROVE FALSE
    <3>1. h[u] = w
      <4> HIDE DEF w
      <4> QED
        BY <1>1, <2>1, <2>2 DEF CellsApart
    <3>2. CASE Moves(u)
      BY <3>1, <3>2
    <3>3. CASE Stays_(u)
      BY <3>1, <3>3
    <3> QED
      BY <1>1, <3>2, <3>3
  <2>3. Cell(sc, ct, w) \in 1 .. size - 1
    <3> HIDE DEF w
    <3> QED
      BY <2>1 DEF CellsApart
  <2> QED
    BY <2>1, <2>2, <2>3
<1> QED
  BY <1>3, <1>4 DEF Unused

\* One more intermediate after the m free ones of scope l.
ScopeFreed(sc, sd, b, l, m, value) ==
    /\ l \in Nat /\ m \in Nat /\ Len(sd) = Len(sc) /\ l \in b .. Len(sd)
    /\ \A s \in b .. Len(sd) : s # l => sd[s] = sc[s]
    /\ sd[l].table = sc[l].table /\ Len(sc[l].free) = m /\ Len(sd[l].free) = m + 1
    /\ \A k \in 1 .. m : sd[l].free[k] = sc[l].free[k]
    /\ sd[l].free[m + 1].value = value

\* It is one that nothing uses.
LEMMA CellsFreed ==
    ASSUME NEW sc, NEW sd, NEW b \in Nat, NEW ct, NEW size \in Int, CellsApart(sc, b, ct, size),
           NEW value, Unused(sc, b, ct, size, value), NEW l, NEW m, ScopeFreed(sc, sd, b, l, m, value)
    PROVE  CellsApart(sd, b, ct, size)
<1>0. /\ l \in Nat /\ m \in Nat /\ Len(sd) = Len(sc) /\ l \in b .. Len(sd)
      /\ \A s \in b .. Len(sd) : s # l => sd[s] = sc[s]
      /\ sd[l].table = sc[l].table /\ Len(sc[l].free) = m /\ Len(sd[l].free) = m + 1
      /\ \A k \in 1 .. m : sd[l].free[k] = sc[l].free[k]
      /\ sd[l].free[m + 1].value = value
      /\ value \in 1 .. size - 1 /\ \A u \in Uses(sc, b, ct) : Cell(sc, ct, u) # value
  BY DEF ScopeFreed, Unused
<1> DEFINE w == <<"free", l, m + 1>>
<1>1. Cell(sd, ct, w) = value
  BY <1>0 DEF Cell
<1>2. ASSUME NEW u \in Uses(sd, b, ct), u # w
      PROVE  u \in Uses(sc, b, ct) /\ Cell(sd, ct, u) = Cell(sc, ct, u)
  <2>1. u = <<u[1], u[2], u[3]>> /\ u[2] \in Nat /\ u[3] \in Nat \cup Name /\ u \in UseSpace
    BY DEF Uses, UseSpace, UseKind
  <2>2. CASE /\ u[1] = "name" /\ u[2] \in b .. Len(sd) /\ u[3] \in DOMAIN sd[u[2]].table
             /\ Cell(sd, ct, u) = sd[u[2]].table[u[3]].value
    <3>1. u[2] \in b .. Len(sc) /\ sd[u[2]].table = sc[u[2]].table
      BY <1>0, <2>2
    <3> QED
      BY <2>1, <2>2, <3>1 DEF Uses, IsUse, Cell, UseSpace
  <2>3. CASE /\ u[1] = "free" /\ u[2] \in b .. Len(sd) /\ u[3] \in 1 .. Len(sd[u[2]].free)
             /\ Cell(sd, ct, u) = sd[u[2]].free[u[3]].value
    <3>1. CASE u[2] # l
      <4>1. u[2] \in b .. Len(sc) /\ sd[u[2]] = sc[u[2]]
        BY <1>0, <2>3, <3>1
      <4> QED
        BY <2>1, <2>3, <4>1 DEF Uses, IsUse, Cell, UseSpace
    <3>2. CASE u[2] = l
      <4>1. u[3] # m + 1
        BY <1>2, <2>1, <2>3, <3>2
      <4>2. u[3] \in 1 .. m /\ l \in b .. Len(sc)
        BY <1>0, <2>3, <3>2, <4>1, SMTT(30)
      <4> QED
        BY <1>0, <2>1, <2>3, <3>2, <4>2 DEF Uses, IsUse, Cell, UseSpace
    <3> QED
      BY <3>1, <3>2
  <2>4. CASE u[1] = "held"
    BY <2>1, <2>4 DEF Uses, IsUse, Cell, UseSpace
  <2> HIDE DEF w
  <2> QED
    BY <2>2, <2>3, <2>4, UseCases
<1> HIDE DEF w
<1>3. ASSUME NEW u \in Uses(sd, b, ct) PROVE Cell(sd, ct, u) \in 1 .. size - 1
  BY <1>0, <1>1, <1>2 DEF CellsApart
<1>4. ASSUME NEW u \in Uses(sd, b, ct), NEW v \in Uses(sd, b, ct), Cell(sd, ct, u) = Cell(sd, ct, v) PROVE u = v
  BY <1>0, <1>1, <1>2, <1>4 DEF CellsApart
<1> QED
  BY <1>3, <1>4 DEF CellsApart

\* A frame that begins: names are its cells from 1 on, nothing is free and nothing held.
LEMMA CellsFresh ==
    ASSUME NEW names \in Seq(Name), ~Repeated(names), Len(names) < Byte - 1, NEW sd, NEW b \in Nat, NEW cd,
           Len(sd) = b, sd[b].free = << >>, DOMAIN sd[b].table = { names[k] : k \in DOMAIN names },
           \A n \in DOMAIN sd[b].table :
             sd[b].table[n].value = (CHOOSE k \in DOMAIN names : names[k] = n) % Byte,
           \A c, k : ~Held(cd, c, k)
    PROVE  CellsApart(sd, b, cd, 1 + Len(names))
<1> DEFINE P(n) == CHOOSE k \in DOMAIN names : names[k] = n
<1>1. DOMAIN names = 1 .. Len(names) /\ Len(names) \in Nat
  OBVIOUS
<1>2. ASSUME NEW u \in Uses(sd, b, cd)
      PROVE  /\ u = <<"name", b, u[3]>> /\ u[3] \in DOMAIN sd[b].table
             /\ Cell(sd, cd, u) = sd[b].table[u[3]].value
  <2>1. u = <<u[1], u[2], u[3]>> /\ b .. Len(sd) = {b} /\ 1 .. Len(sd[b].free) = {}
    BY UseCases
  <2> QED
    BY <2>1, UseCases
<1>3. ASSUME NEW n \in DOMAIN sd[b].table PROVE P(n) \in 1 .. Len(names) /\ names[P(n)] = n /\ sd[b].table[n].value = P(n)
  <2>1. P(n) \in DOMAIN names /\ names[P(n)] = n
    <3>1. \E k \in DOMAIN names : names[k] = n
      OBVIOUS
    <3> QED
      BY <3>1
  <2>2. \A k \in 1 .. Len(names) : k % Byte = k
    BY <1>1 DEF Byte
  <2>3. sd[b].table[n].value = P(n) % Byte
    OBVIOUS
  <2> HIDE DEF P
  <2> QED
    BY <1>1, <2>1, <2>2, <2>3
<1> HIDE DEF P
<1>4. ASSUME NEW u \in Uses(sd, b, cd) PROVE Cell(sd, cd, u) \in 1 .. 1 + Len(names) - 1
  BY <1>1, <1>2, <1>3
<1>5. ASSUME NEW u \in Uses(sd, b, cd), NEW v \in Uses(sd, b, cd), Cell(sd, cd, u) = Cell(sd, cd, v) PROVE u = v
  <2>0. u[3] \in DOMAIN sd[b].table /\ v[3] \in DOMAIN sd[b].table /\ sd[b].table[u[3]].value = sd[b].table[v[3]].value
    BY <1>2, <1>5
  <2>1. P(u[3]) = P(v[3]) /\ names[P(u[3])] = u[3] /\ names[P(v[3])] = v[3]
    BY <1>3, <2>0, SMTT(30)
  <2>2. u[3] = v[3]
    BY <2>1
  <2> QED
    BY <1>2, <2>2
<1> QED
  BY <1>4, <1>5 DEF CellsApart

-------------------------------------------------------------------------------
(***************************************************************************)
(* A step of a handler.                                                    *)
(***************************************************************************)
Size == frames[Len(frames)].size

LEMMA Running ==
    ASSUME NEW out, IInv(out), stage = "running", control # << >>
    PROVE  /\ frames \in Seq(FrameType) /\ frames # << >> /\ Len(frames) \in Nat \ {0} /\ Here \in Nat
           /\ Code \in Seq(InstructionType) /\ Code = frames[Len(frames)].code
           /\ Size \in 0 .. Byte - 1 /\ Size \in Int
           /\ scopes \in Seq(ScopeType) /\ scopes # << >> /\ Len(scopes) \in Nat \ {0}
           /\ BaseOf(Len(frames)) \in 1 .. Len(scopes)
           /\ immediates \in Seq(Value) /\ Len(immediates) \in Nat /\ Len(immediates) =< Byte
           /\ marked \in Seq(FunctionName) /\ Len(marked) \in Nat
           /\ index \in ResultIndex /\ wrapped \in BOOLEAN
           /\ ControlOK(out, Len(frames), marked, Here, control)
           /\ control \in Seq(HandlerType) /\ Len(control) \in Nat \ {0}
           /\ top \in HandlerType /\ HandlerOK(out, Len(frames), marked, Here, top)
           /\ node # ProgramNode =>
                node \in Node /\ Len(control) > 1 /\ ~Finished(Len(frames), control)
           /\ node = ProgramNode => Len(control) = 1
<1>1. /\ frames \in Seq(FrameType) /\ frames # << >> /\ scopes \in Seq(ScopeType)
      /\ immediates \in Seq(Value) /\ Len(immediates) =< Byte
      /\ marked \in Seq(FunctionName) /\ index \in ResultIndex /\ wrapped \in BOOLEAN
      /\ ControlOK(out, Len(frames), marked, Here, control) /\ ScopesOK(Len(frames), scopes, control)
  BY DEF IInv, TypesOK, StageOK, ControlInv, ScopesInv
<1>2. /\ Len(frames) \in Nat \ {0} /\ Code \in Seq(InstructionType) /\ Here \in Nat
      /\ Size \in 0 .. Byte - 1 /\ Size \in Int
  BY <1>1, FrameFacts DEF Code, Current, Here, Size
<1>3. /\ control \in Seq(HandlerType) /\ Len(control) \in Nat \ {0} /\ top \in HandlerType
      /\ HandlerOK(out, Len(frames), marked, Here, top)
      /\ Len(control) = 1 <=> node = ProgramNode
      /\ Len(control) # 1 => node \in Node
  BY <1>1, TopFacts DEF top, node
<1>4. Len(scopes) \in Nat \ {0} /\ scopes # << >> /\ BaseOf(Len(frames)) \in 1 .. Len(scopes)
  <2>1. Cardinality(ScopedIn(control)) \in Nat
    <3>1. SubSeq(control, 1, Len(control) - 1) \in Seq(HandlerType) /\ Popped(control, SubSeq(control, 1, Len(control) - 1))
      BY <1>3, FrontIs
    <3> QED
      BY <1>3, <3>1, ScopedPopped
  <2>2. Len(scopes) = BaseOf(Len(frames)) + Cardinality(ScopedIn(control)) /\ Len(scopes) \in Nat
    BY <1>1 DEF ScopesOK
  <2> QED
    BY <2>1, <2>2 DEF BaseOf
<1>5. Len(immediates) \in Nat /\ Len(marked) \in Nat
  BY <1>1
<1>6. Len(control) # 1 => Len(control) > 1 /\ ~Finished(Len(frames), control)
  <2>1. \A n \in Nat \ {0} : n # 1 => n > 1
    OBVIOUS
  <2>2. Len(control) # 1 => Len(control) > 1
    BY <1>3, <2>1
  <2>3. Len(control) # 1 => ~Finished(Len(frames), control)
    BY DEF Finished
  <2> QED
    BY <2>2, <2>3
<1> QED
  BY <1>1, <1>2, <1>3, <1>4, <1>5, <1>6 DEF Code, Current

\* What a step does not change, or keeps the type of.
StepTypes ==
    /\ index' \in ResultIndex
    /\ frames' \in Seq(FrameType) /\ Len(frames') = Len(frames)
    /\ immediates' \in Seq(Value) /\ Len(immediates') =< Byte
    /\ scopes' \in Seq(ScopeType)
    /\ wrapped' \in BOOLEAN
    /\ stage' = stage /\ ast' = ast /\ ec' = ec

StepMarks ==
    /\ marked' \in Seq(FunctionName) /\ ~Repeated(marked')
    /\ \A k \in 1 .. Len(marked') : marked'[k] \in DOMAIN ast.functions
    /\ pending' \in 0 .. Len(marked')
    /\ Len(frames) + pending' = 1 + Len(marked')

StepCode(out) ==
    /\ CodeOK(out, frames', Len(immediates'), Len(marked'))
    /\ FramesOK(frames', control')
    /\ frames[1].size =< frames'[1].size

StepHeld ==
    control' # << >> =>
      /\ HeldOK(control', frames'[Len(frames)].size, Len(immediates'))
      /\ IndexOK(control'[Len(control')], index', frames'[Len(frames)].size, Len(immediates'))
      /\ CellsApart(scopes', BaseOf(Len(frames)), control', frames'[Len(frames)].size)

LEMMA Collect ==
    ASSUME NEW out, IInv(out), stage = "running", control # << >>,
           StepTypes, StepMarks,
           ControlOK(out, Len(frames), marked', Here', control'),
           ScopesOK(Len(frames), scopes', control'),
           ~wrapped' => ~wrapped /\ StepCode(out) /\ StepHeld
    PROVE  IInv(out)'
<1>1. frames # << >> /\ frames \in Seq(FrameType) /\ frames' # << >> /\ Len(frames') = Len(frames)
  <2>1. frames # << >> /\ frames \in Seq(FrameType) /\ frames' \in Seq(FrameType) /\ Len(frames') = Len(frames)
    BY Running DEF StepTypes
  <2> QED
    BY <2>1
<1>2. TypesOK'
  BY DEF IInv, TypesOK, StepTypes, StepMarks
<1>3. StageOK'
  BY <1>1 DEF StageOK, StepTypes, StepMarks
<1>4. ControlInv(out)'
  BY <1>1 DEF ControlInv
<1>5. ScopesInv'
  BY <1>1 DEF ScopesInv
<1>6. CodeInv(out)'
  <2> SUFFICES ASSUME ~wrapped'
               PROVE  /\ CodeOK(out, frames', Len(immediates'), Len(marked'))
                      /\ FramesOK(frames', control')
                      /\ 1 + Len(ast'.inputs) + Len(ast'.outputs) =< frames'[1].size
    BY DEF CodeInv
  <2>1. StepCode(out) /\ 1 + Len(ast.inputs) + Len(ast.outputs) =< frames[1].size /\ ast' = ast
    BY DEF IInv, CodeInv, StepTypes
  <2>2. frames[1].size \in Int /\ frames'[1].size \in Int
    <3>1. frames[1] \in FrameType /\ frames'[1] \in FrameType
      BY <1>1 DEF StepTypes
    <3> QED
      BY <3>1 DEF FrameType
  <2>3. Len(ast.inputs) \in Int /\ Len(ast.outputs) \in Int
    BY ProgramAssumption DEF IInv, TypesOK, WellFormed
  <2>4. \A x, y, z \in Int : x =< y /\ y =< z => x =< z
    OBVIOUS
  <2>5. 1 + Len(ast.inputs) + Len(ast.outputs) =< frames'[1].size
    <3> DEFINE t == 1 + Len(ast.inputs) + Len(ast.outputs)
    <3>1. t \in Int
      BY <2>3
    <3>3. t =< frames[1].size /\ frames[1].size =< frames'[1].size
      BY <2>1 DEF StepCode
    <3> HIDE DEF t
    <3>2. t =< frames'[1].size
      BY <2>2, <2>4, <3>1, <3>3
    <3> QED
      BY <3>2 DEF t
  <2> QED
    BY <2>1, <2>5 DEF StepCode
<1>7. IndexInv'
  BY <1>1 DEF IndexInv, StepHeld, top
<1>8. CellsInv'
  BY <1>1 DEF CellsInv, StepHeld
<1> QED
  BY <1>2, <1>3, <1>4, <1>5, <1>6, <1>7, <1>8 DEF IInv

\* Code is added.
LEMMA CodeGrows ==
    ASSUME NEW out, IInv(out), stage = "running", control # << >>, ~wrapped,
           NEW added \in Seq(InstructionType), NEW size \in Int, Size =< size,
           frames' \in Seq(FrameType), Grown(frames, frames', added, size),
           Len(immediates') \in Int, Len(immediates) =< Len(immediates'),
           Len(marked') \in Int, Len(marked) =< Len(marked'),
           \A k \in 1 .. Len(added) : InstructionOK(out, Len(frames), added[k], size, Len(immediates'), Len(marked'))
    PROVE  CodeOK(out, frames', Len(immediates'), Len(marked')) /\ frames[1].size =< frames'[1].size
<1>1. frames \in Seq(FrameType) /\ frames # << >> /\ Len(immediates) \in Int /\ Len(marked) \in Int
  BY Running
<1>2. CodeOK(out, frames, Len(immediates), Len(marked)) /\ FramesOK(frames, control)
  BY DEF IInv, CodeInv
<1> QED
  BY <1>1, <1>2, CodeGrown, SMTT(30) DEF Size

\* Code without jumps is added, to a frame that goes on.
LEMMA CodeStep ==
    ASSUME NEW out, IInv(out), stage = "running", control # << >>, ~wrapped,
           NEW added \in Seq(InstructionType), NEW size \in Int, Size =< size,
           frames' \in Seq(FrameType), Grown(frames, frames', added, size),
           Len(immediates') \in Int, Len(immediates) =< Len(immediates'),
           Len(marked') \in Int, Len(marked) =< Len(marked'),
           ~Finished(Len(frames), control), ~Finished(Len(frames), control'),
           OpenJumps(control') = OpenJumps(control),
           \A k \in 1 .. Len(added) :
             added[k].op \notin JumpOp /\ InstructionOK(out, Len(frames), added[k], size, Len(immediates'), Len(marked'))
    PROVE  StepCode(out)
<1>1. frames \in Seq(FrameType) /\ frames # << >> /\ Len(immediates) \in Int /\ Len(marked) \in Int
  BY Running
<1>2. CodeOK(out, frames, Len(immediates), Len(marked)) /\ FramesOK(frames, control)
  BY DEF IInv, CodeInv
<1>3. CodeOK(out, frames', Len(immediates'), Len(marked')) /\ frames[1].size =< frames'[1].size
  BY CodeGrows
<1>4. FramesOK(frames', control')
  BY <1>1, <1>2, FramesGrown
<1> QED
  BY <1>3, <1>4 DEF StepCode

\* Nothing but the handlers changes.
Quiet == /\ stage' = stage /\ ast' = ast /\ ec' = ec
         /\ frames' = frames /\ immediates' = immediates /\ scopes' = scopes /\ wrapped' = wrapped

LEMMA QuietTypes ==
    ASSUME NEW out, IInv(out), stage = "running", control # << >>, Quiet, index' = index
    PROVE  StepTypes
BY Running DEF Quiet, StepTypes

LEMMA SameMarks ==
    ASSUME NEW out, IInv(out), stage = "running", marked' = marked, pending' = pending
    PROVE  StepMarks
BY DEF IInv, TypesOK, StageOK, StepMarks

LEMMA QuietCode ==
    ASSUME NEW out, IInv(out), stage = "running", control # << >>, ~wrapped, Quiet,
           marked' \in Seq(FunctionName), Len(marked) =< Len(marked'),
           ~Finished(Len(frames), control), ~Finished(Len(frames), control'),
           OpenJumps(control') = OpenJumps(control)
    PROVE  StepCode(out)
<1>1. frames \in Seq(FrameType) /\ frames # << >> /\ Len(immediates) \in Nat /\ Size \in Int
  BY Running
<1>2. Grown(frames, frames', << >>, Size) /\ frames' \in Seq(FrameType)
  BY <1>1, SameGrows DEF Quiet, Size
<1>3. << >> \in Seq(InstructionType) /\ \A k \in 1 .. Len(<< >>) : FALSE
  OBVIOUS
<1>4. Len(marked') \in Int /\ Len(immediates') = Len(immediates)
  BY DEF Quiet
<1>5. Size =< Size /\ Len(immediates') \in Int /\ Len(immediates) =< Len(immediates')
  BY <1>1, <1>4
<1> DEFINE added == << >>
<1>6. added \in Seq(InstructionType) /\ Grown(frames, frames', added, Size) /\ \A k \in 1 .. Len(added) : FALSE
  BY <1>2, <1>3
<1> HIDE DEF added
<1> QED
  BY <1>1, <1>2, <1>4, <1>5, <1>6, CodeStep

\* What is held when the innermost handler goes on, calls or returns.
LEMMA HeldBecomes ==
    ASSUME NEW ct \in Seq(HandlerType), ct # << >>, NEW f, NEW mid \in Seq(HandlerType), Replaced(ct, mid, f)
    PROVE  /\ mid[Len(mid)] = f /\ mid[Len(ct)] = f /\ Len(mid) = Len(ct)
           /\ \A c, k : Held(mid, c, k) =>
                \/ c # Len(ct) /\ SameHeld(ct, mid, c, k)
                \/ /\ c = Len(ct) /\ mid[c] = f /\ k \in 1 .. Len(f.indices)
                   /\ f.indices[k].type = "intermediate"
<1>1. Len(ct) \in Nat \ {0} /\ Len(mid) = Len(ct) /\ mid[Len(ct)] = f
  BY DEF Replaced
<1>2. ASSUME NEW c, NEW k, Held(mid, c, k), c # Len(ct) PROVE SameHeld(ct, mid, c, k)
  <2>1. c \in 1 .. Len(ct) - 1 /\ c \in 1 .. Len(ct)
    BY <1>1, <1>2 DEF Held
  <2>2. mid[c] = ct[c]
    BY <2>1 DEF Replaced
  <2> QED
    BY <1>2, <2>1, <2>2 DEF Held, SameHeld
<1>3. ASSUME NEW c, NEW k, Held(mid, c, k), c = Len(ct)
      PROVE  mid[c] = f /\ k \in 1 .. Len(f.indices) /\ f.indices[k].type = "intermediate"
  BY <1>1, <1>3 DEF Held
<1> QED
  BY <1>1, <1>2, <1>3

LEMMA HeldCalls ==
    ASSUME NEW ct \in Seq(HandlerType), ct # << >>, NEW f, NEW mid \in Seq(HandlerType), Replaced(ct, mid, f),
           NEW g, g.indices = << >>, NEW cd \in Seq(HandlerType), Extended(mid, cd, g)
    PROVE  /\ cd[Len(cd)] = g /\ cd[Len(ct)] = f
           /\ \A c, k : Held(cd, c, k) =>
                \/ c # Len(ct) /\ SameHeld(ct, cd, c, k)
                \/ /\ c = Len(ct) /\ cd[c] = f /\ k \in 1 .. Len(f.indices)
                   /\ f.indices[k].type = "intermediate"
<1>1. Len(ct) \in Nat \ {0} /\ Len(mid) = Len(ct) /\ Len(cd) = Len(ct) + 1 /\ cd[Len(ct) + 1] = g
  BY DEF Replaced, Extended
<1>2. cd[Len(ct)] = f /\ \A c \in 1 .. Len(ct) : cd[c] = mid[c]
  BY <1>1 DEF Replaced, Extended
<1>3. ASSUME NEW c, NEW k, Held(cd, c, k) PROVE Held(mid, c, k) /\ cd[c] = mid[c]
  <2>1. c # Len(ct) + 1
    BY <1>1, <1>3 DEF Held
  <2>2. c \in 1 .. Len(ct)
    BY <1>1, <1>3, <2>1 DEF Held
  <2> QED
    BY <1>1, <1>2, <1>3, <2>2 DEF Held
<1>4. \A c, k : Held(mid, c, k) =>
         \/ c # Len(ct) /\ SameHeld(ct, mid, c, k)
         \/ c = Len(ct) /\ mid[c] = f /\ k \in 1 .. Len(f.indices) /\ f.indices[k].type = "intermediate"
  BY HeldBecomes
<1>5. ASSUME NEW c, NEW k, Held(cd, c, k), c # Len(ct) PROVE SameHeld(ct, cd, c, k)
  BY <1>3, <1>4, <1>5 DEF SameHeld
<1>6. ASSUME NEW c, NEW k, Held(cd, c, k), c = Len(ct)
      PROVE  cd[c] = f /\ k \in 1 .. Len(f.indices) /\ f.indices[k].type = "intermediate"
  BY <1>2, <1>3, <1>4, <1>6
<1> QED
  BY <1>1, <1>2, <1>5, <1>6

LEMMA HeldReturns ==
    ASSUME NEW ct \in Seq(HandlerType), ct # << >>, NEW cd \in Seq(HandlerType), Popped(ct, cd)
    PROVE  \A c, k : Held(cd, c, k) => c # Len(ct) /\ SameHeld(ct, cd, c, k)
<1>1. Len(ct) \in Nat \ {0} /\ Len(cd) = Len(ct) - 1
  BY DEF Popped
<1>2. ASSUME NEW c, NEW k, Held(cd, c, k) PROVE c # Len(ct) /\ SameHeld(ct, cd, c, k)
  <2>1. c \in 1 .. Len(ct) - 1 /\ c \in 1 .. Len(ct) /\ c # Len(ct)
    BY <1>1, <1>2 DEF Held
  <2>2. cd[c] = ct[c]
    BY <2>1 DEF Popped
  <2> QED
    BY <1>2, <2>1, <2>2 DEF Held, SameHeld
<1> QED
  BY <1>2

-------------------------------------------------------------------------------
(***************************************************************************)
(* A handler calls another, and nothing is emitted.                        *)
(***************************************************************************)
\* f holds what the innermost handler holds, and operands that are not intermediates.
HoldsMore(f) ==
    \A k \in 1 .. Len(f.indices) :
      \/ k \in 1 .. Len(top.indices) /\ f.indices[k] = top.indices[k]
      \/ f.indices[k].type # "intermediate" /\ IsOperand(f.indices[k], Size, Len(immediates))

LEMMA OpenIndices ==
    ASSUME NEW out, IInv(out), stage = "running", control # << >>, ~wrapped
    PROVE  /\ HeldOK(control, Size, Len(immediates))
           /\ IndexOK(top, index, Size, Len(immediates))
           /\ CellsApart(scopes, BaseOf(Len(frames)), control, Size)
           /\ \A k \in 1 .. Len(top.indices) : IsOperand(top.indices[k], Size, Len(immediates))
           /\ Size \in Nat \ {0}
<1>1. /\ HeldOK(control, Size, Len(immediates)) /\ IndexOK(top, index, Size, Len(immediates))
      /\ CellsApart(scopes, BaseOf(Len(frames)), control, Size)
  BY DEF IInv, IndexInv, CellsInv, Size
<1>2. Len(control) \in 1 .. Len(control) /\ top = control[Len(control)]
  BY Running DEF top
<1>3. \A k \in 1 .. Len(top.indices) : IsOperand(top.indices[k], Size, Len(immediates))
  BY <1>1, <1>2 DEF HeldOK
<1>4. Size \in Nat \ {0}
  <2>1. Size >= 1
    <3>1. CodeOK(out, frames, Len(immediates), Len(marked))
      BY DEF IInv, CodeInv
    <3>2. Len(frames) \in 1 .. Len(frames)
      BY Running
    <3> QED
      BY <3>1, <3>2 DEF CodeOK, FrameOK, Size
  <2>2. Size \in 0 .. Byte - 1
    BY Running
  <2> QED
    BY <2>1, <2>2
<1> QED
  BY <1>1, <1>3, <1>4

LEMMA Calls ==
    ASSUME NEW out, IInv(out), stage = "running", control # << >>,
           NEW f, GoesOn(out, Len(frames), marked, Here, control, f), SameBody(control, f),
           NEW n, CanCall(out, Len(frames), f, n),
           ~Finished(Len(frames), control), ~wrapped => HoldsMore(f),
           Assemble(n, f), index' = index, Quiet, marked' = marked, pending' = pending
    PROVE  IInv(out)'
<1> DEFINE mid == Append(SubSeq(control, 1, Len(control) - 1), f)
<1>1. control' = Append(mid, Handler(n))
  BY DEF Assemble, Callers
<1>2. /\ mid \in Seq(HandlerType) /\ Replaced(control, mid, f)
      /\ control' \in Seq(HandlerType) /\ Extended(mid, control', Handler(n))
      /\ ControlOK(out, Len(frames), marked, Here, control')
      /\ Len(control') = Len(control) + 1 /\ Len(control) \in Nat \ {0}
      /\ Cardinality(ScopedIn(control')) = Cardinality(ScopedIn(control)) /\ OpenJumps(control') = OpenJumps(control)
  <2>1. mid = Append(SubSeq(control, 1, Len(control) - 1), f)
    OBVIOUS
  <2> HIDE DEF mid
  <2> QED
    BY <1>1, <2>1, PushControl
<1> HIDE DEF mid
<1>3. StepTypes /\ StepMarks
  BY QuietTypes, SameMarks
<1>4. ControlOK(out, Len(frames), marked', Here', control')
  BY <1>2 DEF Quiet, Here, Code, Current
<1>5. control' # << >> /\ ~Finished(Len(frames), control')
  BY <1>2 DEF Finished
<1>6. ScopesOK(Len(frames), scopes', control')
  BY <1>2, <1>5 DEF IInv, ScopesInv, ScopesOK, Quiet
<1>7. ASSUME ~wrapped PROVE StepCode(out) /\ StepHeld
  <2>1. StepCode(out)
    BY <1>2, <1>5, <1>7, QuietCode, Running
  <2>2. frames'[Len(frames)].size = Size /\ Len(immediates') = Len(immediates) /\ scopes' = scopes /\ index' = index
    BY DEF Quiet, Size
  <2>3. Handler(n).indices = << >> /\ Handler(n).at = "start" /\ control \in Seq(HandlerType)
    BY Running DEF Handler
  <2>4. /\ control'[Len(control')] = Handler(n)
        /\ \A c, k : Held(control', c, k) =>
                \/ c # Len(control) /\ SameHeld(control, control', c, k)
                \/ /\ c = Len(control) /\ control'[c] = f /\ k \in 1 .. Len(f.indices)
                   /\ f.indices[k].type = "intermediate"
    BY <1>2, <2>3, HeldCalls
  <2>5. HeldOK(control', Size, Len(immediates))
    <3>1. \A k \in 1 .. Len(f.indices) : IsOperand(f.indices[k], Size, Len(immediates))
      BY <1>7, OpenIndices DEF HoldsMore
    <3>2. HeldOK(mid, Size, Len(immediates))
      BY <1>2, <1>7, <2>3, <3>1, OpenIndices, HeldReplaced
    <3>3. \A k \in 1 .. Len(Handler(n).indices) : FALSE
      BY <2>3
    <3> QED
      BY <1>2, <3>2, <3>3, HeldExtended
  <2>6. IndexOK(Handler(n), index, Size, Len(immediates))
    BY <2>3 DEF IndexOK, OperandLabel, NeedsIndex, IsTarget
  <2>7. CellsApart(scopes, BaseOf(Len(frames)), control', Size)
    <3>1. ASSUME NEW c, NEW k, Held(control', c, k) PROVE SameHeld(control, control', c, k)
      <4>1. CASE c = Len(control)
        <5>1. control'[c] = f /\ k \in 1 .. Len(f.indices) /\ f.indices[k].type = "intermediate"
          BY <2>4, <3>1, <4>1
        <5>2. k \in 1 .. Len(top.indices) /\ f.indices[k] = top.indices[k]
          BY <1>7, <5>1 DEF HoldsMore
        <5> QED
          BY <1>2, <4>1, <5>1, <5>2 DEF SameHeld, top
      <4> QED
        BY <2>4, <3>1, <4>1
    <3>2. \A s \in BaseOf(Len(frames)) .. Len(scopes) : SameScope(scopes, scopes, BaseOf(Len(frames)), s)
      BY DEF SameScope
    <3>3. BaseOf(Len(frames)) \in Nat /\ Size \in Int /\ Size =< Size
      BY Running DEF BaseOf
    <3> QED
      BY <1>7, <3>1, <3>2, <3>3, OpenIndices, CellsKept
  <2> QED
    BY <2>1, <2>2, <2>4, <2>5, <2>6, <2>7 DEF StepHeld
<1>8. wrapped' = wrapped
  BY DEF Quiet
<1> QED
  BY <1>3, <1>4, <1>6, <1>7, <1>8, Collect

\* The handlers of expressions and of returns.
ExpressionType == Operators \cup {"unary_operator", "function_return"}

LEMMA ExpressionOK ==
    ASSUME NEW out, NEW cur, NEW mk, NEW here, NEW h \in HandlerType, HandlerOK(out, cur, mk, here, h),
           h.node.type \in ExpressionType,
           NEW f, f.node = h.node, f.rest = h.rest, f.jumps = h.jumps, f.at \in Labels(h.node.type),
           f.at = "lhs" => Len(f.indices) = 1, f.at # "lhs" => f.indices = << >>
    PROVE  HandlerOK(out, cur, mk, here, f) /\ ~Scoped(f) /\ ~Scoped(h)
<1>1. h.node.type \notin Constructs /\ h.node.type # "function_call" /\ h.node # ProgramNode
  BY IsProgram DEF ExpressionType, Operators, Constructs
<1>2. JumpCount(f) = 0 /\ JumpCount(h) = 0 /\ ~Scoped(f) /\ ~Scoped(h)
  BY <1>1 DEF JumpCount, Scoped
<1>3. cur = 1 => Outside(out, f)
  BY DEF HandlerOK, Outside
<1> QED
  BY <1>1, <1>2, <1>3 DEF HandlerOK

LEMMA ValueOutside ==
    ASSUME NEW out, NEW n, value_type(n) # "none"
    PROVE  Outside(out, Handler(n))
BY DEF Outside, Handler

\* The state in which a handler runs.
LEMMA AtIs ==
    ASSUME NEW types, NEW label, At(types, label)
    PROVE  stage = "running" /\ control # << >> /\ node.type \in types /\ top.at = label
           /\ top.node = node
BY DEF At, node

LEMMA QuietIs ==
    ASSUME Stays, Silent
    PROVE  Quiet /\ marked' = marked /\ pending' = pending
BY DEF Stays, Silent, context, called, Quiet

LEMMA RhsStep ==
    ASSUME NEW out, IInv(out), assemble_rhs
    PROVE  IInv(out)'
<1> DEFINE f == [top EXCEPT !.at = "rhs"]
<1>1. /\ stage = "running" /\ control # << >> /\ node.type \in Operators /\ top.at = "start"
      /\ top.node = node /\ Assemble(node.rhs, f) /\ index' = index
      /\ Quiet /\ marked' = marked /\ pending' = pending
  BY AtIs, QuietIs DEF assemble_rhs
<1>2. /\ top \in HandlerType /\ HandlerOK(out, Len(frames), marked, Here, top)
      /\ ControlOK(out, Len(frames), marked, Here, control)
      /\ node \in Node /\ ~Finished(Len(frames), control)
  BY <1>1, Running, IsProgram DEF Operators
<1>3. /\ f \in HandlerType /\ f.node = node /\ f.at = "rhs" /\ f.rest = top.rest
      /\ f.indices = top.indices /\ f.jumps = top.jumps
  BY <1>1, <1>2 DEF HandlerType, Label
<1> HIDE DEF f
<1>4. top.indices = << >>
  BY <1>1, <1>2 DEF HandlerOK, Operators
<1>5. HandlerOK(out, Len(frames), marked, Here, f) /\ ~Scoped(f) /\ ~Scoped(top)
  <2>1. f.at \in Labels(top.node.type) /\ top.node.type \in ExpressionType
    BY <1>1, <1>3 DEF Labels, Operators, ExpressionType
  <2> QED
    BY <1>1, <1>2, <1>3, <1>4, <2>1, ExpressionOK
<1>6. GoesOn(out, Len(frames), marked, Here, control, f) /\ SameBody(control, f)
  BY <1>1, <1>2, <1>3, <1>5 DEF GoesOn, SameBody, top
<1>7. CanCall(out, Len(frames), f, node.rhs)
  <2>1. node.rhs \in Node /\ value_type(node.rhs) # "none"
    BY <1>1, <1>2, NodeFacts DEF Operators, IsNumber
  <2> QED
    BY <1>3, <2>1, ValueOutside DEF CanCall, CallsNode
<1>8. HoldsMore(f)
  BY <1>3 DEF HoldsMore
<1> QED
  BY <1>1, <1>2, <1>6, <1>7, <1>8, Calls

LEMMA UnaryStart ==
    ASSUME NEW out, IInv(out), At({"unary_operator"}, "start"),
           Assemble(node.operand, [top EXCEPT !.at = "operand"]), UNCHANGED index, Silent, Stays
    PROVE  IInv(out)'
<1> DEFINE f == [top EXCEPT !.at = "operand"]
<1>1. /\ stage = "running" /\ control # << >> /\ node.type = "unary_operator" /\ top.at = "start"
      /\ top.node = node /\ Assemble(node.operand, f) /\ index' = index
      /\ Quiet /\ marked' = marked /\ pending' = pending
  BY AtIs, QuietIs
<1>2. /\ top \in HandlerType /\ HandlerOK(out, Len(frames), marked, Here, top)
      /\ ControlOK(out, Len(frames), marked, Here, control)
      /\ node \in Node /\ ~Finished(Len(frames), control)
  BY <1>1, Running, IsProgram
<1>3. /\ f \in HandlerType /\ f.node = node /\ f.at = "operand" /\ f.rest = top.rest
      /\ f.indices = top.indices /\ f.jumps = top.jumps
  BY <1>1, <1>2 DEF HandlerType, Label
<1> HIDE DEF f
<1>4. top.indices = << >>
  BY <1>1, <1>2 DEF HandlerOK
<1>5. HandlerOK(out, Len(frames), marked, Here, f) /\ ~Scoped(f) /\ ~Scoped(top)
  <2>1. f.at \in Labels(top.node.type) /\ top.node.type \in ExpressionType
    BY <1>1, <1>3 DEF Labels, Operators, ExpressionType
  <2> QED
    BY <1>1, <1>2, <1>3, <1>4, <2>1, ExpressionOK
<1>6. GoesOn(out, Len(frames), marked, Here, control, f) /\ SameBody(control, f)
  BY <1>1, <1>2, <1>3, <1>5 DEF GoesOn, SameBody, top
<1>7. CanCall(out, Len(frames), f, node.operand)
  <2>1. node.operand \in Node /\ value_type(node.operand) # "none"
    BY <1>1, <1>2, NodeFacts DEF IsNumber
  <2> QED
    BY <1>3, <2>1, ValueOutside DEF CanCall, CallsNode
<1>8. HoldsMore(f)
  BY <1>3 DEF HoldsMore
<1> QED
  BY <1>1, <1>2, <1>6, <1>7, <1>8, Calls

LEMMA ReturnStart ==
    ASSUME NEW out, IInv(out), At({"function_return"}, "start"),
           Assemble(node.return_value, [top EXCEPT !.at = "value"]), UNCHANGED index, Silent, Stays
    PROVE  IInv(out)'
<1> DEFINE f == [top EXCEPT !.at = "value"]
<1>1. /\ stage = "running" /\ control # << >> /\ node.type = "function_return" /\ top.at = "start"
      /\ top.node = node /\ Assemble(node.return_value, f) /\ index' = index
      /\ Quiet /\ marked' = marked /\ pending' = pending
  BY AtIs, QuietIs
<1>2. /\ top \in HandlerType /\ HandlerOK(out, Len(frames), marked, Here, top)
      /\ ControlOK(out, Len(frames), marked, Here, control)
      /\ node \in Node /\ ~Finished(Len(frames), control)
  BY <1>1, Running, IsProgram
<1>3. /\ f \in HandlerType /\ f.node = node /\ f.at = "value" /\ f.rest = top.rest
      /\ f.indices = top.indices /\ f.jumps = top.jumps
  BY <1>1, <1>2 DEF HandlerType, Label
<1> HIDE DEF f
<1>4. top.indices = << >>
  BY <1>1, <1>2 DEF HandlerOK
<1>5. HandlerOK(out, Len(frames), marked, Here, f) /\ ~Scoped(f) /\ ~Scoped(top)
  <2>1. f.at \in Labels(top.node.type) /\ top.node.type \in ExpressionType
    BY <1>1, <1>3 DEF Labels, Operators, ExpressionType
  <2> QED
    BY <1>1, <1>2, <1>3, <1>4, <2>1, ExpressionOK
<1>6. GoesOn(out, Len(frames), marked, Here, control, f) /\ SameBody(control, f)
  BY <1>1, <1>2, <1>3, <1>5 DEF GoesOn, SameBody, top
<1>7. CanCall(out, Len(frames), f, node.return_value)
  <2>1. node.return_value \in Node /\ value_type(node.return_value) # "none"
    BY <1>1, <1>2, NodeFacts DEF IsNumber
  <2> QED
    BY <1>3, <2>1, ValueOutside DEF CanCall, CallsNode
<1>8. HoldsMore(f)
  BY <1>3 DEF HoldsMore
<1> QED
  BY <1>1, <1>2, <1>6, <1>7, <1>8, Calls

LEMMA LhsOutside ==
    ASSUME NEW n \in Node, n.type \in Operators, NEW out
    PROVE  n.lhs \in Node /\ Outside(out, Handler(n.lhs))
<1>1. n.lhs \in Node /\ value_type(n.lhs) # "none"
  BY NodeFacts DEF Operators, IsNumber, is_lvalue, value_type, NumberType
<1> QED
  BY <1>1, ValueOutside

\* The handler keeps the index that it has been given.
LEMMA LhsKeeps ==
    ASSUME NEW out, IInv(out), Given(Operators, "rhs"),
           Assemble(node.lhs, [top EXCEPT !.at = "lhs", !.indices = <<index>>]),
           UNCHANGED <<frames, scopes, wrapped>>, UNCHANGED <<index, immediates>>, Stays
    PROVE  IInv(out)'
<1> DEFINE f == [top EXCEPT !.at = "lhs", !.indices = <<index>>]
<1>1. /\ stage = "running" /\ control # << >> /\ node.type \in Operators /\ top.at = "rhs"
      /\ top.node = node /\ Assemble(node.lhs, f) /\ index' = index /\ index # NoIndex
      /\ Quiet /\ marked' = marked /\ pending' = pending
  <2>1. Silent
    BY DEF Silent, context
  <2> QED
    BY <2>1, AtIs, QuietIs DEF Given
<1>2. /\ top \in HandlerType /\ HandlerOK(out, Len(frames), marked, Here, top)
      /\ ControlOK(out, Len(frames), marked, Here, control)
      /\ node \in Node /\ ~Finished(Len(frames), control) /\ index \in ResultIndex
  BY <1>1, Running, IsProgram DEF Operators
<1>3. index.type \in {"immediate", "stack"} /\ <<index>> \in Seq(HeldIndex)
  <2>1. index \in HeldIndex /\ index.type \in {"immediate", "stack"}
    BY <1>1, <1>2 DEF ResultIndex, IndicesOf, HeldIndex
  <2> QED
    BY <2>1
<1>4. /\ f \in HandlerType /\ f.node = node /\ f.at = "lhs" /\ f.rest = top.rest
      /\ f.indices = <<index>> /\ f.jumps = top.jumps
  BY <1>1, <1>2, <1>3 DEF HandlerType, Label
<1> HIDE DEF f
<1>5. HandlerOK(out, Len(frames), marked, Here, f) /\ ~Scoped(f) /\ ~Scoped(top)
  <2>1. f.at \in Labels(top.node.type) /\ top.node.type \in ExpressionType /\ Len(f.indices) = 1
    BY <1>1, <1>4 DEF Labels, Operators, ExpressionType
  <2> QED
    BY <1>1, <1>2, <1>4, <2>1, ExpressionOK
<1>6. GoesOn(out, Len(frames), marked, Here, control, f) /\ SameBody(control, f)
  BY <1>1, <1>2, <1>4, <1>5 DEF GoesOn, SameBody, top
<1>7. CanCall(out, Len(frames), f, node.lhs)
  BY <1>1, <1>2, <1>4, LhsOutside DEF CanCall, CallsNode
<1>8. ASSUME ~wrapped PROVE HoldsMore(f)
  <2>1. IsOperand(index, Size, Len(immediates))
    BY <1>1, <1>8, OpenIndices DEF IndexOK, OperandLabel
  <2>2. \A k \in 1 .. Len(f.indices) : f.indices[k] = index
    BY <1>4
  <2> QED
    BY <1>3, <2>1, <2>2 DEF HoldsMore
<1> QED
  BY <1>1, <1>2, <1>6, <1>7, <1>8, Calls

\* The condition of a construct.
LEMMA ConditionStep ==
    ASSUME NEW out, IInv(out), assemble_condition
    PROVE  IInv(out)'
<1> DEFINE f == [top EXCEPT !.at = "condition", !.jumps = <<Here>>]
<1>1. /\ stage = "running" /\ control # << >> /\ node.type \in Constructs /\ top.at = "start"
      /\ top.node = node /\ Assemble(node.condition, f) /\ index' = index
      /\ Quiet /\ marked' = marked /\ pending' = pending
  BY AtIs, QuietIs DEF assemble_condition
<1>2. /\ top \in HandlerType /\ HandlerOK(out, Len(frames), marked, Here, top)
      /\ ControlOK(out, Len(frames), marked, Here, control)
      /\ node \in Node /\ ~Finished(Len(frames), control) /\ Here \in Nat
  BY <1>1, Running, IsProgram DEF Constructs
<1>3. /\ f \in HandlerType /\ f.node = node /\ f.at = "condition" /\ f.rest = top.rest
      /\ f.indices = top.indices /\ f.jumps = <<Here>>
  <2>1. <<Here>> \in Seq(Nat)
    BY <1>2
  <2> DEFINE j == <<Here>>
  <2>2. j \in Seq(Nat) /\ f = [top EXCEPT !.at = "condition", !.jumps = j]
    BY <2>1
  <2> HIDE DEF j, f
  <2>3. f \in HandlerType /\ f.node = node /\ f.at = "condition" /\ f.rest = top.rest
        /\ f.indices = top.indices /\ f.jumps = j
    BY <1>1, <1>2, <2>2 DEF HandlerType, Label
  <2> QED
    BY <2>3 DEF j
<1> HIDE DEF f
<1>4. top.indices = << >>
  BY <1>1, <1>2 DEF HandlerOK, Constructs
<1>5. HandlerOK(out, Len(frames), marked, Here, f) /\ ~Scoped(f) /\ ~Scoped(top)
  <2>1. /\ f.at \in Labels(f.node.type) /\ f.node.type \in Constructs /\ f.node.type # "function_call"
        /\ f.node # ProgramNode
    BY <1>1, <1>2, <1>3, NodeFacts DEF Labels, Operators, Constructs
  <2>2. JumpCount(f) = 1 /\ ~Scoped(f) /\ ~Scoped(top)
    BY <1>1, <1>3, <2>1 DEF JumpCount, Scoped
  <2>3. Len(f.jumps) = 1 /\ \A k \in 1 .. Len(f.jumps) : f.jumps[k] =< Here
    BY <1>2, <1>3
  <2>4. Len(frames) = 1 => Outside(out, f)
    BY <1>1, <1>2, <1>3 DEF HandlerOK, Outside
  <2> QED
    BY <1>3, <1>4, <2>1, <2>2, <2>3, <2>4 DEF HandlerOK
<1>6. GoesOn(out, Len(frames), marked, Here, control, f) /\ SameBody(control, f)
  BY <1>1, <1>2, <1>3, <1>5 DEF GoesOn, SameBody, top
<1>7. CanCall(out, Len(frames), f, node.condition)
  <2>1. node.condition \in Node /\ value_type(node.condition) # "none"
    BY <1>1, <1>2, ConstructFacts DEF IsCondition
  <2> QED
    BY <1>3, <2>1, ValueOutside DEF CanCall, CallsNode
<1>8. HoldsMore(f)
  BY <1>3 DEF HoldsMore
<1> QED
  BY <1>1, <1>2, <1>6, <1>7, <1>8, Calls

\* A statement of a body.
LEMMA StatementStep ==
    ASSUME NEW out, IInv(out), OutAssumption(out), assemble_statement
    PROVE  IInv(out)'
<1> DEFINE f == [top EXCEPT !.rest = Tail(@)]
           n == Head(top.rest)
<1>1. /\ stage = "running" /\ control # << >> /\ node.type \in Constructs \cup {"program"}
      /\ top.at \in {"body", "else"} /\ top.rest # << >>
      /\ top.node = node /\ Assemble(n, f) /\ index' = index
      /\ Quiet /\ marked' = marked /\ pending' = pending
  BY AtIs, QuietIs DEF assemble_statement
<1>2. /\ top \in HandlerType /\ HandlerOK(out, Len(frames), marked, Here, top)
      /\ ControlOK(out, Len(frames), marked, Here, control) /\ top = control[Len(control)]
      /\ node # ProgramNode => ~Finished(Len(frames), control)
      /\ node = ProgramNode => Len(control) = 1
      /\ top.rest \in Seq(Node) /\ node \in Node \cup {ProgramNode}
  BY <1>1, Running DEF HandlerType, top
<1>3. /\ f \in HandlerType /\ f.node = node /\ f.at = top.at /\ f.rest = Tail(top.rest)
      /\ f.indices = top.indices /\ f.jumps = top.jumps
  <2>1. Tail(top.rest) \in Seq(Node)
    BY <1>1, <1>2
  <2> QED
    BY <1>1, <1>2, <2>1 DEF HandlerType
<1>4. n \in Node /\ n = top.rest[1] /\ Len(top.rest) \in Nat \ {0}
      /\ Len(f.rest) = Len(top.rest) - 1 /\ \A k \in 1 .. Len(top.rest) - 1 : f.rest[k] = top.rest[k + 1]
  BY <1>1, <1>2, <1>3, TailIs
<1> HIDE DEF f, n
<1>5. EndsInReturn(top.rest) => EndsInReturn(f.rest) /\ (f.rest = << >> => n.type = "function_return")
  <2>0. f.rest \in Seq(Node)
    BY <1>3 DEF HandlerType
  <2> DEFINE m == Len(top.rest)
  <2>1. m \in Nat \ {0} /\ Len(f.rest) = m - 1 /\ (f.rest = << >> <=> m - 1 = 0)
    <3>1. f.rest = << >> <=> Len(f.rest) = 0
      BY <2>0
    <3>2. m \in Nat \ {0} /\ Len(f.rest) = m - 1
      BY <1>4
    <3> HIDE DEF m
    <3> QED
      BY <3>1, <3>2
  <2>2. \A k \in 1 .. m - 1 : f.rest[k] = top.rest[k + 1]
    BY <1>4
  <2> SUFFICES ASSUME top.rest[m].type = "function_return"
               PROVE  EndsInReturn(f.rest) /\ (f.rest = << >> => n.type = "function_return")
    BY <1>1 DEF EndsInReturn
  <2> HIDE DEF m
  <2>3. CASE m = 1
    BY <1>4, <2>1, <2>3 DEF EndsInReturn
  <2>4. CASE m # 1
    <3>1. m - 1 \in 1 .. m - 1 /\ m - 1 + 1 = m /\ m - 1 # 0
      BY <2>1, <2>4
    <3> QED
      BY <2>1, <2>2, <3>1 DEF EndsInReturn
  <2> QED
    BY <2>3, <2>4
<1>7. Len(frames) = 1 => Outside(out, f) /\ Outside(out, Handler(n))
  <2> SUFFICES ASSUME Len(frames) = 1 PROVE Outside(out, f) /\ Outside(out, Handler(n))
    OBVIOUS
  <2>1. value_type(node) = "none"
    BY <1>1 DEF value_type, NumberType, Constructs
  <2>2. node \in out \cup {ProgramNode} /\ top.rest \in Seq(out)
    BY <1>1, <1>2, <2>1 DEF HandlerOK, Outside
  <2>3. n \in out /\ f.rest \in Seq(out)
    BY <1>1, <1>3, <2>2, TailIs DEF n
  <2>4. Handler(n).node = n /\ Handler(n).rest = << >>
    BY DEF Handler
  <2> QED
    BY <1>3, <2>2, <2>3, <2>4 DEF Outside
<1>8. HandlerOK(out, Len(frames), marked, Here, f) /\ JumpCount(f) = JumpCount(top) /\ (Scoped(f) <=> Scoped(top))
  <2>1. JumpCount(f) = JumpCount(top) /\ (Scoped(f) <=> Scoped(top))
    BY <1>1, <1>3 DEF JumpCount, Scoped
  <2>2. node.type # "function_call"
    BY <1>1 DEF Constructs
  <2> QED
    BY <1>1, <1>2, <1>3, <1>5, <1>7, <2>1, <2>2 DEF HandlerOK
<1>9. GoesOn(out, Len(frames), marked, Here, control, f) /\ SameBody(control, f)
  BY <1>1, <1>2, <1>3, <1>8 DEF GoesOn, SameBody
<1>10. CanCall(out, Len(frames), f, n)
  <2>1. Len(frames) # 1 /\ node = ProgramNode => EndsInReturn(top.rest)
    BY <1>1, <1>2 DEF HandlerOK
  <2>2. CallsNode(Len(frames), f, n)
    BY <1>1, <1>3, <1>5, <2>1 DEF CallsNode
  <2> QED
    BY <1>4, <1>7, <2>2 DEF CanCall
<1>11. ~Finished(Len(frames), control)
  <2>1. CASE node = ProgramNode
    <3>1. control[1].rest # << >>
      BY <1>1, <1>2, <2>1
    <3> QED
      BY <1>1, <3>1 DEF Finished
  <2> QED
    BY <1>2, <2>1
<1>12. HoldsMore(f)
  BY <1>3 DEF HoldsMore
<1> QED
  BY <1>1, <1>9, <1>10, <1>11, <1>12, Calls

\* The next argument of a call.
LEMMA ArgumentStart ==
    ASSUME NEW out, IInv(out), At({"function_call"}, "arguments"), top.rest # << >>,
           Assemble(Head(top.rest), [top EXCEPT !.at = "argument", !.rest = Tail(@)]),
           UNCHANGED index, Silent, Stays
    PROVE  IInv(out)'
<1> DEFINE f == [top EXCEPT !.at = "argument", !.rest = Tail(@)]
           n == Head(top.rest)
<1>1. /\ stage = "running" /\ control # << >> /\ node.type = "function_call" /\ top.at = "arguments"
      /\ top.node = node /\ Assemble(n, f) /\ index' = index
      /\ Quiet /\ marked' = marked /\ pending' = pending
  BY AtIs, QuietIs
<1>2. /\ top \in HandlerType /\ HandlerOK(out, Len(frames), marked, Here, top)
      /\ ControlOK(out, Len(frames), marked, Here, control) /\ top = control[Len(control)]
      /\ node \in Node /\ ~Finished(Len(frames), control) /\ top.rest \in Seq(Node)
  BY <1>1, Running, IsProgram DEF HandlerType, top
<1>3. /\ f \in HandlerType /\ f.node = node /\ f.at = "argument" /\ f.rest = Tail(top.rest)
      /\ f.indices = top.indices /\ f.jumps = top.jumps
  <2>1. Tail(top.rest) \in Seq(Node)
    BY <1>2
  <2> QED
    BY <1>1, <1>2, <2>1 DEF HandlerType, Label
<1>4. n \in Node /\ n = top.rest[1] /\ Len(top.rest) \in Nat \ {0}
      /\ Len(f.rest) = Len(top.rest) - 1 /\ \A k \in 1 .. Len(top.rest) - 1 : f.rest[k] = top.rest[k + 1]
  BY <1>2, <1>3, TailIs
<1> HIDE DEF f, n
<1>5. CallOK(marked, top)
  BY <1>1, <1>2 DEF HandlerOK
<1>6. IsNumber(n) /\ AllNumbers(f.rest)
  <2> DEFINE m == Len(top.rest)
  <2>1. m \in Nat \ {0} /\ Len(f.rest) = m - 1 /\ \A k \in 1 .. m - 1 : f.rest[k] = top.rest[k + 1]
    BY <1>4
  <2>2. \A k \in 1 .. m : IsNumber(top.rest[k])
    BY <1>5 DEF CallOK, AllNumbers
  <2> HIDE DEF m
  <2>3. 1 \in 1 .. m /\ \A k \in 1 .. m - 1 : k + 1 \in 1 .. m
    BY <2>1
  <2> QED
    BY <1>4, <2>1, <2>2, <2>3 DEF AllNumbers
<1>7. CallOK(marked, f)
  <2>1. Len(top.indices) + Len(top.rest) + 0 =< Len(node.arguments)
    BY <1>1, <1>5 DEF CallOK
  <2>2. node.arguments \in Seq(Node) /\ top.indices \in Seq(HeldIndex)
    BY <1>1, <1>2, ConstructFacts DEF HandlerType
  <2>3. Len(top.indices) + (Len(top.rest) - 1) + 1 =< Len(node.arguments)
    <3>1. Len(top.indices) \in Int /\ Len(top.rest) \in Int /\ Len(node.arguments) \in Int
      BY <1>4, <2>2
    <3>2. \A i, j, k \in Int : i + j + 0 =< k => i + (j - 1) + 1 =< k
      OBVIOUS
    <3> QED
      BY <2>1, <3>1, <3>2
  <2> QED
    BY <1>1, <1>3, <1>4, <1>5, <1>6, <2>3 DEF CallOK
<1>8. HandlerOK(out, Len(frames), marked, Here, f) /\ ~Scoped(f) /\ ~Scoped(top)
  <2>1. f.at \in Labels(f.node.type) /\ f.node # ProgramNode
    BY <1>1, <1>2, <1>3, NodeFacts DEF Labels, Operators
  <2>2. JumpCount(f) = 0 /\ JumpCount(top) = 0 /\ ~Scoped(f) /\ ~Scoped(top)
    BY <1>1, <1>3 DEF JumpCount, Scoped, Constructs
  <2>3. Outside(out, f)
    BY <1>1, <1>3 DEF Outside, value_type, NumberType
  <2> QED
    BY <1>1, <1>2, <1>3, <1>7, <2>1, <2>2, <2>3 DEF HandlerOK
<1>9. GoesOn(out, Len(frames), marked, Here, control, f) /\ SameBody(control, f)
  BY <1>1, <1>2, <1>3, <1>8 DEF GoesOn, SameBody
<1>10. CanCall(out, Len(frames), f, n)
  <2>1. value_type(n) # "none"
    BY <1>6 DEF IsNumber
  <2> QED
    BY <1>3, <1>4, <1>6, <2>1, ValueOutside DEF CanCall, CallsNode
<1>11. HoldsMore(f)
  BY <1>3 DEF HoldsMore
<1> QED
  BY <1>1, <1>2, <1>9, <1>10, <1>11, Calls

-------------------------------------------------------------------------------
(***************************************************************************)
(* The innermost scope.                                                    *)
(***************************************************************************)
\* sd is sc with other free intermediates, or another table, in the innermost scope.
Refreed(sc, sd, free) ==
    /\ Len(sd) = Len(sc)
    /\ \A s \in 1 .. Len(sc) : s # Len(sc) => sd[s] = sc[s]
    /\ \A s \in 1 .. Len(sc) : sd[s].inherits = sc[s].inherits
    /\ sd[Len(sc)].free = free /\ sd[Len(sc)].table = sc[Len(sc)].table

Retabled(sc, sd, table) ==
    /\ Len(sd) = Len(sc)
    /\ \A s \in 1 .. Len(sc) : s # Len(sc) => sd[s] = sc[s]
    /\ \A s \in 1 .. Len(sc) : sd[s].inherits = sc[s].inherits
    /\ sd[Len(sc)].free = sc[Len(sc)].free /\ sd[Len(sc)].table = table

LEMMA ScopeExcept ==
    ASSUME NEW s \in ScopeType, NEW free, NEW table
    PROVE  /\ [s EXCEPT !.free = free] = [inherits |-> s.inherits, free |-> free, table |-> s.table]
           /\ [s EXCEPT !.table = table] = [inherits |-> s.inherits, free |-> s.free, table |-> table]
           /\ s.inherits \in BOOLEAN /\ s.free \in Seq(FreeIndex) /\ s.table \in TableType
BY SMTT(30) DEF ScopeType

LEMMA ScopeReplaced ==
    ASSUME NEW sc \in Seq(ScopeType), sc # << >>, NEW g \in ScopeType, NEW sd, sd = [sc EXCEPT ![Len(sc)] = g]
    PROVE  /\ sd \in Seq(ScopeType) /\ Len(sd) = Len(sc) /\ sd[Len(sc)] = g
           /\ \A s \in 1 .. Len(sc) : s # Len(sc) => sd[s] = sc[s]
           /\ sc[Len(sc)] \in ScopeType
<1>1. sd \in Seq(ScopeType) /\ Replaced(sc, sd, g)
  BY ExceptIs
<1>2. Len(sc) \in Nat \ {0} /\ sc[Len(sc)] \in ScopeType
  OBVIOUS
<1>3. \A s \in 1 .. Len(sc) : s # Len(sc) => s \in 1 .. Len(sc) - 1
  BY <1>2
<1> QED
  BY <1>1, <1>2, <1>3 DEF Replaced

LEMMA RefreedIs ==
    ASSUME NEW sc \in Seq(ScopeType), sc # << >>, NEW free \in Seq(FreeIndex), NEW sd, sd = [sc EXCEPT ![Len(sc)].free = free]
    PROVE  sd \in Seq(ScopeType) /\ Refreed(sc, sd, free)
<1> DEFINE s == sc[Len(sc)]
           g == [inherits |-> s.inherits, free |-> free, table |-> s.table]
<1>1. s \in ScopeType
  BY ScopeReplaced
<1>2. s.inherits \in BOOLEAN /\ s.free \in Seq(FreeIndex) /\ s.table \in TableType /\ [s EXCEPT !.free = free] = g
  <2> HIDE DEF s
  <2> QED
    BY <1>1, ScopeExcept
<1>3. g \in ScopeType /\ g.inherits = s.inherits /\ g.free = free /\ g.table = s.table
  <2> HIDE DEF s
  <2> QED
    BY <1>2 DEF ScopeType
<1>4. sd = [sc EXCEPT ![Len(sc)] = g]
  BY <1>2
<1> HIDE DEF g
<1> QED
  BY <1>3, <1>4, ScopeReplaced, SMTT(30) DEF Refreed

LEMMA RetabledIs ==
    ASSUME NEW sc \in Seq(ScopeType), sc # << >>, NEW table \in TableType, NEW sd, sd = [sc EXCEPT ![Len(sc)].table = table]
    PROVE  sd \in Seq(ScopeType) /\ Retabled(sc, sd, table)
<1> DEFINE s == sc[Len(sc)]
           g == [inherits |-> s.inherits, free |-> s.free, table |-> table]
<1>1. s \in ScopeType
  BY ScopeReplaced
<1>2. s.inherits \in BOOLEAN /\ s.free \in Seq(FreeIndex) /\ s.table \in TableType /\ [s EXCEPT !.table = table] = g
  <2> HIDE DEF s
  <2> QED
    BY <1>1, ScopeExcept
<1>3. g \in ScopeType /\ g.inherits = s.inherits /\ g.free = s.free /\ g.table = table
  <2> HIDE DEF s
  <2> QED
    BY <1>2 DEF ScopeType
<1>4. sd = [sc EXCEPT ![Len(sc)] = g]
  BY <1>2
<1> HIDE DEF g, s
<1>5. /\ sd \in Seq(ScopeType) /\ Len(sd) = Len(sc) /\ sd[Len(sc)] = g
      /\ \A k \in 1 .. Len(sc) : k # Len(sc) => sd[k] = sc[k]
  BY <1>3, <1>4, ScopeReplaced
<1> QED
  BY <1>3, <1>5 DEF Retabled, s

\* As many scopes, that inherit as they did.
SameScopes(sc, sd) == Len(sd) = Len(sc) /\ \A s \in 1 .. Len(sc) : sd[s].inherits = sc[s].inherits

LEMMA ScopesKept ==
    ASSUME NEW cur \in Nat, NEW sc \in Seq(ScopeType), NEW ct, ct # << >>, ScopesOK(cur, sc, ct), NEW sd, SameScopes(sc, sd),
           BaseOf(cur) \in 1 .. Len(sc), NEW cd, cd # << >>, Cardinality(ScopedIn(cd)) = Cardinality(ScopedIn(ct))
    PROVE  ScopesOK(cur, sd, cd)
<1> DEFINE n == Len(sc)
           b == BaseOf(cur)
<1>1. n \in Nat /\ b \in 1 .. n
  OBVIOUS
<1>2. n = b + Cardinality(ScopedIn(ct)) /\ ~sc[b].inherits /\ \A s \in b + 1 .. n : sc[s].inherits
  BY DEF ScopesOK
<1>3. Len(sd) = n /\ \A s \in 1 .. n : sd[s].inherits = sc[s].inherits
  BY DEF SameScopes
<1>4. ScopesOK(cur, sd, cd) <=> /\ Len(sd) = b + Cardinality(ScopedIn(cd)) /\ ~sd[b].inherits
                                /\ \A s \in b + 1 .. Len(sd) : sd[s].inherits
  BY DEF ScopesOK
<1> HIDE DEF n, b
<1>5. \A s \in b + 1 .. n : s \in 1 .. n
  BY <1>1
<1> QED
  BY <1>1, <1>2, <1>3, <1>4, <1>5

-------------------------------------------------------------------------------
(***************************************************************************)
(* A is moved to an intermediate.                                          *)
(***************************************************************************)
LEMMA SavedIs ==
    ASSUME NEW out, IInv(out), stage = "running", control # << >>, SaveA
    PROVE  /\ allocate_intermediate.index \in FreeIndex
           /\ <<Instruction("mov", a_index, allocate_intermediate.index)>> \in Seq(InstructionType)
           /\ frames' \in Seq(FrameType) /\ frames'[Len(frames)].size \in 0 .. Byte - 1
           /\ Grown(frames, frames', <<Instruction("mov", a_index, allocate_intermediate.index)>>,
                    frames'[Len(frames)].size)
           /\ scopes' \in Seq(ScopeType) /\ wrapped' \in BOOLEAN /\ SameScopes(scopes, scopes')
           /\ ~wrapped' =>
                /\ ~wrapped /\ Size =< frames'[Len(frames)].size
                /\ IsLocal(allocate_intermediate.index, frames'[Len(frames)].size)
                /\ \A cd, a, x : a \in Nat /\ x \in Nat /\ HeldNow(control, cd, a, x, allocate_intermediate.index) =>
                     CellsApart(scopes', BaseOf(Len(frames)), cd, frames'[Len(frames)].size)
<1> DEFINE L    == Len(scopes)
           free == scopes[L].free
           b    == BaseOf(Len(frames))
<1>1. /\ frames \in Seq(FrameType) /\ frames # << >> /\ Size \in 0 .. Byte - 1 /\ Size \in Int
      /\ scopes \in Seq(ScopeType) /\ scopes # << >> /\ L \in Nat \ {0} /\ b \in 1 .. L
      /\ Len(frames) \in Nat \ {0} /\ wrapped \in BOOLEAN
  BY Running
<1>2. free \in Seq(FreeIndex) /\ scopes[L] \in ScopeType
  <2>1. scopes[L] \in ScopeType
    BY <1>1
  <2> QED
    BY <2>1 DEF ScopeType
<1>3. NextSize = (Size + 1) % Byte /\ NextSize \in 0 .. Byte - 1 /\ (NextSize # 0 => NextSize = Size + 1)
  <2>1. NextSize = (Size + 1) % Byte
    BY DEF NextSize, Size, Current
  <2>2. \A n \in 0 .. Byte - 1 : (n + 1) % Byte \in 0 .. Byte - 1 /\ ((n + 1) % Byte # 0 => (n + 1) % Byte = n + 1)
    BY DEF Byte
  <2> QED
    BY <1>1, <2>1, <2>2
<1>4. a_index \in AnyIndex
  BY DEF a_index, Index, AnyIndex, MemoryIndex, IndexType, InRange, Byte
<1>5. ASSUME NEW i \in FreeIndex
      PROVE  <<Instruction("mov", a_index, i)>> \in Seq(InstructionType)
  <2>1. i \in AnyIndex
    BY DEF FreeIndex, IndicesOf
  <2>2. Instruction("mov", a_index, i) \in InstructionType
    BY <1>4, <2>1 DEF Instruction, InstructionType, CodeOp
  <2> QED
    BY <2>2
<1>6. ASSUME NEW size \in 0 .. Byte - 1, NEW i \in FreeIndex,
             frames' = [Emitted(<<Instruction("mov", a_index, i)>>) EXCEPT ![Current].size = size]
      PROVE  /\ frames' \in Seq(FrameType) /\ frames'[Len(frames)].size = size
             /\ Grown(frames, frames', <<Instruction("mov", a_index, i)>>, size)
  <2> DEFINE added == <<Instruction("mov", a_index, i)>>
  <2>1. added \in Seq(InstructionType) /\ frames' = [Emitted(added) EXCEPT ![Current].size = size]
    BY <1>5, <1>6
  <2> HIDE DEF added
  <2>2. frames' \in Seq(FrameType) /\ Grown(frames, frames', added, size)
    BY <1>1, <2>1, EmittedGrows
  <2> QED
    BY <2>2 DEF Grown, added
<1>7. CASE free = << >>
  <2> DEFINE i == NewIndex("intermediate")
  <2>1. allocate_intermediate = [index |-> i, size |-> NextSize, wrapped |-> Wrapped, scopes |-> scopes]
    BY <1>7 DEF allocate_intermediate
  <2>2. i \in FreeIndex /\ i.type = "intermediate" /\ i.value = Size
    BY <1>1 DEF NewIndex, Index, Size, Current, FreeIndex, IndicesOf, AnyIndex, MemoryIndex, IndexType, InRange
  <2> HIDE DEF i
  <2>3. /\ frames' = [Emitted(<<Instruction("mov", a_index, i)>>) EXCEPT ![Current].size = NextSize]
        /\ scopes' = scopes /\ wrapped' = Wrapped /\ allocate_intermediate.index = i
    BY <2>1 DEF SaveA
  <2>4. /\ frames' \in Seq(FrameType) /\ frames'[Len(frames)].size = NextSize
        /\ Grown(frames, frames', <<Instruction("mov", a_index, i)>>, NextSize)
    BY <1>3, <1>6, <2>2, <2>3
  <2>5. SameScopes(scopes, scopes') /\ wrapped' \in BOOLEAN
    BY <1>1, <2>3 DEF SameScopes, Wrapped
  <2>6. ASSUME ~wrapped' PROVE ~wrapped /\ NextSize = Size + 1 /\ Size =< NextSize
    <3>1. ~Wrapped
      BY <2>3, <2>6
    <3>2. ~wrapped /\ NextSize # 0
      BY <3>1 DEF Wrapped
    <3> QED
      BY <1>1, <1>3, <3>2
  <2>7. ASSUME ~wrapped', NEW cd, NEW a \in Nat, NEW x \in Nat, HeldNow(control, cd, a, x, i)
        PROVE  CellsApart(scopes', b, cd, NextSize)
    <3>1. CellsApart(scopes, b, control, Size) /\ Size \in Nat \ {0} /\ b \in Nat
      BY <2>6, <2>7, OpenIndices DEF BaseOf
    <3>2. CellsApart(scopes, b, cd, Size + 1)
      BY <2>2, <2>7, <3>1, CellsHeld, SMTT(30) DEF HeldNow
    <3> QED
      BY <2>3, <2>6, <2>7, <3>2
  <2>8. ASSUME ~wrapped' PROVE IsLocal(i, NextSize)
    BY <1>1, <2>2, <2>6, <2>8 DEF IsLocal
  <2> QED
    BY <1>1, <1>3, <1>5, <2>2, <2>3, <2>4, <2>5, <2>6, <2>7, <2>8
<1>8. CASE free # << >>
  <2> DEFINE i == Head(free)
             sd == [scopes EXCEPT ![Len(scopes)].free = Tail(@)]
  <2>1. allocate_intermediate = [index |-> i, size |-> Size, wrapped |-> wrapped, scopes |-> sd]
    BY <1>8 DEF allocate_intermediate, Size, Current
  <2>2. /\ i \in FreeIndex /\ i = free[1] /\ Tail(free) \in Seq(FreeIndex) /\ Len(Tail(free)) = Len(free) - 1
        /\ Len(free) \in Nat \ {0} /\ \A k \in 1 .. Len(free) - 1 : Tail(free)[k] = free[k + 1]
    BY <1>2, <1>8, TailIs
  <2>3. sd \in Seq(ScopeType) /\ Refreed(scopes, sd, Tail(free))
    <3>1. sd = [scopes EXCEPT ![Len(scopes)].free = Tail(free)]
      OBVIOUS
    <3> QED
      BY <1>1, <2>2, <3>1, RefreedIs
  <2> HIDE DEF i, sd
  <2>4. /\ frames' = [Emitted(<<Instruction("mov", a_index, i)>>) EXCEPT ![Current].size = Size]
        /\ scopes' = sd /\ wrapped' = wrapped /\ allocate_intermediate.index = i
    BY <2>1 DEF SaveA
  <2>5. /\ frames' \in Seq(FrameType) /\ frames'[Len(frames)].size = Size
        /\ Grown(frames, frames', <<Instruction("mov", a_index, i)>>, Size)
    BY <1>1, <1>6, <2>2, <2>4
  <2>6. SameScopes(scopes, sd)
    BY <2>3 DEF SameScopes, Refreed
  <2>7. i.type = "intermediate"
    BY <2>2 DEF FreeIndex, IndicesOf
  <2>8. ASSUME ~wrapped PROVE CellsApart(scopes, b, control, Size) /\ b \in Nat /\ i.value \in 1 .. Size - 1
    <3>1. CellsApart(scopes, b, control, Size) /\ b \in Nat
      BY <2>8, OpenIndices DEF BaseOf
    <3> DEFINE u == <<"free", L, 1>>
    <3>2. u \in Uses(scopes, b, control) /\ Cell(scopes, control, u) = free[1].value
      <4>1. L \in b .. L /\ L \in Nat /\ 1 \in 1 .. Len(free)
        BY <1>1, <2>2
      <4> QED
        BY <4>1 DEF Uses, IsUse, UseKind, Cell
    <3> HIDE DEF u
    <3> QED
      BY <2>2, <3>1, <3>2 DEF CellsApart
  <2>9. ASSUME ~wrapped, NEW cd, NEW a \in Nat, NEW x \in Nat, HeldNow(control, cd, a, x, i)
        PROVE  CellsApart(sd, b, cd, Size)
    <3> DEFINE m == Len(free) - 1
    <3>1. m \in Nat /\ Len(scopes[L].free) = m + 1 /\ Len(sd[L].free) = m
          /\ \A k \in 1 .. m : sd[L].free[k] = scopes[L].free[k + 1]
      BY <2>2, <2>3 DEF Refreed
    <3>2. /\ Len(sd) = Len(scopes) /\ L \in b .. Len(sd) /\ sd[L].table = scopes[L].table /\ L \in Nat
          /\ \A s \in b .. Len(sd) : s # L => sd[s] = scopes[s]
      BY <1>1, <2>3 DEF Refreed
    <3>3. HeldNow(control, cd, a, x, scopes[L].free[1]) /\ ScopeTaken(scopes, sd, b, L, m)
      BY <2>2, <2>9, <3>1, <3>2 DEF ScopeTaken
    <3>4. CellsApart(scopes, b, control, Size) /\ b \in Nat /\ Size \in Int
      BY <1>1, <2>8, <2>9
    <3> HIDE DEF m, L, b, free
    <3> QED
      BY <3>3, <3>4, <2>9, CellsTaken
  <2>10. ASSUME ~wrapped PROVE IsLocal(i, Size)
    <3>1. i.value \in 0 .. Size - 1
      BY <1>1, <2>8, <2>10
    <3> QED
      BY <2>7, <3>1 DEF IsLocal
  <2> QED
    BY <1>1, <1>5, <2>2, <2>3, <2>4, <2>5, <2>6, <2>8, <2>9, <2>10, SMTT(30)
<1> QED
  BY <1>7, <1>8

-------------------------------------------------------------------------------
(***************************************************************************)
(* A handler returns.                                                      *)
(***************************************************************************)
LEMMA HereGrows ==
    ASSUME NEW out, IInv(out), stage = "running", control # << >>,
           NEW added \in Seq(InstructionType), NEW size, Grown(frames, frames', added, size)
    PROVE  /\ Len(frames') = Len(frames) /\ Here' = Here + Len(added) /\ Here' \in Nat /\ Here =< Here'
           /\ Len(added) \in Nat /\ frames'[Len(frames)].size = size
<1>1. Code \in Seq(InstructionType) /\ Code = frames[Len(frames)].code /\ Here = Len(Code) /\ Here \in Nat
  BY Running DEF Here
<1>2. Len(frames') = Len(frames) /\ frames'[Len(frames)].code = Code \o added /\ frames'[Len(frames)].size = size
  BY <1>1 DEF Grown
<1>3. Here' = Len(Code \o added)
  BY <1>2 DEF Here, Code, Current
<1>4. Len(Code \o added) = Len(Code) + Len(added) /\ Len(added) \in Nat
  BY <1>1, ConcatIs
<1> QED
  BY <1>1, <1>2, <1>3, <1>4

LEMMA ControlGrows ==
    ASSUME NEW out, IInv(out), stage = "running", control # << >>,
           marked' \in Seq(FunctionName), Prefix(marked, marked'), Here' \in Nat, Here =< Here'
    PROVE  ControlOK(out, Len(frames), marked', Here', control)
BY Running, ControlLater

\* What the scopes of the other handlers are, and what they hold.
LEMMA CallersAre ==
    ASSUME NEW out, IInv(out), stage = "running", control # << >>, node # ProgramNode
    PROVE  /\ Callers \in Seq(HandlerType) /\ Popped(control, Callers) /\ Callers # << >>
           /\ ~Scoped(top) => /\ Cardinality(ScopedIn(Callers)) = Cardinality(ScopedIn(control))
                              /\ OpenJumps(Callers) = OpenJumps(control)
           /\ node.type # "function_return" => ~Finished(Len(frames), Callers)
           /\ ~wrapped => /\ CellsApart(scopes, BaseOf(Len(frames)), Callers, Size)
                          /\ HeldOK(Callers, Size, Len(immediates))
<1>1. /\ ControlOK(out, Len(frames), marked, Here, control) /\ control \in Seq(HandlerType)
      /\ top = control[Len(control)] /\ node = top.node /\ Callers = SubSeq(control, 1, Len(control) - 1)
      /\ Size \in Int
  BY Running DEF top, node, Callers
<1>2. /\ Callers \in Seq(HandlerType) /\ Popped(control, Callers) /\ Callers # << >>
      /\ node.type # "function_return" => ~Finished(Len(frames), Callers)
  <2>1. control[Len(control)].node # ProgramNode
    BY <1>1
  <2> QED
    BY <1>1, <2>1, ReturnControl
<1>3. ~Scoped(top) => /\ Cardinality(ScopedIn(Callers)) = Cardinality(ScopedIn(control))
                      /\ OpenJumps(Callers) = OpenJumps(control)
  BY <1>1, <1>2, ScopedPopped
<1>4. ASSUME ~wrapped
      PROVE  /\ CellsApart(scopes, BaseOf(Len(frames)), Callers, Size)
             /\ HeldOK(Callers, Size, Len(immediates))
  <2>1. /\ CellsApart(scopes, BaseOf(Len(frames)), control, Size)
        /\ HeldOK(control, Size, Len(immediates))
    BY <1>4, OpenIndices
  <2>2. HeldOK(Callers, Size, Len(immediates))
    BY <1>1, <1>2, <2>1, HeldPopped
  <2>3. \A s \in BaseOf(Len(frames)) .. Len(scopes) : SameScope(scopes, scopes, BaseOf(Len(frames)), s)
    BY DEF SameScope
  <2>4. BaseOf(Len(frames)) \in Nat /\ Size =< Size
    BY <1>1 DEF BaseOf
  <2>5. \A c, k : Held(Callers, c, k) => SameHeld(control, Callers, c, k)
    BY <1>1, <1>2, HeldReturns
  <2> QED
    BY <1>1, <2>1, <2>2, <2>3, <2>4, <2>5, CellsKept
<1> QED
  BY <1>2, <1>3, <1>4

\* The innermost handler returns index'.
LEMMA Returns ==
    ASSUME NEW out, IInv(out), stage = "running", control # << >>, node # ProgramNode, ~Scoped(top),
           control' = Callers, StepTypes, marked' = marked, pending' = pending, SameScopes(scopes, scopes'),
           NEW added \in Seq(InstructionType), NEW size, Grown(frames, frames', added, size),
           ~wrapped' => /\ ~wrapped /\ StepCode(out)
                        /\ ReturnOK(node, index', size, Len(immediates'))
                        /\ HeldOK(Callers, size, Len(immediates'))
                        /\ CellsApart(scopes', BaseOf(Len(frames)), Callers, size)
    PROVE  IInv(out)'
<1>1. /\ Here' \in Nat /\ Here =< Here' /\ frames'[Len(frames)].size = size
  BY HereGrows
<1>2. /\ control \in Seq(HandlerType) /\ top = control[Len(control)] /\ node = top.node
      /\ Callers = SubSeq(control, 1, Len(control) - 1) /\ marked' \in Seq(FunctionName)
      /\ Prefix(marked, marked') /\ Len(frames) \in Nat /\ BaseOf(Len(frames)) \in 1 .. Len(scopes)
      /\ scopes \in Seq(ScopeType)
  BY Running DEF top, node, Callers, Prefix
<1>3. ControlOK(out, Len(frames), marked', Here', control)
  BY <1>1, <1>2, ControlGrows
<1>4. /\ Callers \in Seq(HandlerType) /\ Callers # << >>
      /\ ControlOK(out, Len(frames), marked', Here', Callers)
      /\ CallsNode(Len(frames), Callers[Len(Callers)], node) /\ node \in Node
  <2>1. control[Len(control)].node # ProgramNode
    BY <1>2
  <2> QED
    BY <1>2, <1>3, <2>1, ReturnControl
<1>5. Cardinality(ScopedIn(Callers)) = Cardinality(ScopedIn(control))
  BY CallersAre
<1>6. ScopesOK(Len(frames), scopes', control')
  <2>1. ScopesOK(Len(frames), scopes, control)
    BY DEF IInv, ScopesInv
  <2> QED
    BY <1>2, <1>4, <1>5, <2>1, ScopesKept
<1>7. ASSUME ~wrapped' PROVE ~wrapped /\ StepCode(out) /\ StepHeld
  <2>1. /\ Callers[Len(Callers)] \in HandlerType
        /\ Callers[Len(Callers)].at \in Labels(Callers[Len(Callers)].node.type)
    BY <1>4, TopFacts DEF HandlerOK
  <2>2. IndexOK(Callers[Len(Callers)], index', size, Len(immediates'))
    BY <1>4, <1>7, <2>1, ReturnedIsOK
  <2> QED
    BY <1>1, <1>7, <2>2 DEF StepHeld
<1>8. StepMarks
  BY SameMarks
<1> QED
  BY <1>3, <1>4, <1>6, <1>7, <1>8, Collect

\* One instruction is emitted.
LEMMA EmitIs ==
    ASSUME NEW out, IInv(out), stage = "running", control # << >>,
           NEW op \in CodeOp, NEW a \in AnyIndex, NEW b \in AnyIndex, emit(op, a, b)
    PROVE  /\ <<Instruction(op, a, b)>> \in Seq(InstructionType)
           /\ frames' \in Seq(FrameType) /\ Len(frames') = Len(frames)
           /\ Grown(frames, frames', <<Instruction(op, a, b)>>, Size)
<1>1. Instruction(op, a, b) \in InstructionType
  BY DEF Instruction, InstructionType
<1> DEFINE added == <<Instruction(op, a, b)>>
<1>2. added \in Seq(InstructionType)
  BY <1>1
<1>3. frames' = Emitted(added)
  BY DEF emit
<1> HIDE DEF added
<1>4. frames \in Seq(FrameType) /\ frames # << >> /\ Size \in 0 .. Byte - 1
  BY Running
<1>5. frames' \in Seq(FrameType) /\ Grown(frames, frames', added, Size)
  BY <1>2, <1>3, <1>4, EmittedGrows DEF Size
<1> QED
  BY <1>2, <1>5 DEF added, Grown

\* What a step that returns leaves alone.
Steady == /\ marked' = marked /\ pending' = pending /\ stage' = stage /\ ast' = ast /\ ec' = ec
          /\ wrapped' = wrapped

\* The immediates, which can become more, and the innermost scope.
MoreImmediates == immediates' \in Seq(Value) /\ Len(immediates') =< Byte /\ Len(immediates) =< Len(immediates')
StillScopes    == scopes' \in Seq(ScopeType) /\ SameScopes(scopes, scopes')

\* A handler emits code without jumps and returns.
LEMMA AddsReturns ==
    ASSUME NEW out, IInv(out), stage = "running", control # << >>, node # ProgramNode, ~Scoped(top),
           control' = Callers, index' \in ResultIndex, Steady, MoreImmediates, StillScopes,
           NEW added \in Seq(InstructionType), frames' \in Seq(FrameType), Grown(frames, frames', added, Size),
           ~wrapped =>
             /\ node.type # "function_return"
             /\ \A k \in 1 .. Len(added) :
                  /\ added[k].op \notin JumpOp
                  /\ InstructionOK(out, Len(frames), added[k], Size, Len(immediates'), Len(marked))
             /\ ReturnOK(node, index', Size, Len(immediates'))
             /\ CellsApart(scopes', BaseOf(Len(frames)), Callers, Size)
    PROVE  IInv(out)'
<1>1. Size \in Int /\ Len(immediates) \in Int /\ Len(immediates') \in Int /\ Len(marked) \in Int /\ wrapped \in BOOLEAN
  BY Running DEF MoreImmediates
<1>2. Len(frames') = Len(frames) /\ StepTypes
  BY <1>1, HereGrows DEF StepTypes, Steady, MoreImmediates, StillScopes
<1>3. ASSUME ~wrapped
      PROVE  StepCode(out) /\ HeldOK(Callers, Size, Len(immediates'))
  <2>1. /\ OpenJumps(Callers) = OpenJumps(control) /\ ~Finished(Len(frames), Callers)
        /\ HeldOK(Callers, Size, Len(immediates))
    BY <1>3, CallersAre
  <2>2. Size =< Size /\ Len(marked') = Len(marked) /\ Len(marked) =< Len(marked') /\ Len(marked') \in Int
    BY <1>1 DEF Steady
  <2>3. HeldOK(Callers, Size, Len(immediates'))
    BY <1>1, <2>1, <2>2, HeldLater DEF MoreImmediates
  <2>4. ~Finished(Len(frames), control)
    BY Running
  <2>5. Len(immediates) =< Len(immediates')
    BY DEF MoreImmediates
  <2>6. \A k \in 1 .. Len(added) :
          /\ added[k].op \notin JumpOp
          /\ InstructionOK(out, Len(frames), added[k], Size, Len(immediates'), Len(marked'))
    BY <1>3, <2>2
  <2> QED
    BY <1>1, <1>3, <2>1, <2>2, <2>3, <2>4, <2>5, <2>6, CodeStep
<1>4. wrapped' = wrapped /\ marked' = marked /\ pending' = pending /\ SameScopes(scopes, scopes')
  BY DEF Steady, StillScopes
<1> QED
  BY <1>2, <1>3, <1>4, Returns

\* It emits one instruction.
LEMMA EmitsReturns ==
    ASSUME NEW out, IInv(out), stage = "running", control # << >>, node # ProgramNode, ~Scoped(top),
           control' = Callers, index' \in ResultIndex, Steady, MoreImmediates, StillScopes,
           NEW op \in CodeOp \ JumpOp, NEW a \in AnyIndex, NEW b \in AnyIndex, emit(op, a, b),
           ~wrapped =>
             /\ node.type # "function_return"
             /\ InstructionOK(out, Len(frames), Instruction(op, a, b), Size, Len(immediates'), Len(marked))
             /\ ReturnOK(node, index', Size, Len(immediates'))
             /\ CellsApart(scopes', BaseOf(Len(frames)), Callers, Size)
    PROVE  IInv(out)'
<1> DEFINE added == <<Instruction(op, a, b)>>
<1>1. added \in Seq(InstructionType) /\ frames' \in Seq(FrameType) /\ Grown(frames, frames', added, Size)
  BY EmitIs
<1>2. Len(added) = 1 /\ added[1] = Instruction(op, a, b) /\ Instruction(op, a, b).op = op
  BY DEF Instruction
<1> HIDE DEF added
<1>3. ASSUME ~wrapped, NEW k \in 1 .. Len(added)
      PROVE  /\ added[k].op \notin JumpOp
             /\ InstructionOK(out, Len(frames), added[k], Size, Len(immediates'), Len(marked))
  <2>1. k = 1
    BY <1>2, <1>3
  <2> QED
    BY <1>2, <1>3, <2>1
<1> QED
  BY <1>1, <1>3, AddsReturns

\* It emits nothing, and the scopes are left alone.
LEMMA SilentReturns ==
    ASSUME NEW out, IInv(out), stage = "running", control # << >>, node # ProgramNode, ~Scoped(top),
           control' = Callers, index' \in ResultIndex, Steady, MoreImmediates, frames' = frames, scopes' = scopes,
           ~wrapped => node.type # "function_return" /\ ReturnOK(node, index', Size, Len(immediates'))
    PROVE  IInv(out)'
<1> DEFINE added == << >>
<1>1. added \in Seq(InstructionType) /\ Len(added) = 0
  OBVIOUS
<1>2. frames \in Seq(FrameType) /\ frames # << >> /\ scopes \in Seq(ScopeType)
  BY Running
<1>3. frames' \in Seq(FrameType) /\ Grown(frames, frames', added, Size)
  BY <1>2, SameGrows DEF Size
<1> HIDE DEF added
<1>4. StillScopes
  BY <1>2 DEF StillScopes, SameScopes
<1>5. ~wrapped => CellsApart(scopes', BaseOf(Len(frames)), Callers, Size)
  BY CallersAre
<1>6. \A k \in 1 .. Len(added) : FALSE
  BY <1>1
<1> QED
  BY <1>1, <1>3, <1>4, <1>5, <1>6, AddsReturns

\* The indices that there always are.
LEMMA FixedIndices ==
    /\ NoIndex \in AnyIndex /\ NoIndex \in ResultIndex
    /\ a_index \in AnyIndex /\ a_index \in ResultIndex /\ a_index # NoIndex /\ a_index.type = "stack" /\ a_index.value = 0
<1>1. /\ NoIndex \in AnyIndex /\ a_index \in AnyIndex /\ a_index.type = "stack" /\ NoIndex.type = "none"
      /\ a_index.value = 0
  BY DEF NoIndex, a_index, Index, AnyIndex, MemoryIndex, IndexType, InRange, Byte
<1> QED
  BY <1>1 DEF ResultIndex, IndicesOf

\* The register is a cell of every frame.
LEMMA RegisterIsLocal ==
    ASSUME NEW size \in Nat \ {0}, NEW n
    PROVE  IsLocal(a_index, size) /\ IsOperand(a_index, size, n)
<1>1. 0 \in 0 .. size - 1
  OBVIOUS
<1> QED
  BY <1>1, FixedIndices DEF IsLocal, IsOperand

\* The index that the innermost handler has been given.
LEMMA IndexIs ==
    ASSUME NEW out, IInv(out), stage = "running", control # << >>
    PROVE  /\ index \in AnyIndex
           /\ index # NoIndex => index.type \in {"immediate", "stack"} /\ index \in HeldIndex
           /\ ~wrapped /\ top.at \in OperandLabel /\ index # NoIndex => IsOperand(index, Size, Len(immediates))
           /\ ~wrapped /\ IsTarget(top) => IsLocal(index, Size)
<1>1. index \in ResultIndex
  BY Running
<1>2. index \in AnyIndex /\ (index # NoIndex => index.type \in {"immediate", "stack"} /\ index \in HeldIndex)
  BY <1>1, FixedIndices DEF ResultIndex, IndicesOf, HeldIndex
<1>3. ASSUME ~wrapped
      PROVE  /\ top.at \in OperandLabel /\ index # NoIndex => IsOperand(index, Size, Len(immediates))
             /\ IsTarget(top) => IsLocal(index, Size)
  BY <1>3, OpenIndices DEF IndexOK
<1> QED
  BY <1>2, <1>3

\* The index that an operator has kept.
LEMMA RhsIs ==
    ASSUME NEW out, IInv(out), stage = "running", control # << >>, top.at = "lhs"
    PROVE  /\ Len(top.indices) = 1 /\ rhs_index \in HeldIndex /\ rhs_index \in AnyIndex
           /\ ~wrapped => IsOperand(rhs_index, Size, Len(immediates))
<1>1. top \in HandlerType /\ Len(top.indices) = 1
  BY Running DEF HandlerOK
<1>2. top.indices \in Seq(HeldIndex) /\ 1 \in 1 .. Len(top.indices)
  BY <1>1 DEF HandlerType
<1>3. top.indices[1] \in HeldIndex
  BY <1>2
<1>4. ~wrapped => IsOperand(top.indices[1], Size, Len(immediates))
  BY <1>2, OpenIndices
<1> QED
  BY <1>1, <1>3, <1>4 DEF rhs_index, HeldIndex, IndicesOf

LEMMA SameImmediates ==
    ASSUME NEW out, IInv(out), stage = "running", control # << >>, immediates' = immediates
    PROVE  MoreImmediates
BY Running DEF MoreImmediates

LEMMA SameScopesStill ==
    ASSUME NEW out, IInv(out), stage = "running", control # << >>, scopes' = scopes
    PROVE  StillScopes
BY Running DEF StillScopes, SameScopes

LEMMA SteadyIs ==
    ASSUME Stays, wrapped' = wrapped
    PROVE  Steady
BY DEF Stays, called, Steady

\* A handler of an expression or of a return is not of a construct.
LEMMA NotScoped ==
    ASSUME NEW out, IInv(out), stage = "running", control # << >>, node.type # "program", node.type \notin Constructs
    PROVE  /\ node \in Node /\ node # ProgramNode /\ ~Scoped(top)
           /\ ~wrapped => CellsApart(scopes, BaseOf(Len(frames)), Callers, Size)
<1>1. node # ProgramNode
  BY IsProgram
<1>2. node \in Node
  BY <1>1, Running
<1>3. ~Scoped(top)
  BY DEF Scoped, node
<1> QED
  BY <1>1, <1>2, <1>3, CallersAre

LEMMA GiveUpStep ==
    ASSUME NEW out, IInv(out), give_up
    PROVE  IInv(out)'
<1>1. /\ stage = "running" /\ control # << >> /\ top.node = node
      /\ node.type \in Operators \cup {"unary_operator", "function_call", "function_return"}
      /\ top.at \in OperandLabel /\ index = NoIndex /\ control' = Callers /\ index' = NoIndex
      /\ Quiet /\ marked' = marked /\ pending' = pending
  BY AtIs, QuietIs DEF give_up, OperandLabel, Return
<1>2. node \in Node /\ node # ProgramNode /\ ~Scoped(top)
  BY <1>1, NotScoped DEF Operators, Constructs
<1>3. Steady /\ MoreImmediates /\ frames' = frames /\ scopes' = scopes /\ index' \in ResultIndex
  BY <1>1, SameImmediates, FixedIndices DEF Quiet, Steady
<1>4. ASSUME ~wrapped
      PROVE  node.type # "function_return" /\ ReturnOK(node, index', Size, Len(immediates'))
  <2>1. ~NeedsIndex(top)
    BY <1>1, <1>4, OpenIndices DEF IndexOK
  <2>2. node.type = "update_expression"
    BY <1>1, <2>1 DEF NeedsIndex
  <2> QED
    BY <1>1, <2>2 DEF ReturnOK, IsNumber, value_type, NumberType, is_lvalue
<1> QED
  BY <1>1, <1>2, <1>3, <1>4, SilentReturns

LEMMA AssignmentStep ==
    ASSUME NEW out, IInv(out), assemble_assignment
    PROVE  IInv(out)'
<1>1. /\ stage = "running" /\ control # << >> /\ top.node = node /\ node.type = "assignment"
      /\ top.at = "lhs" /\ index # NoIndex /\ control' = Callers /\ index' = NoIndex
      /\ immediates' = immediates /\ scopes' = scopes /\ wrapped' = wrapped /\ Stays
  BY AtIs DEF assemble_assignment, Given, Return
<1>2. node \in Node /\ node # ProgramNode /\ ~Scoped(top)
      /\ (~wrapped => CellsApart(scopes, BaseOf(Len(frames)), Callers, Size))
  BY <1>1, NotScoped DEF Constructs
<1>3. Steady /\ MoreImmediates /\ StillScopes /\ index' \in ResultIndex
  BY <1>1, SameImmediates, SameScopesStill, SteadyIs, FixedIndices
<1>4. ReturnOK(node, index', Size, Len(immediates'))
  BY <1>1 DEF ReturnOK, IsNumber, value_type, NumberType, is_lvalue
<1>5. CASE rhs_index # index
  <2>1. emit("mov", rhs_index, index) /\ rhs_index \in AnyIndex /\ index \in AnyIndex /\ "mov" \in CodeOp \ JumpOp
    BY <1>1, <1>5, RhsIs, IndexIs DEF assemble_assignment, CodeOp, JumpOp
  <2>2. ASSUME ~wrapped
        PROVE  InstructionOK(out, Len(frames), Instruction("mov", rhs_index, index), Size, Len(immediates'), Len(marked))
    <3>1. IsOperand(rhs_index, Size, Len(immediates)) /\ IsLocal(index, Size)
      BY <1>1, <2>2, RhsIs, IndexIs DEF IsTarget
    <3> QED
      BY <1>1, <3>1 DEF InstructionOK, Instruction, TwoOp, SelfOp
  <2>3. ~wrapped => CellsApart(scopes', BaseOf(Len(frames)), Callers, Size)
    BY <1>1, <1>2
  <2> QED
    BY <1>1, <1>2, <1>3, <1>4, <2>1, <2>2, <2>3, EmitsReturns
<1>6. CASE rhs_index = index
  <2>1. frames' = frames
    BY <1>6 DEF assemble_assignment
  <2> QED
    BY <1>1, <1>2, <1>3, <1>4, <2>1, SilentReturns
<1> QED
  BY <1>5, <1>6

\* An operation whose result goes to A, or is stored in its left-hand side.
LEMMA UpdateStep ==
    ASSUME NEW out, IInv(out), assemble_update
    PROVE  IInv(out)'
<1> DEFINE op == UpdateCode[node.op]
<1>1. /\ stage = "running" /\ control # << >> /\ top.node = node /\ node.type = "update_expression"
      /\ top.at = "lhs" /\ index # NoIndex /\ control' = Callers /\ index' = NoIndex
      /\ immediates' = immediates /\ scopes' = scopes /\ wrapped' = wrapped /\ Stays
      /\ emit(op, index, rhs_index)
  BY AtIs DEF assemble_update, Given, Return
<1>2. node \in Node /\ node # ProgramNode /\ ~Scoped(top)
      /\ (~wrapped => CellsApart(scopes, BaseOf(Len(frames)), Callers, Size))
  BY <1>1, NotScoped DEF Constructs
<1>3. Steady /\ MoreImmediates /\ StillScopes /\ index' \in ResultIndex
  BY <1>1, SameImmediates, SameScopesStill, SteadyIs, FixedIndices
<1>4. ReturnOK(node, index', Size, Len(immediates'))
  BY <1>1 DEF ReturnOK, IsNumber, value_type, NumberType, is_lvalue
<1>5. op \in SelfOp
  <2>1. node.op \in ArithmeticOp
    BY <1>1, <1>2, NodeFacts
  <2> QED
    BY <2>1 DEF UpdateCode, ArithmeticOp, SelfOp
<1> HIDE DEF op
<1>6. op \in CodeOp \ JumpOp /\ rhs_index \in AnyIndex /\ index \in AnyIndex
  BY <1>1, <1>5, RhsIs, IndexIs DEF CodeOp, JumpOp, SelfOp
<1>7. ASSUME ~wrapped
      PROVE  InstructionOK(out, Len(frames), Instruction(op, index, rhs_index), Size, Len(immediates'), Len(marked))
  <2>1. IsOperand(rhs_index, Size, Len(immediates)) /\ IsLocal(index, Size) /\ IsOperand(index, Size, Len(immediates))
    BY <1>1, <1>7, RhsIs, IndexIs DEF IsTarget, IsOperand
  <2> QED
    BY <1>1, <1>5, <2>1 DEF InstructionOK, Instruction, TwoOp, SelfOp
<1>8. ~wrapped => CellsApart(scopes', BaseOf(Len(frames)), Callers, Size)
  BY <1>1, <1>2
<1> QED
  BY <1>1, <1>2, <1>3, <1>4, <1>6, <1>7, <1>8, EmitsReturns

LEMMA RelationalStep ==
    ASSUME NEW out, IInv(out), assemble_relational
    PROVE  IInv(out)'
<1> DEFINE op == RelationCode[node.op]
<1>1. /\ stage = "running" /\ control # << >> /\ top.node = node /\ node.type = "relational_operator"
      /\ top.at = "lhs" /\ index # NoIndex /\ control' = Callers /\ index' = NoIndex
      /\ immediates' = immediates /\ scopes' = scopes /\ wrapped' = wrapped /\ Stays
      /\ emit(op, index, rhs_index)
  BY AtIs DEF assemble_relational, Given, Return
<1>2. node \in Node /\ node # ProgramNode /\ ~Scoped(top)
      /\ (~wrapped => CellsApart(scopes, BaseOf(Len(frames)), Callers, Size))
  BY <1>1, NotScoped DEF Constructs
<1>3. Steady /\ MoreImmediates /\ StillScopes /\ index' \in ResultIndex
  BY <1>1, SameImmediates, SameScopesStill, SteadyIs, FixedIndices
<1>4. ReturnOK(node, index', Size, Len(immediates'))
  BY <1>1 DEF ReturnOK, IsNumber, value_type, NumberType, is_lvalue
<1>5. op \in TwoOp
  <2>1. node.op \in RelationalOp
    BY <1>1, <1>2, NodeFacts
  <2> QED
    BY <2>1 DEF RelationCode, RelationalOp, TwoOp
<1> HIDE DEF op
<1>6. op \in CodeOp \ JumpOp /\ rhs_index \in AnyIndex /\ index \in AnyIndex
  BY <1>1, <1>5, RhsIs, IndexIs DEF CodeOp, JumpOp, TwoOp
<1>7. ASSUME ~wrapped
      PROVE  InstructionOK(out, Len(frames), Instruction(op, index, rhs_index), Size, Len(immediates'), Len(marked))
  <2>1. IsOperand(rhs_index, Size, Len(immediates)) /\ IsOperand(index, Size, Len(immediates))
    BY <1>1, <1>7, RhsIs, IndexIs DEF OperandLabel
  <2> QED
    BY <1>1, <1>5, <2>1 DEF InstructionOK, Instruction, TwoOp, SelfOp
<1>8. ~wrapped => CellsApart(scopes', BaseOf(Len(frames)), Callers, Size)
  BY <1>1, <1>2
<1> QED
  BY <1>1, <1>2, <1>3, <1>4, <1>6, <1>7, <1>8, EmitsReturns

-------------------------------------------------------------------------------
(***************************************************************************)
(* The assembler stops, with an error or in an assertion.                  *)
(***************************************************************************)
LEMMA Stops ==
    ASSUME NEW out, IInv(out), stage' \in {"failed", "asserted"}, ec' \in AssemblerErrorCode,
           ec' # "ok" <=> stage' = "failed", ast' = ast, control' = control, index' = index, Silent,
           marked' = marked, pending' \in 0 .. Len(marked)
    PROVE  IInv(out)'
<1>1. /\ frames' = frames /\ immediates' = immediates /\ scopes' = scopes /\ wrapped' = wrapped
  BY DEF Silent, context
<1>2. TypesOK'
  BY <1>1 DEF IInv, TypesOK
<1>3. StageOK'
  BY <1>1 DEF IInv, StageOK
<1>4. ControlInv(out)'
  BY <1>1 DEF IInv, ControlInv, Here, Code, Current
<1>5. ScopesInv' /\ CodeInv(out)' /\ IndexInv' /\ CellsInv'
  BY DEF ScopesInv, CodeInv, IndexInv, CellsInv
<1> QED
  BY <1>2, <1>3, <1>4, <1>5 DEF IInv

LEMMA Asserts ==
    ASSUME NEW out, IInv(out), stage = "running", Assert, UNCHANGED <<ast, called>>
    PROVE  IInv(out)'
<1>1. ec = "ok" /\ pending \in 0 .. Len(marked) /\ "ok" \in AssemblerErrorCode
  BY DEF IInv, TypesOK, AssemblerErrorCode
<1>2. stage' = "asserted" /\ control' = control /\ index' = index /\ ec' = ec /\ Silent
      /\ ast' = ast /\ marked' = marked /\ pending' = pending
  BY DEF Assert, called
<1> QED
  BY <1>1, <1>2, Stops

LEMMA Fails ==
    ASSUME NEW out, IInv(out), NEW code \in AssemblerErrorCode \ {"ok"}, Fail(code), Silent,
           UNCHANGED <<control, index>>, UNCHANGED <<ast, marked>>, pending' \in 0 .. Len(marked)
    PROVE  IInv(out)'
BY Stops DEF Fail

-------------------------------------------------------------------------------
(***************************************************************************)
(* Expressions without operands, and those with one.                       *)
(***************************************************************************)
LEMMA ReferenceStep ==
    ASSUME NEW out, IInv(out), assemble_reference
    PROVE  IInv(out)'
<1>1. /\ stage = "running" /\ control # << >> /\ top.node = node /\ node.type = "variable_ref"
      /\ Silent /\ UNCHANGED <<ast, called>>
  BY AtIs DEF assemble_reference
<1>2. marked' = marked /\ pending' = pending /\ ast' = ast /\ pending \in 0 .. Len(marked)
  BY <1>1 DEF called, IInv, TypesOK
<1>3. CASE ~has_identifier(node.name)
  <2>1. Fail("unresolved_identifier") /\ UNCHANGED <<control, index>>
    BY <1>3 DEF assemble_reference
  <2> QED
    BY <1>1, <1>2, <2>1, Fails DEF AssemblerErrorCode
<1>4. CASE has_identifier(node.name)
  <2> DEFINE i == find_identifier(node.name)
             b == BaseOf(Len(frames))
  <2>1. control' = Callers /\ index' = i /\ stage' = stage /\ ec' = ec
    BY <1>4 DEF assemble_reference, Return
  <2>2. node \in Node /\ node # ProgramNode /\ ~Scoped(top)
    BY <1>1, NotScoped DEF Constructs
  <2>3. scopes \in Seq(ScopeType) /\ Len(scopes) \in Nat /\ b \in Nat /\ b \in 1 .. Len(scopes)
    BY <1>1, Running DEF BaseOf
  <2>4. PICK s \in 1 .. Len(scopes) : Binds(s, node.name) /\ i = scopes[s].table[node.name]
    BY <1>4, <2>3, FindIs
  <2>5. node.name \in DOMAIN scopes[s].table /\ Visible(s) /\ node.name \in Name
    BY <1>1, <2>2, <2>4, ConstructFacts DEF Binds
  <2>6. i \in NameIndex
    <3>1. scopes[s] \in ScopeType
      BY <2>3
    <3> QED
      BY <2>4, <2>5, <3>1 DEF ScopeType, TableType
  <2> HIDE DEF i
  <2>7. i \in ResultIndex /\ i.type = "stack" /\ i \in AnyIndex
    BY <2>6 DEF NameIndex, IndicesOf, ResultIndex
  <2>8. s \in b .. Len(scopes)
    <3>1. ~scopes[b].inherits
      BY <1>1 DEF IInv, ScopesInv, ScopesOK
    <3>2. ASSUME s < b PROVE FALSE
      <4>1. b \in s + 1 .. Len(scopes)
        BY <2>3, <3>2
      <4> QED
        BY <2>5, <3>1, <4>1 DEF Visible
    <3> QED
      BY <2>3, <3>2
  <2>9. ASSUME ~wrapped PROVE node.type # "function_return" /\ ReturnOK(node, i, Size, Len(immediates'))
    <3>1. CellsApart(scopes, b, control, Size) /\ Size \in Nat
      BY <1>1, <2>9, OpenIndices
    <3>2. i.value \in 0 .. Size - 1
      <4> DEFINE u == <<"name", s, node.name>>
      <4>1. u \in Uses(scopes, b, control) /\ Cell(scopes, control, u) = i.value
        <5>1. s \in Nat
          BY <2>3
        <5>2. u \in Uses(scopes, b, control)
          BY <2>3, <2>5, <2>8, <5>1, UseIs
        <5>3. Cell(scopes, control, u) = scopes[s].table[node.name].value
          BY DEF Cell
        <5> QED
          BY <2>4, <5>2, <5>3
      <4> HIDE DEF u
      <4>2. i.value \in 1 .. Size - 1
        BY <3>1, <4>1 DEF CellsApart
      <4> QED
        BY <3>1, <4>2
    <3>3. i # NoIndex
      BY <2>7 DEF NoIndex, Index
    <3> QED
      BY <1>1, <2>7, <3>2, <3>3 DEF ReturnOK, IsOperand, IsLocal
  <2>10. Steady /\ MoreImmediates /\ frames' = frames /\ scopes' = scopes
    BY <1>1, <1>2, <2>1, SameImmediates DEF Steady, Silent, context
  <2> QED
    BY <1>1, <2>1, <2>2, <2>7, <2>9, <2>10, SilentReturns
<1> QED
  BY <1>3, <1>4

\* A value is put among the immediates, unless that asserts.
LEMMA NewImmediate ==
    ASSUME NEW out, IInv(out), stage = "running", control # << >>, NEW v \in Value,
           ~Asserting({ImmediateIndex(v)}), immediates' = WithImmediate(v)
    PROVE  /\ MoreImmediates /\ ImmediateIndex(v) \in ResultIndex /\ ImmediateIndex(v) \in AnyIndex
           /\ ImmediateIndex(v) # NoIndex /\ IsOperand(ImmediateIndex(v), Size, Len(immediates'))
<1> DEFINE i == ImmediateIndex(v)
<1>1. immediates \in Seq(Value) /\ Len(immediates) =< Byte
  BY Running
<1>2. /\ immediates' \in Seq(Value) /\ Prefix(immediates, immediates') /\ i \in MemoryIndex /\ i.type = "immediate"
      /\ i.value \in 0 .. Len(immediates') - 1 /\ (InRange(i) => Len(immediates') =< Byte)
  BY <1>1, ImmediateIs
<1>3. InRange(i)
  BY DEF Asserting
<1> HIDE DEF i
<1>4. MoreImmediates
  BY <1>2, <1>3 DEF MoreImmediates, Prefix
<1>5. i \in AnyIndex /\ i \in ResultIndex /\ i # NoIndex /\ IsOperand(i, Size, Len(immediates'))
  BY <1>2, <1>3 DEF AnyIndex, ResultIndex, IndicesOf, NoIndex, Index, IsOperand
<1> QED
  BY <1>4, <1>5 DEF i

LEMMA ConstantStep ==
    ASSUME NEW out, IInv(out), assemble_constant
    PROVE  IInv(out)'
<1>1. /\ stage = "running" /\ control # << >> /\ top.node = node /\ node.type = "numeric_constant"
      /\ UNCHANGED <<ast, called>>
  BY AtIs DEF assemble_constant
<1>2. node \in Node /\ node # ProgramNode /\ ~Scoped(top) /\ node.value \in Value
  BY <1>1, NotScoped, ConstructFacts DEF Constructs
<1>3. CASE Asserting({ImmediateIndex(node.value)})
  BY <1>1, <1>3, Asserts DEF assemble_constant
<1>4. CASE ~Asserting({ImmediateIndex(node.value)})
  <2> DEFINE i == ImmediateIndex(node.value)
  <2>1. /\ immediates' = WithImmediate(node.value) /\ control' = Callers /\ index' = i
        /\ frames' = frames /\ scopes' = scopes /\ wrapped' = wrapped /\ stage' = stage /\ ec' = ec
    BY <1>4 DEF assemble_constant, Return
  <2>2. MoreImmediates /\ i \in ResultIndex /\ i # NoIndex /\ IsOperand(i, Size, Len(immediates'))
    BY <1>1, <1>2, <1>4, <2>1, NewImmediate
  <2> HIDE DEF i
  <2>3. Steady
    BY <1>1, <2>1 DEF Steady, called
  <2>4. node.type # "function_return" /\ ReturnOK(node, index', Size, Len(immediates'))
    BY <1>1, <2>1, <2>2 DEF ReturnOK, is_lvalue
  <2> QED
    BY <1>1, <1>2, <2>1, <2>2, <2>3, <2>4, SilentReturns
<1> QED
  BY <1>3, <1>4

\* The operand of an unary operator is there.
LEMMA UnaryEnd ==
    ASSUME NEW out, IInv(out), OutAssumption(out), assemble_unary, top.at # "start"
    PROVE  IInv(out)'
<1> DEFINE mi == ImmediateIndex(MinusOne)
<1>1. /\ stage = "running" /\ control # << >> /\ top.node = node /\ node.type = "unary_operator"
      /\ top.at = "operand" /\ index # NoIndex
      /\ UNCHANGED <<ast, called>>
  <2>1. ~At({"unary_operator"}, "start")
    BY DEF At
  <2>2. Given({"unary_operator"}, "operand") /\ UNCHANGED <<ast, called>>
    BY <2>1 DEF assemble_unary
  <2> QED
    BY <2>2, AtIs DEF Given
<1>2. node \in Node /\ node # ProgramNode /\ ~Scoped(top) /\ node.op \in UnaryOp
      /\ (~wrapped => CellsApart(scopes, BaseOf(Len(frames)), Callers, Size))
  BY <1>1, NotScoped, NodeFacts DEF Constructs
<1>3. CASE node.op = "minus" /\ Asserting({mi})
  <2>1. Assert
    BY <1>1, <1>3, AtIs DEF assemble_unary
  <2> QED
    BY <1>1, <2>1, Asserts
<1>4. CASE ~(node.op = "minus" /\ Asserting({mi}))
  <2>1. /\ control' = Callers /\ index' = (IF node.op = "plus" THEN index ELSE a_index)
        /\ scopes' = scopes /\ wrapped' = wrapped /\ stage' = stage /\ ec' = ec
        /\ node.op = "minus" => emit("mul", index, mi) /\ immediates' = WithImmediate(MinusOne)
        /\ node.op = "plus" => frames' = frames /\ immediates' = immediates
        /\ node.op = "factorial" => emit("fac", index, NoIndex) /\ immediates' = immediates
        /\ node.op = "magnitude" => emit("mag", index, NoIndex) /\ immediates' = immediates
    BY <1>1, <1>4, AtIs DEF assemble_unary, Return
  <2>2. Steady /\ StillScopes
    BY <1>1, <2>1, SameScopesStill DEF Steady, called
  <2>3. index \in AnyIndex /\ index \in ResultIndex /\ NoIndex \in AnyIndex /\ a_index \in ResultIndex
    BY <1>1, IndexIs, FixedIndices, Running
  <2>4. ~wrapped => IsOperand(index, Size, Len(immediates))
    BY <1>1, IndexIs DEF OperandLabel
  <2>5. Len(immediates) \in Int /\ Size \in Int /\ MinusOne \in Value
    BY <1>1, Running DEF OutAssumption
  <2>6. ~wrapped => node.type # "function_return" /\ ReturnOK(node, a_index, Size, Len(immediates'))
    <3>1. ~wrapped => Size \in Nat \ {0}
      BY <1>1, OpenIndices
    <3> QED
      BY <1>1, <3>1, RegisterIsLocal, FixedIndices DEF ReturnOK
  <2>7. ~wrapped => CellsApart(scopes', BaseOf(Len(frames)), Callers, Size)
    BY <1>2, <2>1
  <2>8. CASE node.op = "minus"
    <3>1. ~Asserting({mi}) /\ emit("mul", index, mi) /\ immediates' = WithImmediate(MinusOne) /\ index' = a_index
      BY <1>4, <2>1, <2>8
    <3>2. MoreImmediates /\ mi \in AnyIndex /\ IsOperand(mi, Size, Len(immediates'))
      BY <1>1, <2>5, <3>1, NewImmediate
    <3> HIDE DEF mi
    <3>3. ASSUME ~wrapped
          PROVE  InstructionOK(out, Len(frames), Instruction("mul", index, mi), Size, Len(immediates'), Len(marked))
      <4>1. Len(immediates') \in Int /\ Len(immediates) =< Len(immediates') /\ Size =< Size
        BY <2>5, <3>2 DEF MoreImmediates
      <4>2. IsOperand(index, Size, Len(immediates'))
        BY <2>4, <2>5, <3>3, <4>1, OperandLater
      <4> QED
        BY <3>2, <4>2 DEF InstructionOK, Instruction, TwoOp, SelfOp
    <3>4. "mul" \in CodeOp \ JumpOp
      BY DEF CodeOp, TwoOp, JumpOp
    <3> QED
      BY <1>1, <1>2, <2>1, <2>2, <2>3, <2>6, <2>7, <3>1, <3>2, <3>3, <3>4, EmitsReturns
  <2>9. CASE node.op = "plus"
    <3>1. MoreImmediates /\ frames' = frames /\ index' = index /\ immediates' = immediates
      BY <1>1, <2>1, <2>9, SameImmediates
    <3>2. ~wrapped => node.type # "function_return" /\ ReturnOK(node, index', Size, Len(immediates'))
      BY <1>1, <2>4, <3>1 DEF ReturnOK, is_lvalue
    <3> QED
      BY <1>1, <1>2, <2>1, <2>2, <2>3, <3>1, <3>2, SilentReturns
  <2>10. CASE node.op \in {"factorial", "magnitude"}
    <3>1. PICK op \in {"fac", "mag"} : emit(op, index, NoIndex)
      BY <2>1, <2>10
    <3>2. MoreImmediates /\ index' = a_index /\ immediates' = immediates
      BY <1>1, <2>1, <2>10, SameImmediates
    <3>3. ASSUME ~wrapped
          PROVE  InstructionOK(out, Len(frames), Instruction(op, index, NoIndex), Size, Len(immediates'), Len(marked))
      BY <2>4, <3>2, <3>3 DEF InstructionOK, Instruction, TwoOp, SelfOp
    <3>4. op \in CodeOp \ JumpOp
      BY DEF CodeOp, JumpOp
    <3> QED
      BY <1>1, <1>2, <2>1, <2>2, <2>3, <2>6, <2>7, <3>1, <3>2, <3>3, <3>4, EmitsReturns
  <2> QED
    BY <1>2, <2>8, <2>9, <2>10 DEF UnaryOp
<1> QED
  BY <1>3, <1>4

\* A call jumps to its function.
LEMMA JumpToFunction ==
    ASSUME NEW out, IInv(out), At({"function_call"}, "arguments"),
           emit("jsr", Index("immediate", find_function(node.callee)), NoIndex), Return(a_index),
           UNCHANGED <<immediates, scopes, wrapped>>, Stays
    PROVE  IInv(out)'
<1>1. /\ stage = "running" /\ control # << >> /\ top.node = node /\ node.type = "function_call"
      /\ top.at = "arguments" /\ control' = Callers /\ index' = a_index
      /\ immediates' = immediates /\ scopes' = scopes /\ wrapped' = wrapped
  BY AtIs DEF Return
<1>2. node \in Node /\ node # ProgramNode /\ ~Scoped(top)
      /\ (~wrapped => CellsApart(scopes, BaseOf(Len(frames)), Callers, Size))
  BY <1>1, NotScoped DEF Constructs
<1>3. Steady /\ MoreImmediates /\ StillScopes /\ index' \in ResultIndex
  BY <1>1, SameImmediates, SameScopesStill, SteadyIs, FixedIndices
<1>4. PICK k \in 1 .. Len(marked) : k < Byte /\ marked[k] = node.callee
  <2>1. HandlerOK(out, Len(frames), marked, Here, top)
    BY <1>1, Running
  <2>2. CallOK(marked, top)
    BY <1>1, <2>1 DEF HandlerOK
  <2> QED
    BY <1>1, <2>2 DEF CallOK
<1>5. find_function(node.callee) = k
  <2>1. marked \in Seq(FunctionName) /\ ~Repeated(marked)
    BY DEF IInv, TypesOK
  <2> QED
    BY <1>4, <2>1, FunctionIs
<1> DEFINE a == Index("immediate", k)
<1>6. a \in AnyIndex /\ a.value = k
  <2>1. k \in Nat /\ k \in 0 .. Byte - 1
    BY <1>1, <1>4, Running DEF Byte
  <2> QED
    BY <2>1 DEF Index, AnyIndex, MemoryIndex, IndexType, InRange
<1>7. emit("jsr", a, NoIndex) /\ NoIndex \in AnyIndex /\ "jsr" \in CodeOp \ JumpOp
  BY <1>5, FixedIndices DEF CodeOp, JumpOp
<1> HIDE DEF a
<1>8. InstructionOK(out, Len(frames), Instruction("jsr", a, NoIndex), Size, Len(immediates'), Len(marked))
  BY <1>4, <1>6 DEF InstructionOK, Instruction, TwoOp, SelfOp
<1>9. ASSUME ~wrapped
      PROVE  /\ node.type # "function_return" /\ ReturnOK(node, index', Size, Len(immediates'))
             /\ CellsApart(scopes', BaseOf(Len(frames)), Callers, Size)
  <2>1. Size \in Nat \ {0}
    BY <1>1, <1>9, OpenIndices
  <2> QED
    BY <1>1, <1>2, <1>9, <2>1, RegisterIsLocal, FixedIndices DEF ReturnOK
<1> QED
  BY <1>1, <1>2, <1>3, <1>6, <1>7, <1>8, <1>9, EmitsReturns

\* A frame that becomes one cell larger.
LEMMA NextSizeIs ==
    ASSUME NEW out, IInv(out), stage = "running", control # << >>
    PROVE  /\ NextSize \in 0 .. Byte - 1 /\ Wrapped \in BOOLEAN
           /\ ~Wrapped => ~wrapped /\ NextSize = Size + 1 /\ Size =< NextSize
<1>1. Size \in 0 .. Byte - 1 /\ wrapped \in BOOLEAN
  BY Running
<1>2. NextSize = (Size + 1) % Byte
  BY DEF NextSize, Size, Current
<1>3. \A n \in 0 .. Byte - 1 : (n + 1) % Byte \in 0 .. Byte - 1 /\ ((n + 1) % Byte # 0 => (n + 1) % Byte = n + 1)
  BY DEF Byte
<1>4. NextSize \in 0 .. Byte - 1 /\ (NextSize # 0 => NextSize = Size + 1)
  BY <1>1, <1>2, <1>3
<1>5. ASSUME ~Wrapped PROVE ~wrapped /\ NextSize # 0
  BY <1>5 DEF Wrapped
<1>6. Wrapped \in BOOLEAN
  BY <1>1 DEF Wrapped
<1>7. NextSize = Size + 1 => Size =< NextSize
  BY <1>1
<1> QED
  BY <1>4, <1>5, <1>6, <1>7

LEMMA DeclarationStep ==
    ASSUME NEW out, IInv(out), assemble_declaration
    PROVE  IInv(out)'
<1>1. /\ stage = "running" /\ control # << >> /\ top.node = node /\ node.type = "variable_decl"
      /\ UNCHANGED <<ast, called>>
  BY AtIs DEF assemble_declaration
<1>2. node \in Node /\ node # ProgramNode /\ ~Scoped(top) /\ node.name \in Name
  BY <1>1, NotScoped, ConstructFacts DEF Constructs
<1>3. marked' = marked /\ pending' = pending /\ ast' = ast /\ pending \in 0 .. Len(marked)
  BY <1>1 DEF called, IInv, TypesOK
<1>4. CASE has_identifier(node.name)
  <2>1. Fail("duplicate_name") /\ Silent /\ UNCHANGED <<control, index>>
    BY <1>4 DEF assemble_declaration
  <2> QED
    BY <1>3, <2>1, Fails DEF AssemblerErrorCode
<1>5. CASE ~has_identifier(node.name)
  <2> DEFINE i == NewIndex("stack")
             L == Len(scopes)
             b == BaseOf(Len(frames))
             old == scopes[L].table
             new == [n \in DOMAIN old \cup {node.name} |-> IF n = node.name THEN i ELSE old[n]]
  <2>1. /\ scopes' = [scopes EXCEPT ![Len(scopes)].table = new]
        /\ frames' = [frames EXCEPT ![Current].size = NextSize]
        /\ wrapped' = Wrapped /\ control' = Callers /\ index' = i
        /\ immediates' = immediates /\ stage' = stage /\ ec' = ec
    BY <1>5 DEF assemble_declaration, Return
  <2>2. /\ scopes \in Seq(ScopeType) /\ scopes # << >> /\ L \in Nat \ {0} /\ b \in 1 .. L /\ b \in Nat
        /\ frames \in Seq(FrameType) /\ frames # << >> /\ Size \in 0 .. Byte - 1 /\ Len(frames) \in Nat
    BY <1>1, Running DEF BaseOf
  <2>3. i \in NameIndex /\ i \in ResultIndex /\ i.type = "stack" /\ i.value = Size /\ i # NoIndex
    BY <2>2 DEF NewIndex, Index, Size, Current, NameIndex, IndicesOf, AnyIndex, MemoryIndex, IndexType, InRange,
                ResultIndex, NoIndex
  <2>4. old \in TableType
    <3>1. scopes[L] \in ScopeType
      BY <2>2
    <3> QED
      BY <3>1 DEF ScopeType
  <2> HIDE DEF i
  <2>5. new \in TableType
    <3>1. PICK D \in SUBSET Name : old \in [D -> NameIndex]
      BY <2>4 DEF TableType
    <3>2. D \cup {node.name} \in SUBSET Name /\ DOMAIN old = D
      BY <1>2, <3>1
    <3>3. new \in [D \cup {node.name} -> NameIndex]
      BY <2>3, <3>1, <3>2
    <3> HIDE DEF new
    <3> QED
      BY <3>2, <3>3 DEF TableType
  <2>6. /\ DOMAIN new = DOMAIN old \cup {node.name} /\ new[node.name] = i
        /\ \A n \in DOMAIN old : n # node.name => new[n] = old[n]
    OBVIOUS
  <2> HIDE DEF new
  <2>7. scopes' \in Seq(ScopeType) /\ Retabled(scopes, scopes', new)
    BY <2>1, <2>2, <2>5, RetabledIs
  <2>8. StillScopes
    BY <2>7 DEF StillScopes, SameScopes, Retabled
  <2> DEFINE added == << >>
  <2>9. added \in Seq(InstructionType) /\ Len(added) = 0
    OBVIOUS
  <2> HIDE DEF added
  <2>10. NextSize \in 0 .. Byte - 1 /\ Wrapped \in BOOLEAN
         /\ (~Wrapped => ~wrapped /\ NextSize = Size + 1 /\ Size =< NextSize)
    BY <1>1, NextSizeIs
  <2>11. frames' \in Seq(FrameType) /\ Grown(frames, frames', added, NextSize) /\ Len(frames') = Len(frames)
    <3>1. frames' \in Seq(FrameType) /\ Grown(frames, frames', << >>, NextSize)
      BY <2>1, <2>2, <2>9, <2>10, EmittedGrows
    <3> QED
      BY <3>1 DEF added, Grown
  <2>13. StepTypes
    BY <1>1, <1>3, <2>1, <2>3, <2>7, <2>10, <2>11, Running DEF StepTypes
  <2>14. ASSUME ~wrapped'
         PROVE  /\ ~wrapped /\ StepCode(out)
                /\ ReturnOK(node, index', NextSize, Len(immediates'))
                /\ HeldOK(Callers, NextSize, Len(immediates'))
                /\ CellsApart(scopes', b, Callers, NextSize)
    <3>1. ~wrapped /\ NextSize = Size + 1 /\ Size =< NextSize /\ NextSize \in Int
      BY <2>1, <2>10, <2>14
    <3>2. /\ CellsApart(scopes, b, control, Size) /\ Size \in Nat \ {0}
          /\ ~Finished(Len(frames), control) /\ Len(immediates) \in Int /\ Len(marked) \in Int
      BY <1>1, <1>2, <3>1, OpenIndices, Running
    <3>3. /\ OpenJumps(Callers) = OpenJumps(control) /\ ~Finished(Len(frames), Callers)
          /\ HeldOK(Callers, Size, Len(immediates))
      BY <1>1, <1>2, <3>1, CallersAre
    <3>4. HeldOK(Callers, NextSize, Len(immediates'))
      <4>1. Len(immediates) =< Len(immediates)
        BY <3>2
      <4> QED
        BY <2>1, <3>1, <3>2, <3>3, <4>1, HeldLater
    <3>5. StepCode(out)
      <4>1. /\ Len(immediates') \in Int /\ Len(immediates) =< Len(immediates')
            /\ Len(marked') \in Int /\ Len(marked) =< Len(marked')
        BY <1>3, <2>1, <3>2
      <4>2. \A k \in 1 .. Len(added) :
              added[k].op \notin JumpOp
              /\ InstructionOK(out, Len(frames), added[k], NextSize, Len(immediates'), Len(marked'))
        BY <2>9
      <4> QED
        BY <1>1, <2>1, <2>9, <2>11, <3>1, <3>2, <3>3, <4>1, <4>2, CodeStep
    <3>6. ReturnOK(node, index', NextSize, Len(immediates'))
      <4>1. i.value \in 0 .. NextSize - 1
        BY <2>3, <3>1, <3>2
      <4> QED
        BY <1>1, <2>1, <2>3, <4>1 DEF ReturnOK, IsOperand, IsLocal
    <3>7. CellsApart(scopes', b, Callers, Size + 1)
      <4>1. CellsApart(scopes, b, Callers, Size)
        BY <1>1, <1>2, <3>1, CallersAre
      <4>2. /\ Len(scopes') = Len(scopes) /\ scopes'[L].free = scopes[L].free /\ scopes'[L].table = new
            /\ \A s \in b .. Len(scopes') : s # L => scopes'[s] = scopes[s]
        BY <2>2, <2>7 DEF Retabled
      <4>3. ScopeNamed(scopes, scopes', b, L, node.name, Size)
        BY <2>3, <2>6, <4>2 DEF ScopeNamed
      <4> HIDE DEF b, L
      <4> QED
        BY <2>2, <3>2, <4>1, <4>3, CellsNamed
    <3> QED
      BY <3>1, <3>4, <3>5, <3>6, <3>7
  <2>15. control' = Callers /\ marked' = marked /\ pending' = pending /\ SameScopes(scopes, scopes')
    BY <1>3, <2>1, <2>8 DEF StillScopes
  <2> QED
    BY <1>1, <1>2, <2>9, <2>11, <2>13, <2>14, <2>15, Returns
<1> QED
  BY <1>4, <1>5

\* The value that a function returns is moved to A.
LEMMA ReturnCodeIs ==
    ASSUME NEW i \in AnyIndex, NEW move, move = (IF i = a_index THEN << >> ELSE <<Instruction("mov", i, a_index)>>),
           NEW added, added = Append(move, Instruction("ret", NoIndex, NoIndex))
    PROVE  /\ added \in Seq(InstructionType) /\ added # << >> /\ Len(added) \in Nat \ {0}
           /\ added[Len(added)] = Instruction("ret", NoIndex, NoIndex)
           /\ \A k \in 1 .. Len(added) : \/ added[k] = Instruction("ret", NoIndex, NoIndex)
                                         \/ added[k] = Instruction("mov", i, a_index)
<1> DEFINE r == Instruction("ret", NoIndex, NoIndex)
           m == Instruction("mov", i, a_index)
<1>1. r \in InstructionType /\ m \in InstructionType
  BY FixedIndices DEF Instruction, InstructionType, CodeOp
<1> HIDE DEF r, m
<1>2. CASE i = a_index
  <2>1. added = <<r>>
    BY <1>2 DEF r
  <2> QED
    BY <1>1, <2>1 DEF r
<1>3. CASE i # a_index
  <2>1. move = <<m>> /\ added = Append(move, r)
    BY <1>3 DEF m, r
  <2>0. move \in Seq(InstructionType) /\ Len(move) = 1 /\ move[1] = m
    BY <1>1, <2>1
  <2>2. added \in Seq(InstructionType) /\ Len(added) = 2 /\ added[1] = m /\ added[2] = r
    BY <1>1, <2>0, <2>1
  <2>3. \A k \in 1 .. 2 : k = 1 \/ k = 2
    OBVIOUS
  <2>4. added # << >>
    BY <2>2
  <2> QED
    BY <2>2, <2>3, <2>4 DEF m, r
<1> QED
  BY <1>2, <1>3

LEMMA ReturnStep ==
    ASSUME NEW out, IInv(out), Given({"function_return"}, "value"),
           NEW move, move = (IF index = a_index THEN << >> ELSE <<Instruction("mov", index, a_index)>>),
           frames' = Emitted(Append(move, Instruction("ret", NoIndex, NoIndex))),
           Return(NoIndex), UNCHANGED <<immediates, scopes, wrapped>>, Stays
    PROVE  IInv(out)'
<1>1. /\ stage = "running" /\ control # << >> /\ top.node = node /\ node.type = "function_return"
      /\ top.at = "value" /\ index # NoIndex /\ control' = Callers /\ index' = NoIndex
      /\ immediates' = immediates /\ scopes' = scopes /\ wrapped' = wrapped
      /\ marked' = marked /\ pending' = pending /\ stage' = stage /\ ast' = ast /\ ec' = ec
  BY AtIs DEF Given, Return, Stays, called
<1>2. /\ node \in Node /\ node # ProgramNode /\ ~Scoped(top) /\ index \in AnyIndex
      /\ frames \in Seq(FrameType) /\ frames # << >> /\ Size \in 0 .. Byte - 1 /\ Size \in Int
      /\ Len(immediates) \in Int /\ Len(marked) \in Int /\ Len(frames) \in Nat
      /\ ~Finished(Len(frames), control)
  BY <1>1, NotScoped, IndexIs, Running DEF Constructs
<1> DEFINE added == Append(move, Instruction("ret", NoIndex, NoIndex))
<1>3. /\ added \in Seq(InstructionType) /\ added # << >> /\ Len(added) \in Nat \ {0}
      /\ added[Len(added)] = Instruction("ret", NoIndex, NoIndex)
      /\ \A k \in 1 .. Len(added) : \/ added[k] = Instruction("ret", NoIndex, NoIndex)
                                    \/ added[k] = Instruction("mov", index, a_index)
  BY <1>2, ReturnCodeIs, ZenonT(30)
<1>4. frames' = Emitted(added)
  OBVIOUS
<1> HIDE DEF added
<1>5. frames' \in Seq(FrameType) /\ Grown(frames, frames', added, Size) /\ Len(frames') = Len(frames)
  <2>1. frames' \in Seq(FrameType) /\ Grown(frames, frames', added, Size)
    BY <1>2, <1>3, <1>4, EmittedGrows DEF Size
  <2> QED
    BY <2>1 DEF Grown
<1>6. StepTypes
  BY <1>1, <1>5, FixedIndices, Running DEF StepTypes
<1>7. SameScopes(scopes, scopes')
  BY <1>1 DEF SameScopes
<1>8. ASSUME ~wrapped
      PROVE  /\ StepCode(out) /\ ReturnOK(node, index', Size, Len(immediates'))
             /\ HeldOK(Callers, Size, Len(immediates')) /\ CellsApart(scopes', BaseOf(Len(frames)), Callers, Size)
  <2>1. /\ Callers \in Seq(HandlerType) /\ Callers # << >> /\ OpenJumps(Callers) = OpenJumps(control)
        /\ HeldOK(Callers, Size, Len(immediates)) /\ CellsApart(scopes, BaseOf(Len(frames)), Callers, Size)
        /\ Popped(control, Callers)
    BY <1>1, <1>2, <1>8, CallersAre
  <2>2. ReturnOK(node, index', Size, Len(immediates'))
    BY <1>1 DEF ReturnOK, IsNumber, value_type, NumberType, is_lvalue
  <2>3. CodeOK(out, frames, Len(immediates), Len(marked)) /\ FramesOK(frames, control)
    BY <1>1, <1>8 DEF IInv, CodeInv
  <2>4. Size \in Nat \ {0} /\ IsOperand(index, Size, Len(immediates))
    BY <1>1, <1>8, OpenIndices, IndexIs DEF OperandLabel
  <2>5. Len(frames) = 1 => HasReturn(out)
    <3>1. HandlerOK(out, Len(frames), marked, Here, top)
      BY <1>1, Running
    <3>2. ASSUME Len(frames) = 1 PROVE node \in out
      <4>1. Outside(out, top)
        BY <3>1, <3>2 DEF HandlerOK
      <4>2. value_type(node) = "none"
        BY <1>1 DEF value_type, NumberType
      <4> QED
        BY <1>1, <1>2, <4>1, <4>2 DEF Outside
    <3> QED
      BY <1>1, <3>2 DEF HasReturn
  <2>6. ASSUME NEW k \in 1 .. Len(added)
        PROVE  /\ added[k].op \notin JumpOp
               /\ InstructionOK(out, Len(frames), added[k], Size, Len(immediates), Len(marked))
    <3>1. CASE added[k] = Instruction("ret", NoIndex, NoIndex)
      BY <2>5, <3>1 DEF InstructionOK, Instruction, TwoOp, SelfOp, JumpOp
    <3>2. CASE added[k] = Instruction("mov", index, a_index)
      <4>1. IsLocal(a_index, Size)
        BY <2>4, RegisterIsLocal
      <4> QED
        BY <2>4, <3>2, <4>1 DEF InstructionOK, Instruction, TwoOp, SelfOp, JumpOp
    <3> QED
      BY <1>3, <3>1, <3>2
  <2>7. CodeOK(out, frames', Len(immediates'), Len(marked')) /\ frames[1].size =< frames'[1].size
    <3>1. Size =< Size /\ Len(immediates) =< Len(immediates) /\ Len(marked) =< Len(marked)
          /\ frames[Len(frames)].size =< Size
      BY <1>2 DEF Size
    <3>3. \A k \in 1 .. Len(added) : InstructionOK(out, Len(frames), added[k], Size, Len(immediates), Len(marked))
      BY <2>6
    <3> DEFINE n == Len(immediates)
               m == Len(marked)
    <3>4. n \in Int /\ m \in Int /\ n =< n /\ m =< m /\ CodeOK(out, frames, n, m)
          /\ \A k \in 1 .. Len(added) : InstructionOK(out, Len(frames), added[k], Size, n, m)
      BY <1>2, <2>3, <3>1, <3>3
    <3> HIDE DEF n, m
    <3>5. /\ frames \in Seq(FrameType) /\ frames # << >> /\ frames' \in Seq(FrameType) /\ Size \in Int
          /\ added \in Seq(InstructionType) /\ Grown(frames, frames', added, Size)
          /\ frames[Len(frames)].size =< Size
      BY <1>2, <1>3, <1>5, <3>1
    <3> DEFINE fr == frames
               gr == frames'
               size == Size
               n2 == n
               m2 == m
    <3>6. /\ fr \in Seq(FrameType) /\ fr # << >> /\ gr \in Seq(FrameType) /\ size \in Int
          /\ added \in Seq(InstructionType) /\ Grown(fr, gr, added, size)
          /\ fr[Len(fr)].size =< size /\ CodeOK(out, fr, n, m)
          /\ n \in Int /\ m \in Int /\ n2 \in Int /\ m2 \in Int /\ n =< n2 /\ m =< m2
          /\ \A k \in 1 .. Len(added) : InstructionOK(out, Len(fr), added[k], size, n2, m2)
      BY <3>4, <3>5
    <3> HIDE DEF fr, gr, size, n2, m2
    <3>7. CodeOK(out, gr, n2, m2) /\ fr[1].size =< gr[1].size
      BY <3>6, CodeGrown, SMTT(30)
    <3>2. CodeOK(out, frames', Len(immediates), Len(marked)) /\ frames[1].size =< frames'[1].size
      BY <3>7 DEF n, m, n2, m2, fr, gr
    <3> QED
      BY <1>1, <3>2
  <2>8. FramesOK(frames', Callers)
    <3>1. CASE ~Finished(Len(frames), Callers)
      BY <1>2, <1>3, <1>5, <2>1, <2>3, <2>6, <3>1, FramesGrown
    <3>2. CASE Finished(Len(frames), Callers)
      <4>1. Len(frames) # 1 /\ Len(Callers) = 1
        BY <2>1, <3>2 DEF Finished
      <4>2. OpenJumps(control) = {}
        <5>1. ControlOK(out, Len(frames), marked, Here, Callers)
          BY <1>1, <2>1, ControlPopped, Running
        <5>2. Callers[1].node = ProgramNode
          BY <4>1, <5>1 DEF ControlOK
        <5>3. ~Scoped(Callers[1])
          BY <5>2, IsProgram DEF Scoped, Constructs
        <5>4. ScopedIn(Callers) = {}
          BY <4>1, <5>3 DEF ScopedIn
        <5> QED
          BY <2>1, <5>4 DEF OpenJumps
      <4>3. added[Len(added)].op = IF Len(frames) = 1 THEN "hlt" ELSE "ret"
        BY <1>3, <4>1 DEF Instruction
      <4> QED
        BY <1>2, <1>3, <1>5, <2>3, <2>6, <3>2, <4>2, <4>3, FramesFinished
    <3> QED
      BY <3>1, <3>2
  <2> QED
    BY <1>1, <2>1, <2>2, <2>7, <2>8 DEF StepCode
<1>9. ~wrapped' => /\ ~wrapped /\ StepCode(out)
                   /\ ReturnOK(node, index', Size, Len(immediates'))
                   /\ HeldOK(Callers, Size, Len(immediates'))
                   /\ CellsApart(scopes', BaseOf(Len(frames)), Callers, Size)
  BY <1>1, <1>8
<1> QED
  BY <1>1, <1>2, <1>3, <1>5, <1>6, <1>7, <1>9, Returns

-------------------------------------------------------------------------------
(***************************************************************************)
(* The innermost handler has used its first index, which is free again if  *)
(* it is an intermediate.                                                  *)
(***************************************************************************)
LEMMA FreedIs ==
    ASSUME NEW out, IInv(out), stage = "running", control # << >>, top.indices # << >>,
           scopes' = Freed(top.indices[1])
    PROVE  /\ StillScopes
           /\ ~wrapped => \A cd : LetsGo(control, cd, Len(control)) =>
                            CellsApart(scopes', BaseOf(Len(frames)), cd, Size)
<1> DEFINE i == top.indices[1]
           L == Len(scopes)
           b == BaseOf(Len(frames))
           a == Len(control)
<1>1. /\ scopes \in Seq(ScopeType) /\ scopes # << >> /\ L \in Nat \ {0} /\ b \in 1 .. L /\ b \in Nat
      /\ Size \in Int /\ a \in Nat \ {0} /\ top \in HandlerType
  BY Running DEF BaseOf
<1>2. i \in HeldIndex /\ 1 \in 1 .. Len(top.indices)
  <2>1. top.indices \in Seq(HeldIndex)
    BY <1>1 DEF HandlerType
  <2>2. 1 \in 1 .. Len(top.indices)
    BY <2>1
  <2> QED
    BY <2>1, <2>2
<1>3. ASSUME ~wrapped, NEW cd, LetsGo(control, cd, a)
      PROVE  /\ CellsApart(scopes, b, cd, Size)
             /\ i.type = "intermediate" => Unused(scopes, b, cd, Size, i.value)
  <2>1. CellsApart(scopes, b, control, Size)
    BY <1>3, OpenIndices
  <2>2. top = control[a] /\ (i.type = "intermediate" => Held(control, a, 1)) /\ control[a].indices[1] = i /\ a \in Nat
    BY <1>1, <1>2 DEF Held, top
  <2>3. /\ CellsApart(scopes, b, cd, Size)
        /\ Held(control, a, 1) => Unused(scopes, b, cd, Size, control[a].indices[1].value)
    <3> HIDE DEF a, b, i
    <3> QED
      BY <1>1, <1>3, <2>1, <2>2, CellsDropped
  <2> HIDE DEF a, b, i
  <2> QED
    BY <2>2, <2>3
<1>4. CASE i.type # "intermediate"
  <2>1. scopes' = scopes
    BY <1>4 DEF Freed
  <2> QED
    BY <1>3, <2>1, SameScopesStill
<1>5. CASE i.type = "intermediate"
  <2> DEFINE old == scopes[L].free
             new == Append(old, i)
  <2>1. i \in FreeIndex
    BY <1>2, <1>5 DEF FreeIndex, HeldIndex, IndicesOf
  <2>2. old \in Seq(FreeIndex)
    <3>1. scopes[L] \in ScopeType
      BY <1>1
    <3> QED
      BY <3>1 DEF ScopeType
  <2>3. scopes' = [scopes EXCEPT ![Len(scopes)].free = new]
    BY <1>5 DEF Freed
  <2> HIDE DEF i
  <2>4. /\ new \in Seq(FreeIndex) /\ Len(new) = Len(old) + 1 /\ new[Len(old) + 1] = i /\ Len(old) \in Nat
        /\ \A k \in 1 .. Len(old) : new[k] = old[k]
    BY <2>1, <2>2, AppendIs DEF Extended
  <2> HIDE DEF new
  <2>5. scopes' \in Seq(ScopeType) /\ Refreed(scopes, scopes', new)
    BY <1>1, <2>3, <2>4, RefreedIs
  <2>6. StillScopes
    BY <2>5 DEF StillScopes, SameScopes, Refreed
  <2>7. ASSUME ~wrapped, NEW cd, LetsGo(control, cd, a) PROVE CellsApart(scopes', b, cd, Size)
    <3> DEFINE value == i.value
               m == Len(old)
    <3>1. CellsApart(scopes, b, cd, Size) /\ Unused(scopes, b, cd, Size, value)
      BY <1>3, <1>5, <2>7
    <3>2. /\ Len(scopes') = Len(scopes) /\ L \in b .. Len(scopes') /\ L \in Nat
          /\ \A s \in b .. Len(scopes') : s # L => scopes'[s] = scopes[s]
          /\ scopes'[L].table = scopes[L].table /\ scopes'[L].free = new
      BY <1>1, <2>5 DEF Refreed
    <3>3. ScopeFreed(scopes, scopes', b, L, m, value)
      BY <2>4, <3>2 DEF ScopeFreed
    <3> HIDE DEF L, b, m, value
    <3> QED
      BY <1>1, <3>1, <3>3, CellsFreed
  <2> QED
    BY <2>6, <2>7
<1> QED
  BY <1>4, <1>5

LEMMA ArithmeticStep ==
    ASSUME NEW out, IInv(out), assemble_arithmetic
    PROVE  IInv(out)'
<1> DEFINE op == OperationCode[node.op]
<1>1. /\ stage = "running" /\ control # << >> /\ top.node = node /\ node.type = "arithmetic_operator"
      /\ top.at = "lhs" /\ index # NoIndex /\ control' = Callers /\ index' = a_index
      /\ immediates' = immediates /\ scopes' = Freed(rhs_index) /\ wrapped' = wrapped /\ Stays
      /\ emit(op, index, rhs_index)
  BY AtIs DEF assemble_arithmetic, Given, Return
<1>2. node \in Node /\ node # ProgramNode /\ ~Scoped(top)
  BY <1>1, NotScoped DEF Constructs
<1>3. StillScopes /\ (~wrapped => CellsApart(scopes', BaseOf(Len(frames)), Callers, Size))
  <2>1. top.indices # << >> /\ scopes' = Freed(top.indices[1])
    <3>1. top \in HandlerType /\ Len(top.indices) = 1
      BY <1>1, RhsIs, Running
    <3> QED
      BY <1>1, <3>1 DEF rhs_index, HandlerType
  <2>2. LetsGo(control, Callers, Len(control))
    <3>1. \A c, k : Held(Callers, c, k) => c # Len(control) /\ SameHeld(control, Callers, c, k)
      BY <1>1, <1>2, CallersAre, HeldReturns, Running
    <3> QED
      BY <3>1 DEF LetsGo
  <2> QED
    BY <1>1, <2>1, <2>2, FreedIs
<1>4. Steady /\ MoreImmediates /\ index' \in ResultIndex
  BY <1>1, SameImmediates, SteadyIs, FixedIndices
<1>5. op \in TwoOp
  <2>1. node.op \in ArithmeticOp
    BY <1>1, <1>2, NodeFacts
  <2> QED
    BY <2>1 DEF OperationCode, ArithmeticOp, TwoOp
<1> HIDE DEF op
<1>6. op \in CodeOp \ JumpOp /\ rhs_index \in AnyIndex /\ index \in AnyIndex
  BY <1>1, <1>5, RhsIs, IndexIs DEF CodeOp, JumpOp, TwoOp
<1>7. ASSUME ~wrapped
      PROVE  /\ InstructionOK(out, Len(frames), Instruction(op, index, rhs_index), Size, Len(immediates'), Len(marked))
             /\ ReturnOK(node, index', Size, Len(immediates'))
  <2>1. IsOperand(rhs_index, Size, Len(immediates)) /\ IsOperand(index, Size, Len(immediates))
    BY <1>1, <1>7, RhsIs, IndexIs DEF OperandLabel
  <2>2. Size \in Nat \ {0}
    BY <1>1, <1>7, OpenIndices
  <2>3. ReturnOK(node, index', Size, Len(immediates'))
    BY <1>1, <2>2, RegisterIsLocal, FixedIndices DEF ReturnOK
  <2> QED
    BY <1>1, <1>5, <2>1, <2>3 DEF InstructionOK, Instruction, TwoOp, SelfOp
<1> QED
  BY <1>1, <1>2, <1>3, <1>4, <1>6, <1>7, EmitsReturns

-------------------------------------------------------------------------------
(***************************************************************************)
(* A handler moves A to an intermediate and calls another.                 *)
(***************************************************************************)
LEMMA LhsSaves ==
    ASSUME NEW out, IInv(out), Given({"arithmetic_operator"}, "rhs"), SaveA,
           Assemble(node.lhs, [top EXCEPT !.at = "lhs", !.indices = <<allocate_intermediate.index>>]),
           UNCHANGED <<index, immediates>>, Stays
    PROVE  IInv(out)'
<1> DEFINE i == allocate_intermediate.index
           f == [top EXCEPT !.at = "lhs", !.indices = <<i>>]
           size == frames'[Len(frames)].size
           added == <<Instruction("mov", a_index, i)>>
           a == Len(control)
           b == BaseOf(Len(frames))
           n == node.lhs
<1>1. /\ stage = "running" /\ control # << >> /\ node.type = "arithmetic_operator" /\ top.at = "rhs"
      /\ top.node = node /\ Assemble(n, f) /\ index' = index /\ immediates' = immediates
      /\ stage' = stage /\ ast' = ast /\ ec' = ec /\ marked' = marked /\ pending' = pending
  BY AtIs DEF Given, Stays, called
<1>2. /\ top \in HandlerType /\ HandlerOK(out, Len(frames), marked, Here, top)
      /\ control \in Seq(HandlerType) /\ top = control[a] /\ a \in Nat \ {0}
      /\ node \in Node /\ node # ProgramNode /\ ~Finished(Len(frames), control)
      /\ Size \in Int /\ Len(immediates) \in Int /\ Len(marked) \in Int /\ marked \in Seq(FunctionName)
      /\ b \in 1 .. Len(scopes) /\ scopes \in Seq(ScopeType) /\ Len(frames) \in Nat
      /\ index \in ResultIndex /\ immediates \in Seq(Value) /\ Len(immediates) =< Byte
  BY <1>1, Running, IsProgram DEF top
<1>3. /\ i \in FreeIndex /\ added \in Seq(InstructionType) /\ frames' \in Seq(FrameType)
      /\ size \in 0 .. Byte - 1 /\ Grown(frames, frames', added, size)
      /\ scopes' \in Seq(ScopeType) /\ wrapped' \in BOOLEAN /\ SameScopes(scopes, scopes')
  BY <1>1, SavedIs
<1>4. ASSUME ~wrapped'
      PROVE  /\ ~wrapped /\ Size =< size /\ IsLocal(i, size)
             /\ \A cd, c, x : c \in Nat /\ x \in Nat /\ HeldNow(control, cd, c, x, i) => CellsApart(scopes', b, cd, size)
  BY <1>1, <1>4, SavedIs
<1>5. i \in HeldIndex /\ i.type = "intermediate" /\ <<i>> \in Seq(HeldIndex)
  BY <1>3 DEF FreeIndex, HeldIndex, IndicesOf
<1>6. added # << >> /\ Len(added) = 1 /\ added[1] = Instruction("mov", a_index, i)
  BY <1>3
<1> HIDE DEF i, added, size, b
<1>7. /\ f \in HandlerType /\ f.node = node /\ f.at = "lhs" /\ f.rest = top.rest
      /\ f.indices = <<i>> /\ f.jumps = top.jumps
  BY <1>1, <1>2, <1>5 DEF HandlerType, Label
<1> HIDE DEF f, n
<1>8. /\ Here' \in Nat /\ Here =< Here' /\ Len(frames') = Len(frames) /\ frames'[Len(frames)].size = size
  BY <1>1, <1>3, HereGrows
<1>9. ControlOK(out, Len(frames), marked', Here', control) /\ Prefix(marked, marked')
  <2>1. Prefix(marked, marked') /\ marked' \in Seq(FunctionName)
    BY <1>1, <1>2 DEF Prefix
  <2> QED
    BY <1>1, <1>8, <2>1, ControlGrows
<1>10. HandlerOK(out, Len(frames), marked', Here', f) /\ ~Scoped(f) /\ ~Scoped(top)
  <2>1. f.at \in Labels(top.node.type) /\ top.node.type \in ExpressionType /\ Len(f.indices) = 1
    BY <1>1, <1>7 DEF Labels, Operators, ExpressionType
  <2>2. HandlerOK(out, Len(frames), marked', Here', top)
    BY <1>1, <1>2, <1>9, TopFacts
  <2> QED
    BY <1>1, <1>2, <1>7, <2>1, <2>2, ExpressionOK
<1>11. GoesOn(out, Len(frames), marked', Here', control, f) /\ SameBody(control, f)
  BY <1>1, <1>2, <1>7, <1>9, <1>10 DEF GoesOn, SameBody
<1>12. CanCall(out, Len(frames), f, n)
  <2>1. n \in Node /\ Outside(out, Handler(n))
    BY <1>1, <1>2, LhsOutside DEF n, Operators
  <2> QED
    BY <1>7, <2>1 DEF CanCall, CallsNode, n
<1> DEFINE mid == Append(SubSeq(control, 1, Len(control) - 1), f)
<1>13. control' = Append(mid, Handler(n))
  BY <1>1 DEF Assemble, Callers
<1>14. /\ mid \in Seq(HandlerType) /\ Replaced(control, mid, f)
       /\ control' \in Seq(HandlerType) /\ Extended(mid, control', Handler(n))
       /\ ControlOK(out, Len(frames), marked', Here', control')
       /\ Len(control') = Len(control) + 1
       /\ Cardinality(ScopedIn(control')) = Cardinality(ScopedIn(control)) /\ OpenJumps(control') = OpenJumps(control)
  <2>1. mid = Append(SubSeq(control, 1, Len(control) - 1), f)
    OBVIOUS
  <2> HIDE DEF mid
  <2> QED
    BY <1>11, <1>12, <1>13, <2>1, PushControl
<1> HIDE DEF mid
<1>15. StepTypes /\ StepMarks
  BY <1>1, <1>2, <1>3, <1>8, SameMarks DEF StepTypes
<1>16. control' # << >> /\ ~Finished(Len(frames), control')
  BY <1>2, <1>14 DEF Finished
<1>17. ScopesOK(Len(frames), scopes', control')
  <2>1. ScopesOK(Len(frames), scopes, control)
    BY <1>1 DEF IInv, ScopesInv
  <2> QED
    BY <1>1, <1>2, <1>3, <1>14, <1>16, <2>1, ScopesKept DEF b
<1>18. ASSUME ~wrapped' PROVE ~wrapped /\ StepCode(out) /\ StepHeld
  <2>1. ~wrapped /\ Size =< size /\ IsLocal(i, size) /\ size \in Int
    BY <1>3, <1>4, <1>18
  <2>2. StepCode(out)
    <3>1. /\ Len(immediates') \in Int /\ Len(immediates) =< Len(immediates')
          /\ Len(marked') \in Int /\ Len(marked) =< Len(marked')
      BY <1>1, <1>2
    <3>2. IsOperand(a_index, Size, Len(immediates))
      BY <1>1, <2>1, OpenIndices, RegisterIsLocal
    <3>3. IsOperand(a_index, size, Len(immediates'))
      BY <1>2, <2>1, <3>1, <3>2, OperandLater
    <3>4. ASSUME NEW k \in 1 .. Len(added)
          PROVE  /\ added[k].op \notin JumpOp
                 /\ InstructionOK(out, Len(frames), added[k], size, Len(immediates'), Len(marked'))
      <4>1. added[k] = Instruction("mov", a_index, i)
        BY <1>6
      <4> QED
        BY <2>1, <3>3, <4>1 DEF InstructionOK, Instruction, TwoOp, SelfOp, JumpOp
    <3> QED
      BY <1>1, <1>2, <1>3, <1>14, <1>16, <2>1, <3>1, <3>4, CodeStep
  <2>3. Handler(n).indices = << >> /\ Handler(n).at = "start"
    BY DEF Handler
  <2>4. /\ control'[Len(control')] = Handler(n) /\ control'[a] = f
        /\ \A c, k : Held(control', c, k) =>
                \/ c # a /\ SameHeld(control, control', c, k)
                \/ c = a /\ control'[c] = f /\ k \in 1 .. Len(f.indices) /\ f.indices[k].type = "intermediate"
    BY <1>1, <1>2, <1>14, <2>3, HeldCalls, SMTT(30)
  <2>5. HeldOK(control', size, Len(immediates'))
    <3>1. HeldOK(control, size, Len(immediates))
      <4>1. HeldOK(control, Size, Len(immediates)) /\ Len(immediates) =< Len(immediates)
        BY <1>1, <1>2, <2>1, OpenIndices
      <4> QED
        BY <1>2, <2>1, <4>1, HeldLater
    <3>2. \A k \in 1 .. Len(f.indices) : IsOperand(f.indices[k], size, Len(immediates))
      BY <1>7, <2>1 DEF IsOperand
    <3>3. HeldOK(mid, size, Len(immediates))
      BY <1>1, <1>2, <1>14, <3>1, <3>2, HeldReplaced
    <3>4. \A k \in 1 .. Len(Handler(n).indices) : IsOperand(Handler(n).indices[k], size, Len(immediates))
      BY <2>3
    <3> QED
      BY <1>1, <1>14, <3>3, <3>4, HeldExtended
  <2>6. IndexOK(Handler(n), index', size, Len(immediates'))
    BY <2>3 DEF IndexOK, OperandLabel, NeedsIndex, IsTarget
  <2>7. CellsApart(scopes', b, control', size)
    <3>1. HeldNow(control, control', a, 1, i)
      <4>1. \A k : k \in 1 .. Len(f.indices) => k = 1
        BY <1>7
      <4>2. control'[a].indices[1] = i
        BY <1>7, <2>4
      <4> QED
        BY <2>4, <4>1, <4>2 DEF HeldNow
    <3> QED
      BY <1>2, <1>4, <1>18, <3>1
  <2> QED
    BY <1>8, <2>1, <2>2, <2>4, <2>5, <2>6, <2>7 DEF StepHeld, b
<1> QED
  BY <1>1, <1>14, <1>15, <1>17, <1>18, Collect

LEMMA LhsStep ==
    ASSUME NEW out, IInv(out), assemble_lhs
    PROVE  IInv(out)'
<1>1. Given(Operators, "rhs") /\ UNCHANGED <<index, immediates>> /\ Stays
  BY DEF assemble_lhs
<1>2. CASE node.type = "arithmetic_operator" /\ MustSave(index)
  <2>1. Given({"arithmetic_operator"}, "rhs")
    BY <1>1, <1>2 DEF Given, At
  <2>2. SaveA /\ Assemble(node.lhs, [top EXCEPT !.at = "lhs", !.indices = <<allocate_intermediate.index>>])
    BY <1>2 DEF assemble_lhs
  <2> QED
    BY <1>1, <2>1, <2>2, LhsSaves
<1>3. CASE ~(node.type = "arithmetic_operator" /\ MustSave(index))
  <2>1. Assemble(node.lhs, [top EXCEPT !.at = "lhs", !.indices = <<index>>]) /\ UNCHANGED <<frames, scopes, wrapped>>
    BY <1>3 DEF assemble_lhs
  <2> QED
    BY <1>1, <2>1, LhsKeeps
<1> QED
  BY <1>2, <1>3

-------------------------------------------------------------------------------
(***************************************************************************)
(* A handler goes on.                                                      *)
(***************************************************************************)
LEMMA ControlBecomes ==
    ASSUME NEW out, IInv(out), stage = "running", control # << >>,
           marked' \in Seq(FunctionName), Prefix(marked, marked'), Here' \in Nat, Here =< Here',
           NEW f \in HandlerType, HandlerOK(out, Len(frames), marked', Here', f), f.node = node,
           control' = Append(Callers, f)
    PROVE  /\ control' \in Seq(HandlerType) /\ Replaced(control, control', f) /\ control' # << >>
           /\ Len(control') = Len(control) /\ control'[Len(control)] = f
           /\ ControlOK(out, Len(frames), marked', Here', control')
           /\ Popped(control, Callers) /\ Popped(control', Callers) /\ Callers \in Seq(HandlerType)
           /\ SameBody(control, f) => /\ Cardinality(ScopedIn(control')) = Cardinality(ScopedIn(control))
                                      /\ OpenJumps(control') = OpenJumps(control)
<1>1. ControlOK(out, Len(frames), marked', Here', control)
  BY ControlGrows
<1>2. control \in Seq(HandlerType) /\ top = control[Len(control)] /\ node = top.node
      /\ Callers = SubSeq(control, 1, Len(control) - 1)
  BY Running DEF top, node, Callers
<1>3. GoesOn(out, Len(frames), marked', Here', control, f)
  BY <1>1, <1>2 DEF GoesOn
<1> DEFINE fr  == SubSeq(control, 1, Len(control) - 1)
           mid == Append(fr, f)
<1>4. /\ fr \in Seq(HandlerType) /\ Popped(control, fr) /\ Popped(mid, fr)
      /\ mid \in Seq(HandlerType) /\ Replaced(control, mid, f) /\ mid # << >>
      /\ ControlOK(out, Len(frames), marked', Here', mid)
      /\ SameBody(control, f) =>
           Cardinality(ScopedIn(mid)) = Cardinality(ScopedIn(control)) /\ OpenJumps(mid) = OpenJumps(control)
  BY <1>3, BecomeControl
<1>5. control' = mid /\ Callers = fr
  BY <1>2
<1> HIDE DEF mid, fr
<1> QED
  BY <1>4, <1>5 DEF Replaced

\* The innermost handler goes on as f, with code without jumps added.
LEMMA Becomes ==
    ASSUME NEW out, IInv(out), stage = "running", control # << >>, node # ProgramNode,
           marked' \in Seq(FunctionName), Prefix(marked, marked'), StepTypes, StepMarks, SameScopes(scopes, scopes'),
           Len(immediates') \in Int, Len(immediates) =< Len(immediates'),
           NEW added \in Seq(InstructionType), NEW size \in Int, Grown(frames, frames', added, size),
           NEW f \in HandlerType, HandlerOK(out, Len(frames), marked', Here', f), f.node = node,
           SameBody(control, f), control' = Append(Callers, f),
           ~wrapped' =>
             /\ ~wrapped /\ Size =< size
             /\ \A k \in 1 .. Len(added) :
                  /\ added[k].op \notin JumpOp
                  /\ InstructionOK(out, Len(frames), added[k], size, Len(immediates'), Len(marked'))
             /\ \A k \in 1 .. Len(f.indices) : IsOperand(f.indices[k], size, Len(immediates'))
             /\ IndexOK(f, index', size, Len(immediates'))
             /\ CellsApart(scopes', BaseOf(Len(frames)), control', size)
    PROVE  IInv(out)'
<1>1. /\ Here' \in Nat /\ Here =< Here' /\ frames'[Len(frames)].size = size
  BY HereGrows
<1>2. /\ control' \in Seq(HandlerType) /\ Replaced(control, control', f) /\ control' # << >>
      /\ Len(control') = Len(control) /\ control'[Len(control)] = f
      /\ ControlOK(out, Len(frames), marked', Here', control')
      /\ Cardinality(ScopedIn(control')) = Cardinality(ScopedIn(control)) /\ OpenJumps(control') = OpenJumps(control)
  BY <1>1, ControlBecomes
<1>3. /\ control \in Seq(HandlerType) /\ Len(control) > 1 /\ ~Finished(Len(frames), control) /\ Size \in Int
      /\ Len(immediates) \in Int /\ Len(marked) \in Int /\ scopes \in Seq(ScopeType)
      /\ Len(frames) \in Nat /\ BaseOf(Len(frames)) \in 1 .. Len(scopes) /\ Len(control) \in Nat
  BY Running
<1>4. ~Finished(Len(frames), control')
  BY <1>2, <1>3, SMTT(30) DEF Finished
<1>5. ScopesOK(Len(frames), scopes', control')
  <2>1. ScopesOK(Len(frames), scopes, control)
    BY DEF IInv, ScopesInv
  <2> QED
    BY <1>2, <1>3, <2>1, ScopesKept
<1>6. ASSUME ~wrapped' PROVE ~wrapped /\ StepCode(out) /\ StepHeld
  <2>1. StepCode(out)
    <3>1. Len(marked') \in Int /\ Len(marked) =< Len(marked') /\ frames' \in Seq(FrameType)
      BY DEF Prefix, StepTypes
    <3> QED
      BY <1>2, <1>3, <1>4, <1>6, <3>1, CodeStep
  <2>2. HeldOK(control', size, Len(immediates'))
    <3>1. HeldOK(control, Size, Len(immediates))
      BY <1>6, OpenIndices
    <3>2. HeldOK(control, size, Len(immediates'))
      BY <1>3, <1>6, <3>1, HeldLater
    <3> QED
      BY <1>2, <1>3, <1>6, <3>2, HeldReplaced
  <2> QED
    BY <1>1, <1>2, <1>6, <2>1, <2>2 DEF StepHeld
<1> QED
  BY <1>2, <1>5, <1>6, Collect

\* A handler of a call that goes on.
LEMMA CallGoesOn ==
    ASSUME NEW out, NEW cur, NEW mk, NEW here, NEW h \in HandlerType, h.node \in Node, h.node.type = "function_call",
           HandlerOK(out, cur, mk, here, h),
           NEW mk2, NEW f, f.node = h.node, f.jumps = h.jumps, f.at \in {"arguments", "argument"}, CallOK(mk2, f), NEW here2
    PROVE  HandlerOK(out, cur, mk2, here2, f) /\ ~Scoped(f) /\ ~Scoped(h)
<1>1. f.at \in Labels(f.node.type) /\ f.node # ProgramNode
  BY NodeFacts DEF Labels, Operators
<1>2. JumpCount(f) = 0 /\ JumpCount(h) = 0 /\ ~Scoped(f) /\ ~Scoped(h)
  BY DEF JumpCount, Scoped, Constructs
<1>3. Outside(out, f)
  BY DEF Outside, value_type, NumberType
<1>4. Len(f.jumps) = 0
  BY <1>2 DEF HandlerOK
<1> QED
  BY <1>1, <1>2, <1>3, <1>4 DEF HandlerOK

\* A call of a function: it is marked.
LEMMA CallStart ==
    ASSUME NEW out, IInv(out), assemble_call, At({"function_call"}, "start"), node.callee \in DOMAIN ast.functions,
           ~Asserting({Index("immediate", find_function(node.callee))})
    PROVE  IInv(out)'
<1> DEFINE f == [top EXCEPT !.at = "arguments", !.rest = node.arguments]
           b == BaseOf(Len(frames))
<1>1. /\ stage = "running" /\ control # << >> /\ node.type = "function_call" /\ top.at = "start"
      /\ top.node = node
  BY AtIs
<1>19. /\ control' = Append(Callers, f) /\ index' = index /\ Quiet
       /\ marked' = Marked(node.callee) /\ pending' = pending + Len(marked') - Len(marked)
  <2>1. ~At({"function_call"}, "arguments") /\ ~Given({"function_call"}, "argument")
    BY <1>1 DEF At, Given
  <2>2. /\ marked' = Marked(node.callee) /\ pending' = pending + Len(marked') - Len(marked)
        /\ Become([top EXCEPT !.at = "arguments", !.rest = node.arguments])
        /\ UNCHANGED <<index, stage, ec>> /\ Silent /\ UNCHANGED ast
    BY <2>1 DEF assemble_call
  <2> QED
    BY <2>2 DEF Become, Quiet, Silent, context
<1>2. /\ top \in HandlerType /\ HandlerOK(out, Len(frames), marked, Here, top)
      /\ control \in Seq(HandlerType) /\ top = control[Len(control)]
      /\ node \in Node /\ node # ProgramNode /\ frames \in Seq(FrameType) /\ frames # << >>
      /\ Here \in Nat /\ Size \in Int /\ Len(immediates) \in Int /\ Len(marked) \in Nat /\ b \in 1 .. Len(scopes)
      /\ marked \in Seq(FunctionName) /\ Len(scopes) \in Nat /\ scopes \in Seq(ScopeType)
  BY <1>1, <1>19, Running, IsProgram DEF top
<1>3. node.callee \in FunctionName /\ node.arguments \in Seq(Node) /\ AllNumbers(node.arguments)
  BY <1>1, <1>19, <1>2, ConstructFacts
<1>4. /\ ~Repeated(marked) /\ pending \in 0 .. Len(marked) /\ Len(frames) + pending = 1 + Len(marked)
      /\ Len(frames) \in Nat /\ \A k \in 1 .. Len(marked) : marked[k] \in DOMAIN ast.functions
  BY <1>1, <1>19, <1>2 DEF IInv, TypesOK, StageOK
<1>5. /\ marked' \in Seq(FunctionName) /\ ~Repeated(marked') /\ Prefix(marked, marked')
      /\ find_function(node.callee) \in 1 .. Len(marked') /\ marked'[find_function(node.callee)] = node.callee
      /\ \A k \in 1 .. Len(marked') : k \in 1 .. Len(marked) \/ marked'[k] = node.callee
  BY <1>2, <1>3, <1>4, <1>19, MarkedIs
<1>6. top.indices = << >>
  BY <1>1, <1>19, <1>2 DEF HandlerOK
<1>7. /\ f \in HandlerType /\ f.node = node /\ f.at = "arguments" /\ f.rest = node.arguments
      /\ f.indices = << >> /\ f.jumps = top.jumps
  BY <1>1, <1>19, <1>2, <1>3, <1>6 DEF HandlerType, Label
<1> HIDE DEF f, b
<1>8. Len(marked') \in Nat /\ Len(marked) =< Len(marked')
  BY <1>5 DEF Prefix
<1>9. CallOK(marked', f)
  <2>1. find_function(node.callee) < Byte
    <3> DEFINE i == Index("immediate", find_function(node.callee))
    <3>1. InRange(i)
      BY DEF Asserting
    <3>2. i.type = "immediate" /\ i.value = find_function(node.callee)
      BY DEF Index
    <3> HIDE DEF i
    <3>3. find_function(node.callee) \in 0 .. Byte - 1
      BY <3>1, <3>2 DEF InRange
    <3> QED
      BY <3>3 DEF Byte
  <2>2. Len(f.indices) + Len(f.rest) + 0 =< Len(f.node.arguments)
    BY <1>3, <1>7
  <2> QED
    BY <1>3, <1>5, <1>7, <2>1, <2>2 DEF CallOK
<1>10. HandlerOK(out, Len(frames), marked', Here', f) /\ SameBody(control, f)
  <2>1. HandlerOK(out, Len(frames), marked', Here', f) /\ ~Scoped(f) /\ ~Scoped(top)
    BY <1>1, <1>19, <1>2, <1>7, <1>9, CallGoesOn, ZenonT(30)
  <2> QED
    BY <1>2, <2>1 DEF SameBody
<1>11. StepTypes
  BY <1>1, <1>19, QuietTypes
<1>12. StepMarks
  <2>1. \A k \in 1 .. Len(marked') : marked'[k] \in DOMAIN ast.functions
    BY <1>4, <1>5 DEF Prefix
  <2>2. pending' \in 0 .. Len(marked') /\ Len(frames) + pending' = 1 + Len(marked')
    <3> DEFINE i == Len(marked)
               j == Len(marked')
               m == Len(frames)
    <3>1. i \in Nat /\ j \in Nat /\ m \in Nat /\ i =< j /\ pending \in 0 .. i /\ m + pending = 1 + i
      BY <1>2, <1>4, <1>8
    <3>2. pending' = pending + j - i
      BY <1>19
    <3> HIDE DEF i, j, m
    <3>3. pending' \in 0 .. j /\ m + pending' = 1 + j
      BY <3>1, <3>2
    <3> QED
      BY <3>3 DEF j, m
  <2> QED
    BY <1>5, <2>1, <2>2 DEF StepMarks
<1>13. Grown(frames, frames', << >>, Size)
  BY <1>1, <1>19, <1>2, SameGrows DEF Quiet, Size
<1>14. SameScopes(scopes, scopes') /\ Len(immediates') \in Int /\ Len(immediates) =< Len(immediates')
  BY <1>1, <1>19, <1>2 DEF Quiet, SameScopes
<1>15. ASSUME ~wrapped'
       PROVE  ~wrapped /\ CellsApart(scopes', b, control', Size)
  <2>1. ~wrapped /\ CellsApart(scopes, b, control, Size)
    BY <1>1, <1>19, <1>15, OpenIndices DEF Quiet, b
  <2>2. /\ Here' \in Nat /\ Here =< Here'
    BY <1>1, <1>19, <1>2 DEF Quiet, Here, Code, Current
  <2>3. control' \in Seq(HandlerType) /\ Replaced(control, control', f)
    BY <1>1, <1>19, <1>5, <1>7, <1>10, <2>2, ControlBecomes
  <2>7. \A c, k : Held(control', c, k) =>
          \/ c # Len(control) /\ SameHeld(control, control', c, k)
          \/ /\ c = Len(control) /\ control'[c] = f /\ k \in 1 .. Len(f.indices)
             /\ f.indices[k].type = "intermediate"
    <3>1. control \in Seq(HandlerType) /\ control # << >>
      BY <1>1, <1>2
    <3> QED
      BY <2>3, <3>1, HeldBecomes
  <2>4. \A c, k : Held(control', c, k) => SameHeld(control, control', c, k)
    BY <1>7, <2>7
  <2>5. \A s \in b .. Len(scopes') : SameScope(scopes, scopes', b, s)
    BY <1>1, <1>19 DEF Quiet, SameScope
  <2>6. Size =< Size /\ b \in Nat
    BY <1>2
  <2> QED
    BY <1>2, <2>1, <2>4, <2>5, <2>6, CellsKept
<1>16. IndexOK(f, index', Size, Len(immediates'))
  BY <1>7 DEF IndexOK, OperandLabel, NeedsIndex, IsTarget
<1>17. << >> \in Seq(InstructionType) /\ Size =< Size
  BY <1>2
<1>18. (\A k \in 1 .. Len(<< >>) :
                  /\ << >>[k].op \notin JumpOp
                  /\ InstructionOK(out, Len(frames), << >>[k], Size, Len(immediates'), Len(marked')))
       /\ \A k \in 1 .. Len(f.indices) : IsOperand(f.indices[k], Size, Len(immediates'))
  BY <1>7
<1> QED
  BY <1>1, <1>19, <1>2, <1>5, <1>7, <1>10, <1>11, <1>12, <1>13, <1>14, <1>15, <1>16, <1>17, <1>18, Becomes DEF b

\* An argument that is not in A, or is the last one, stays where it is.
LEMMA ArgumentKeeps ==
    ASSUME NEW out, IInv(out), assemble_call, Given({"function_call"}, "argument"),
           ~(MustSave(index) /\ top.rest # << >>)
    PROVE  IInv(out)'
<1> DEFINE f == [top EXCEPT !.at = "arguments", !.indices = Append(@, index)]
           b == BaseOf(Len(frames))
<1>1. /\ stage = "running" /\ control # << >> /\ node.type = "function_call" /\ top.at = "argument"
      /\ top.node = node /\ control' = Append(Callers, f) /\ index' = index /\ Quiet /\ index # NoIndex
      /\ marked' = marked /\ pending' = pending
  <2>1. At({"function_call"}, "argument")
    BY DEF Given
  <2>2. ~At({"function_call"}, "arguments") /\ ~At({"function_call"}, "start")
    BY <2>1 DEF At
  <2>3. /\ Become([top EXCEPT !.at = "arguments", !.indices = Append(@, index)])
        /\ UNCHANGED <<frames, scopes, wrapped>> /\ UNCHANGED <<index, immediates>> /\ Stays
    BY <2>2 DEF assemble_call
  <2> QED
    BY <2>1, <2>3, AtIs DEF Become, Quiet, Given, Stays, called
<1>2. /\ top \in HandlerType /\ HandlerOK(out, Len(frames), marked, Here, top)
      /\ control \in Seq(HandlerType) /\ top = control[Len(control)]
      /\ node \in Node /\ node # ProgramNode /\ frames \in Seq(FrameType) /\ frames # << >>
      /\ Here \in Nat /\ Size \in Int /\ Len(immediates) \in Int /\ Len(marked) \in Nat /\ b \in 1 .. Len(scopes)
      /\ marked \in Seq(FunctionName) /\ Len(scopes) \in Nat /\ scopes \in Seq(ScopeType)
  BY <1>1, Running, IsProgram DEF top
<1>3. /\ index \in HeldIndex /\ index.type # "intermediate"
      /\ ~wrapped => IsOperand(index, Size, Len(immediates))
  BY <1>1, IndexIs DEF OperandLabel
<1>4. /\ f \in HandlerType /\ f.node = node /\ f.at = "arguments" /\ f.rest = top.rest
      /\ f.indices = Append(top.indices, index) /\ f.jumps = top.jumps
      /\ top.indices \in Seq(HeldIndex) /\ top.rest \in Seq(Node)
  <2>1. top.indices \in Seq(HeldIndex) /\ top.rest \in Seq(Node)
    BY <1>2 DEF HandlerType
  <2>2. Append(top.indices, index) \in Seq(HeldIndex)
    BY <1>3, <2>1
  <2> QED
    BY <1>1, <1>2, <2>1, <2>2 DEF HandlerType, Label
<1>5. Len(top.indices) \in Nat /\ Extended(top.indices, f.indices, index)
  BY <1>3, <1>4, AppendIs
<1> HIDE DEF f, b
<1>6. CallOK(marked, f)
  <2>1. CallOK(marked, top)
    BY <1>1, <1>2 DEF HandlerOK
  <2>2. Len(top.indices) + Len(top.rest) + 1 =< Len(node.arguments)
    BY <1>1, <2>1 DEF CallOK
  <2>3. Len(f.indices) + Len(f.rest) + 0 =< Len(f.node.arguments)
    <3>1. Len(f.indices) = Len(top.indices) + 1 /\ f.rest = top.rest /\ f.node = node
      BY <1>4, <1>5 DEF Extended
    <3>2. Len(top.indices) \in Int /\ Len(top.rest) \in Int /\ Len(node.arguments) \in Int
      BY <1>1, <1>2, <1>4, ConstructFacts
    <3>3. \A i, j, k \in Int : i + j + 1 =< k => (i + 1) + j + 0 =< k
      OBVIOUS
    <3> QED
      BY <2>2, <3>1, <3>2, <3>3
  <2> QED
    BY <1>1, <1>4, <2>1, <2>3 DEF CallOK
<1>7. HandlerOK(out, Len(frames), marked', Here', f) /\ SameBody(control, f)
  <2>1. HandlerOK(out, Len(frames), marked', Here', f) /\ ~Scoped(f) /\ ~Scoped(top)
    BY <1>1, <1>2, <1>4, <1>6, CallGoesOn, ZenonT(30)
  <2> QED
    BY <1>2, <2>1 DEF SameBody
<1>8. StepTypes /\ StepMarks
  BY <1>1, QuietTypes, SameMarks
<1>9. Grown(frames, frames', << >>, Size)
  BY <1>1, <1>2, SameGrows DEF Quiet, Size
<1>10. SameScopes(scopes, scopes') /\ Len(immediates') \in Int /\ Len(immediates) =< Len(immediates')
  BY <1>1, <1>2 DEF Quiet, SameScopes
<1>11. marked' \in Seq(FunctionName) /\ Prefix(marked, marked')
  BY <1>1, <1>2 DEF Prefix
<1>12. ASSUME ~wrapped'
       PROVE  /\ ~wrapped /\ CellsApart(scopes', b, control', Size)
              /\ \A k \in 1 .. Len(f.indices) : IsOperand(f.indices[k], Size, Len(immediates'))
  <2>1. ~wrapped /\ CellsApart(scopes, b, control, Size)
        /\ \A k \in 1 .. Len(top.indices) : IsOperand(top.indices[k], Size, Len(immediates))
    BY <1>1, <1>12, OpenIndices DEF Quiet, b
  <2>2. /\ Here' \in Nat /\ Here =< Here'
    BY <1>1, <1>2 DEF Quiet, Here, Code, Current
  <2>3. control' \in Seq(HandlerType) /\ Replaced(control, control', f) /\ control'[Len(control)] = f
    BY <1>1, <1>4, <1>7, <1>11, <2>2, ControlBecomes
  <2>4. \A k \in 1 .. Len(f.indices) :
          \/ k \in 1 .. Len(top.indices) /\ f.indices[k] = top.indices[k]
          \/ f.indices[k] = index
    BY <1>5 DEF Extended
  <2>10. \A c, k : Held(control', c, k) =>
          \/ c # Len(control) /\ SameHeld(control, control', c, k)
          \/ /\ c = Len(control) /\ control'[c] = f /\ k \in 1 .. Len(f.indices)
             /\ f.indices[k].type = "intermediate"
    <3>1. control \in Seq(HandlerType) /\ control # << >>
      BY <1>1, <1>2
    <3> QED
      BY <2>3, <3>1, HeldBecomes
  <2>5. ASSUME NEW c, NEW k, Held(control', c, k) PROVE SameHeld(control, control', c, k)
    <3>1. CASE c # Len(control)
      BY <2>10, <2>5, <3>1
    <3>2. CASE c = Len(control)
      <4>1. k \in 1 .. Len(f.indices) /\ f.indices[k].type = "intermediate" /\ control'[c] = f
        BY <2>10, <2>5, <3>2
      <4>2. k \in 1 .. Len(top.indices) /\ f.indices[k] = top.indices[k]
        BY <1>3, <2>4, <4>1
      <4>3. c \in 1 .. Len(control)
        BY <1>2, <3>2, <1>1
      <4> QED
        BY <1>2, <3>2, <4>1, <4>2, <4>3 DEF SameHeld
    <3> QED
      BY <3>1, <3>2
  <2>6. \A s \in b .. Len(scopes') : SameScope(scopes, scopes', b, s)
    BY <1>1 DEF Quiet, SameScope
  <2>7. Size =< Size /\ b \in Nat
    BY <1>2
  <2>8. CellsApart(scopes', b, control', Size)
    BY <1>2, <2>1, <2>5, <2>6, <2>7, CellsKept
  <2>9. \A k \in 1 .. Len(f.indices) : IsOperand(f.indices[k], Size, Len(immediates'))
    BY <1>1, <1>3, <2>1, <2>4 DEF Quiet
  <2> QED
    BY <2>1, <2>8, <2>9
<1>13. IndexOK(f, index', Size, Len(immediates'))
  BY <1>4 DEF IndexOK, OperandLabel, NeedsIndex, IsTarget
<1>14. << >> \in Seq(InstructionType) /\ Size =< Size
  BY <1>2
<1>15. \A k \in 1 .. Len(<< >>) :
                  /\ << >>[k].op \notin JumpOp
                  /\ InstructionOK(out, Len(frames), << >>[k], Size, Len(immediates'), Len(marked'))
  OBVIOUS
<1> QED
  BY <1>1, <1>2, <1>4, <1>7, <1>8, <1>9, <1>10, <1>11, <1>12, <1>13, <1>14, <1>15, Becomes DEF b

\* An argument in A, when more arguments follow, is moved to an intermediate.
LEMMA ArgumentSaves ==
    ASSUME NEW out, IInv(out), assemble_call, Given({"function_call"}, "argument"),
           MustSave(index) /\ top.rest # << >>
    PROVE  IInv(out)'
<1> DEFINE i == allocate_intermediate.index
           f == [top EXCEPT !.at = "arguments", !.indices = Append(@, i)]
           size == frames'[Len(frames)].size
           added == <<Instruction("mov", a_index, i)>>
           a == Len(control)
           x == Len(top.indices) + 1
           b == BaseOf(Len(frames))
<1>1. /\ stage = "running" /\ control # << >> /\ node.type = "function_call" /\ top.at = "argument"
      /\ top.node = node /\ control' = Append(Callers, f) /\ index' = index /\ index # NoIndex
      /\ immediates' = immediates /\ stage' = stage /\ ast' = ast /\ ec' = ec
      /\ marked' = marked /\ pending' = pending /\ SaveA
  <2>1. At({"function_call"}, "argument")
    BY DEF Given
  <2>2. ~At({"function_call"}, "arguments") /\ ~At({"function_call"}, "start")
    BY <2>1 DEF At
  <2>3. /\ Become([top EXCEPT !.at = "arguments", !.indices = Append(@, i)]) /\ SaveA
        /\ UNCHANGED <<index, immediates>> /\ Stays
    BY <2>2 DEF assemble_call
  <2> QED
    BY <2>1, <2>3, AtIs DEF Become, Given, Stays, called
<1>2. /\ top \in HandlerType /\ HandlerOK(out, Len(frames), marked, Here, top)
      /\ control \in Seq(HandlerType) /\ top = control[a] /\ a \in Nat \ {0}
      /\ node \in Node /\ node # ProgramNode
      /\ Size \in Int /\ Len(immediates) \in Int /\ Len(marked) \in Int /\ marked \in Seq(FunctionName)
      /\ b \in 1 .. Len(scopes) /\ scopes \in Seq(ScopeType)
      /\ index \in ResultIndex /\ immediates \in Seq(Value) /\ Len(immediates) =< Byte
  BY <1>1, Running, IsProgram DEF top
<1>3. /\ i \in FreeIndex /\ added \in Seq(InstructionType) /\ frames' \in Seq(FrameType)
      /\ size \in 0 .. Byte - 1 /\ Grown(frames, frames', added, size)
      /\ scopes' \in Seq(ScopeType) /\ wrapped' \in BOOLEAN /\ SameScopes(scopes, scopes')
  BY <1>1, SavedIs
<1>4. ASSUME ~wrapped'
      PROVE  /\ ~wrapped /\ Size =< size /\ IsLocal(i, size)
             /\ \A cd, c, y : c \in Nat /\ y \in Nat /\ HeldNow(control, cd, c, y, i) => CellsApart(scopes', b, cd, size)
  BY <1>1, <1>4, SavedIs
<1>5. i \in HeldIndex
  BY <1>3 DEF FreeIndex, HeldIndex, IndicesOf
<1>6. Len(added) = 1 /\ added[1] = Instruction("mov", a_index, i)
  BY <1>3
<1> HIDE DEF i, added, size, b
<1>7. /\ f \in HandlerType /\ f.node = node /\ f.at = "arguments" /\ f.rest = top.rest
      /\ f.indices = Append(top.indices, i) /\ f.jumps = top.jumps
      /\ top.indices \in Seq(HeldIndex) /\ top.rest \in Seq(Node)
  <2>1. top.indices \in Seq(HeldIndex) /\ top.rest \in Seq(Node)
    BY <1>2 DEF HandlerType
  <2>2. Append(top.indices, i) \in Seq(HeldIndex)
    BY <1>5, <2>1
  <2> QED
    BY <1>1, <1>2, <2>1, <2>2 DEF HandlerType, Label
<1>8. Len(top.indices) \in Nat /\ Extended(top.indices, f.indices, i) /\ x \in Nat /\ x = Len(top.indices) + 1
  BY <1>5, <1>7, AppendIs
<1> HIDE DEF f, x
<1>9. CallOK(marked, f)
  <2>1. CallOK(marked, top)
    BY <1>1, <1>2 DEF HandlerOK
  <2>2. Len(top.indices) + Len(top.rest) + 1 =< Len(node.arguments)
    BY <1>1, <2>1 DEF CallOK
  <2>3. Len(f.indices) + Len(f.rest) + 0 =< Len(f.node.arguments)
    <3>1. Len(f.indices) = Len(top.indices) + 1 /\ f.rest = top.rest /\ f.node = node
      BY <1>7, <1>8 DEF Extended
    <3>2. Len(top.indices) \in Int /\ Len(top.rest) \in Int /\ Len(node.arguments) \in Int
      BY <1>1, <1>2, <1>7, ConstructFacts
    <3>3. \A l, j, k \in Int : l + j + 1 =< k => (l + 1) + j + 0 =< k
      OBVIOUS
    <3> QED
      BY <2>2, <3>1, <3>2, <3>3
  <2> QED
    BY <1>1, <1>7, <2>1, <2>3 DEF CallOK
<1>10. HandlerOK(out, Len(frames), marked', Here', f) /\ SameBody(control, f)
  <2>1. HandlerOK(out, Len(frames), marked', Here', f) /\ ~Scoped(f) /\ ~Scoped(top)
    BY <1>1, <1>2, <1>7, <1>9, CallGoesOn, ZenonT(30)
  <2> QED
    BY <1>2, <2>1 DEF SameBody
<1>11. /\ Here' \in Nat /\ Here =< Here' /\ Len(frames') = Len(frames)
  BY <1>1, <1>3, HereGrows
<1>12. StepTypes /\ StepMarks
  BY <1>1, <1>2, <1>3, <1>11, SameMarks DEF StepTypes
<1>13. /\ marked' \in Seq(FunctionName) /\ Prefix(marked, marked')
       /\ Len(immediates') \in Int /\ Len(immediates) =< Len(immediates')
  BY <1>1, <1>2 DEF Prefix
<1>14. IndexOK(f, index', size, Len(immediates'))
  BY <1>7 DEF IndexOK, OperandLabel, NeedsIndex, IsTarget
<1>15. ASSUME ~wrapped'
       PROVE  /\ ~wrapped /\ Size =< size
              /\ \A k \in 1 .. Len(added) :
                  /\ added[k].op \notin JumpOp
                  /\ InstructionOK(out, Len(frames), added[k], size, Len(immediates'), Len(marked'))
              /\ \A k \in 1 .. Len(f.indices) : IsOperand(f.indices[k], size, Len(immediates'))
              /\ CellsApart(scopes', b, control', size)
  <2>1. ~wrapped /\ Size =< size /\ IsLocal(i, size) /\ size \in Int
    BY <1>3, <1>4, <1>15
  <2>2. IsOperand(a_index, Size, Len(immediates))
        /\ \A k \in 1 .. Len(top.indices) : IsOperand(top.indices[k], Size, Len(immediates))
    BY <1>1, <2>1, OpenIndices, RegisterIsLocal
  <2>3. IsOperand(a_index, size, Len(immediates'))
        /\ \A k \in 1 .. Len(top.indices) : IsOperand(top.indices[k], size, Len(immediates'))
    BY <1>2, <1>13, <2>1, <2>2, OperandLater
  <2>4. ASSUME NEW k \in 1 .. Len(added)
        PROVE  /\ added[k].op \notin JumpOp
               /\ InstructionOK(out, Len(frames), added[k], size, Len(immediates'), Len(marked'))
    <3>1. added[k] = Instruction("mov", a_index, i)
      BY <1>6
    <3> QED
      BY <2>1, <2>3, <3>1 DEF InstructionOK, Instruction, TwoOp, SelfOp, JumpOp
  <2>5. \A k \in 1 .. Len(f.indices) :
          \/ k \in 1 .. Len(top.indices) /\ f.indices[k] = top.indices[k]
          \/ k = x /\ f.indices[k] = i
    BY <1>8 DEF Extended
  <2>6. \A k \in 1 .. Len(f.indices) : IsOperand(f.indices[k], size, Len(immediates'))
    BY <2>1, <2>3, <2>5 DEF IsOperand
  <2>7. /\ control' \in Seq(HandlerType) /\ Replaced(control, control', f) /\ control'[a] = f
    BY <1>1, <1>7, <1>10, <1>11, <1>13, ControlBecomes
  <2>8. \A c, k : Held(control', c, k) =>
          \/ c # a /\ SameHeld(control, control', c, k)
          \/ /\ c = a /\ control'[c] = f /\ k \in 1 .. Len(f.indices)
             /\ f.indices[k].type = "intermediate"
    <3>1. control \in Seq(HandlerType) /\ control # << >>
      BY <1>1, <1>2
    <3> QED
      BY <2>7, <3>1, HeldBecomes
  <2>9. ASSUME NEW c, NEW k, Held(control', c, k) PROVE SameHeld(control, control', c, k) \/ (c = a /\ k = x)
    <3>1. CASE c # a
      BY <2>8, <2>9, <3>1
    <3>2. CASE c = a /\ k # x
      <4>1. k \in 1 .. Len(f.indices) /\ control'[c] = f
        BY <2>8, <2>9, <3>2
      <4>2. k \in 1 .. Len(top.indices) /\ f.indices[k] = top.indices[k]
        BY <2>5, <3>2, <4>1
      <4>3. c \in 1 .. Len(control)
        BY <1>2, <3>2
      <4> QED
        BY <1>2, <3>2, <4>1, <4>2, <4>3 DEF SameHeld
    <3> QED
      BY <3>1, <3>2
  <2>10. HeldNow(control, control', a, x, i)
    <3>1. f.indices[x] = i
      BY <1>8 DEF Extended
    <3> QED
      BY <2>7, <2>9, <3>1 DEF HeldNow
  <2> QED
    BY <1>2, <1>4, <1>8, <1>15, <2>1, <2>4, <2>6, <2>10
<1>16. size \in Int
  BY <1>3
<1> QED
  BY <1>1, <1>2, <1>3, <1>7, <1>10, <1>12, <1>13, <1>14, <1>15, <1>16, Becomes DEF b

\* An argument is put into the next cell of the frame of the function.
LEMMA PutStep ==
    ASSUME NEW out, IInv(out), assemble_call, At({"function_call"}, "arguments"), top.rest = << >>, top.indices # << >>
    PROVE  IInv(out)'
<1> DEFINE f == [top EXCEPT !.indices = Tail(@)]
           argument == Index("stack", Len(node.arguments) - Len(top.indices) + 1)
           added == <<Instruction("put", top.indices[1], argument)>>
           a == Len(control)
           b == BaseOf(Len(frames))
<1>1. /\ stage = "running" /\ control # << >> /\ node.type = "function_call" /\ top.at = "arguments"
      /\ top.node = node
  BY AtIs
<1>2. /\ top \in HandlerType /\ HandlerOK(out, Len(frames), marked, Here, top)
      /\ control \in Seq(HandlerType) /\ top = control[a] /\ a \in Nat \ {0}
      /\ node \in Node /\ node # ProgramNode
      /\ Size \in Int /\ Len(immediates) \in Int /\ Len(marked) \in Int /\ marked \in Seq(FunctionName)
      /\ index \in ResultIndex /\ wrapped \in BOOLEAN /\ immediates \in Seq(Value) /\ Len(immediates) =< Byte
  BY <1>1, Running, IsProgram DEF top
<1>3. /\ top.indices \in Seq(HeldIndex) /\ top.rest \in Seq(Node) /\ node.arguments \in Seq(Node)
      /\ Tail(top.indices) \in Seq(HeldIndex) /\ Len(Tail(top.indices)) = Len(top.indices) - 1
      /\ Head(top.indices) = top.indices[1] /\ top.indices[1] \in HeldIndex
      /\ Len(top.indices) \in Nat \ {0} /\ Len(node.arguments) \in Nat
      /\ \A k \in 1 .. Len(top.indices) - 1 : Tail(top.indices)[k] = top.indices[k + 1]
  <2>1. top.indices \in Seq(HeldIndex) /\ top.rest \in Seq(Node) /\ node.arguments \in Seq(Node)
    BY <1>1, <1>2, ConstructFacts DEF HandlerType
  <2> QED
    BY <2>1, TailIs
<1>4. /\ f \in HandlerType /\ f.node = node /\ f.at = "arguments" /\ f.rest = top.rest
      /\ f.indices = Tail(top.indices) /\ f.jumps = top.jumps
  BY <1>1, <1>2, <1>3 DEF HandlerType, Label
<1>5. CallOK(marked, top) /\ Len(top.indices) =< Len(node.arguments)
  <2>1. CallOK(marked, top)
    BY <1>1, <1>2 DEF HandlerOK
  <2>2. Len(top.rest) = 0 /\ top.at # "argument"
    BY <1>1
  <2>3. Len(top.indices) + Len(top.rest) + 0 =< Len(node.arguments)
    BY <1>1, <2>1, <2>2 DEF CallOK
  <2> QED
    BY <1>3, <2>1, <2>2, <2>3
<1>6. ~At({"function_call"}, "start") /\ ~Given({"function_call"}, "argument")
  BY <1>1 DEF At, Given
<1>7. CASE Asserting({argument})
  <2>1. Assert /\ UNCHANGED <<ast, called>>
    BY <1>6, <1>7 DEF assemble_call
  <2> QED
    BY <1>1, <2>1, Asserts
<1>8. CASE ~Asserting({argument})
  <2>1. /\ emit("put", top.indices[1], argument) /\ scopes' = Freed(top.indices[1])
        /\ control' = Append(Callers, f)
        /\ UNCHANGED <<index, immediates, wrapped, stage, ec>> /\ UNCHANGED <<ast, called>>
    BY <1>3, <1>6, <1>8 DEF assemble_call, Become
  <2>2. argument \in AnyIndex /\ argument.value \in 1 .. Byte - 1
    <3>1. argument.type = "stack" /\ argument.value = Len(node.arguments) - Len(top.indices) + 1
          /\ argument = [type |-> argument.type, value |-> argument.value]
      BY DEF Index
    <3>2. InRange(argument)
      BY <1>8 DEF Asserting
    <3> HIDE DEF argument
    <3>3. argument.value \in 0 .. Byte - 1 /\ argument.value \in Int
      BY <3>1, <3>2 DEF InRange, Byte
    <3>4. argument.value >= 1
      <4> DEFINE l == Len(node.arguments)
                 m == Len(top.indices)
      <4>1. l \in Nat /\ m \in Nat /\ m =< l /\ argument.value = l - m + 1
        BY <1>3, <1>5, <3>1
      <4> HIDE DEF l, m
      <4> QED
        BY <4>1
    <3>5. argument \in MemoryIndex
      BY <3>1, <3>3 DEF MemoryIndex, IndexType
    <3> QED
      BY <3>2, <3>3, <3>4, <3>5 DEF AnyIndex, Byte
  <2>3. top.indices[1] \in AnyIndex
    BY <1>3 DEF HeldIndex, IndicesOf
  <2>4. /\ added \in Seq(InstructionType) /\ frames' \in Seq(FrameType) /\ Len(frames') = Len(frames)
        /\ Grown(frames, frames', added, Size)
    BY <1>1, <2>1, <2>2, <2>3, EmitIs DEF CodeOp
  <2>5. added[1] = Instruction("put", top.indices[1], argument) /\ Len(added) = 1
    OBVIOUS
  <2> HIDE DEF f, added, argument, b
  <2>6. StillScopes
        /\ (~wrapped => \A cd : LetsGo(control, cd, Len(control)) => CellsApart(scopes', BaseOf(Len(frames)), cd, Size))
    BY <1>1, <2>1, FreedIs
  <2>7. CallOK(marked, f)
    <3>1. Len(f.indices) + Len(f.rest) + 0 =< Len(f.node.arguments)
      <4>1. Len(f.indices) = Len(top.indices) - 1 /\ Len(f.rest) = 0 /\ f.node = node
        BY <1>3, <1>4
      <4> QED
        BY <1>3, <1>5, <4>1
    <3> QED
      BY <1>1, <1>4, <1>5, <3>1 DEF CallOK
  <2>8. /\ index' = index /\ immediates' = immediates /\ wrapped' = wrapped /\ stage' = stage /\ ec' = ec /\ ast' = ast
        /\ marked' = marked /\ pending' = pending
    BY <2>1 DEF called
  <2>9. HandlerOK(out, Len(frames), marked', Here', f) /\ SameBody(control, f)
    <3>1. HandlerOK(out, Len(frames), marked', Here', f) /\ ~Scoped(f) /\ ~Scoped(top)
      BY <1>1, <1>2, <1>4, <2>7, <2>8, CallGoesOn
    <3> QED
      BY <1>2, <3>1 DEF SameBody
  <2>10. StepTypes /\ StepMarks
    BY <1>1, <1>2, <2>4, <2>6, <2>8, SameMarks DEF StepTypes, StillScopes
  <2>11. /\ marked' \in Seq(FunctionName) /\ Prefix(marked, marked') /\ SameScopes(scopes, scopes')
         /\ Len(immediates') \in Int /\ Len(immediates) =< Len(immediates')
    BY <1>2, <2>6, <2>8 DEF Prefix, StillScopes
  <2>12. IndexOK(f, index', Size, Len(immediates'))
    BY <1>4 DEF IndexOK, OperandLabel, NeedsIndex, IsTarget
  <2>13. ASSUME ~wrapped'
         PROVE  /\ ~wrapped /\ Size =< Size
                /\ \A k \in 1 .. Len(added) :
                    /\ added[k].op \notin JumpOp
                    /\ InstructionOK(out, Len(frames), added[k], Size, Len(immediates'), Len(marked'))
                /\ \A k \in 1 .. Len(f.indices) : IsOperand(f.indices[k], Size, Len(immediates'))
                /\ CellsApart(scopes', b, control', Size)
    <3>1. ~wrapped /\ Size =< Size
      BY <1>2, <2>8, <2>13
    <3>2. \A k \in 1 .. Len(top.indices) : IsOperand(top.indices[k], Size, Len(immediates))
      BY <1>1, <3>1, OpenIndices
    <3>3. ASSUME NEW k \in 1 .. Len(added)
          PROVE  /\ added[k].op \notin JumpOp
                 /\ InstructionOK(out, Len(frames), added[k], Size, Len(immediates'), Len(marked'))
      <4>1. added[k] = Instruction("put", top.indices[1], argument)
        BY <2>5
      <4>2. IsOperand(top.indices[1], Size, Len(immediates'))
        BY <1>3, <2>8, <3>2
      <4> QED
        BY <2>2, <4>1, <4>2 DEF InstructionOK, Instruction, TwoOp, SelfOp, JumpOp
    <3>4. \A k \in 1 .. Len(f.indices) : /\ k \in Nat \ {0} /\ k + 1 \in 1 .. Len(top.indices)
                                         /\ f.indices[k] = top.indices[k + 1]
      BY <1>3, <1>4
    <3>5. \A k \in 1 .. Len(f.indices) : IsOperand(f.indices[k], Size, Len(immediates'))
      BY <2>8, <3>2, <3>4
    <3>6. Here' \in Nat /\ Here =< Here'
      BY <1>1, <2>4, HereGrows
    <3>7. /\ control' \in Seq(HandlerType) /\ Replaced(control, control', f) /\ control'[a] = f
      BY <1>1, <1>4, <2>1, <2>9, <2>11, <3>6, ControlBecomes
    <3>8. \A c, k : Held(control', c, k) =>
            \/ c # a /\ SameHeld(control, control', c, k)
            \/ /\ c = a /\ control'[c] = f /\ k \in 1 .. Len(f.indices)
               /\ f.indices[k].type = "intermediate"
      <4>1. control \in Seq(HandlerType) /\ control # << >>
        BY <1>1, <1>2
      <4> QED
        BY <3>7, <4>1, HeldBecomes
    <3>9. ASSUME NEW c, NEW k, Held(control', c, k), c = a
          PROVE  k \in Nat \ {0} /\ Held(control, a, k + 1) /\ control[a].indices[k + 1] = control'[a].indices[k]
      <4>1. k \in 1 .. Len(f.indices) /\ f.indices[k].type = "intermediate"
        BY <3>8, <3>9
      <4>2. k \in Nat \ {0} /\ k + 1 \in 1 .. Len(top.indices) /\ f.indices[k] = top.indices[k + 1]
        BY <3>4, <4>1
      <4>3. a \in 1 .. Len(control)
        BY <1>2
      <4> QED
        BY <1>2, <3>7, <4>1, <4>2, <4>3 DEF Held
    <3>10. LetsGo(control, control', a)
      BY <3>8, <3>9 DEF LetsGo
    <3> QED
      BY <2>6, <3>1, <3>3, <3>5, <3>10 DEF b
  <2> QED
    BY <1>1, <1>2, <1>4, <2>1, <2>4, <2>9, <2>10, <2>11, <2>12, <2>13, Becomes DEF b
<1> QED
  BY <1>7, <1>8

LEMMA CallStep ==
    ASSUME NEW out, IInv(out), assemble_call
    PROVE  IInv(out)'
<1>1. CASE At({"function_call"}, "start")
  <2>1. ~At({"function_call"}, "arguments") /\ ~Given({"function_call"}, "argument")
    BY <1>1 DEF At, Given
  <2>2. stage = "running" /\ pending \in 0 .. Len(marked)
    BY <1>1, AtIs DEF IInv, TypesOK
  <2>3. CASE node.callee \notin DOMAIN ast.functions
    <3>1. Fail("unresolved_identifier") /\ UNCHANGED <<control, index, called>> /\ Silent /\ UNCHANGED ast
      BY <2>1, <2>3 DEF assemble_call
    <3>2. /\ UNCHANGED <<control, index>> /\ UNCHANGED <<ast, marked>> /\ pending' \in 0 .. Len(marked)
          /\ "unresolved_identifier" \in AssemblerErrorCode \ {"ok"}
      BY <2>2, <3>1 DEF called, AssemblerErrorCode
    <3> QED
      BY <3>1, <3>2, Fails
  <2>4. CASE node.callee \in DOMAIN ast.functions /\ Asserting({Index("immediate", find_function(node.callee))})
    <3>1. Assert /\ UNCHANGED called /\ UNCHANGED ast
      BY <2>1, <2>4 DEF assemble_call
    <3> QED
      BY <2>2, <3>1, Asserts
  <2> QED
    BY <1>1, <2>3, <2>4, CallStart
<1>2. CASE At({"function_call"}, "arguments")
  <2>1. ~At({"function_call"}, "start") /\ ~Given({"function_call"}, "argument")
    BY <1>2 DEF At, Given
  <2>2. CASE top.rest # << >>
    <3>1. /\ Assemble(Head(top.rest), [top EXCEPT !.at = "argument", !.rest = Tail(@)])
          /\ UNCHANGED index /\ Silent /\ Stays
      BY <2>1, <2>2 DEF assemble_call
    <3> QED
      BY <1>2, <2>2, <3>1, ArgumentStart
  <2>3. CASE top.rest = << >> /\ top.indices = << >>
    <3>1. /\ emit("jsr", Index("immediate", find_function(node.callee)), NoIndex) /\ Return(a_index)
          /\ UNCHANGED <<immediates, scopes, wrapped>> /\ Stays
      BY <2>1, <2>3 DEF assemble_call
    <3> QED
      BY <1>2, <3>1, JumpToFunction
  <2> QED
    BY <1>2, <2>2, <2>3, PutStep
<1>3. CASE Given({"function_call"}, "argument")
  BY <1>3, ArgumentKeeps, ArgumentSaves
<1> QED
  BY <1>1, <1>2, <1>3 DEF assemble_call

LEMMA UnaryStep ==
    ASSUME NEW out, IInv(out), OutAssumption(out), assemble_unary
    PROVE  IInv(out)'
<1>1. CASE top.at # "start"
  BY <1>1, UnaryEnd
<1>2. CASE top.at = "start"
  <2>1. ~Given({"unary_operator"}, "operand")
    BY <1>2 DEF Given, At
  <2>2. /\ At({"unary_operator"}, "start") /\ Assemble(node.operand, [top EXCEPT !.at = "operand"])
        /\ UNCHANGED index /\ Silent /\ Stays
    BY <2>1 DEF assemble_unary
  <2> QED
    BY <2>2, UnaryStart
<1> QED
  BY <1>1, <1>2

LEMMA ReturningStep ==
    ASSUME NEW out, IInv(out), assemble_return
    PROVE  IInv(out)'
<1>1. CASE Given({"function_return"}, "value")
  <2>1. ~At({"function_return"}, "start")
    BY <1>1 DEF Given, At
  <2> DEFINE move == IF index = a_index THEN << >> ELSE <<Instruction("mov", index, a_index)>>
  <2>2. /\ frames' = Emitted(Append(move, Instruction("ret", NoIndex, NoIndex)))
        /\ Return(NoIndex) /\ UNCHANGED <<immediates, scopes, wrapped>> /\ Stays
    BY <2>1 DEF assemble_return
  <2> QED
    BY <1>1, <2>2, ReturnStep
<1>2. CASE ~Given({"function_return"}, "value")
  <2>1. /\ At({"function_return"}, "start") /\ Assemble(node.return_value, [top EXCEPT !.at = "value"])
        /\ UNCHANGED index /\ Silent /\ Stays
    BY <1>2 DEF assemble_return
  <2> QED
    BY <2>1, ReturnStart
<1> QED
  BY <1>1, <1>2

-------------------------------------------------------------------------------
(***************************************************************************)
(* Constructs enter and leave their bodies.                                *)
(***************************************************************************)
\* The handler f of a construct that goes on from h to one of its bodies.
NextBody(h, f, here) ==
    /\ f.node = h.node /\ f.indices = h.indices /\ f.jumps = Append(h.jumps, here)
    /\ \/ h.at = "condition" /\ f.at = "body" /\ f.rest = h.node.body
       \/ h.at = "body" /\ f.at = "else" /\ f.rest = h.node.else_body /\ h.node.type = "conditional_construct"

LEMMA NextBodyOK ==
    ASSUME NEW out, OutAssumption(out), NEW cur, NEW mk, NEW here \in Nat, NEW here2 \in Nat, here =< here2,
           NEW h \in HandlerType, h.node \in Node, h.node.type \in Constructs, HandlerOK(out, cur, mk, here, h),
           NEW f, NextBody(h, f, here)
    PROVE  /\ HandlerOK(out, cur, mk, here2, f) /\ Scoped(f) /\ LastJump(f) = here /\ f.indices = << >>
           /\ Scoped(h) <=> h.at = "body"
<1>1. h.node.type \in {"conditional_construct", "loop"} /\ h.node.type \notin Operators
      /\ h.node.type # "function_call" /\ h.node # ProgramNode
  BY NodeFacts DEF Constructs, Operators
<1>2. h.indices = << >> /\ Len(h.jumps) = JumpCount(h) /\ h.jumps \in Seq(Nat)
      /\ (\A k \in 1 .. Len(h.jumps) : h.jumps[k] =< here) /\ (cur = 1 => Outside(out, h)) /\ h.at # "lhs"
  <2>1. h.at # "lhs"
    BY <1>1 DEF NextBody
  <2> QED
    BY <1>1, <2>1 DEF HandlerOK, HandlerType
<1>3. Extended(h.jumps, f.jumps, here)
  BY <1>2, AppendIs DEF NextBody
<1>4. f.at \in Labels(f.node.type) /\ f.node = h.node /\ f.indices = << >> /\ f.at \in {"body", "else"}
  BY <1>1, <1>2 DEF NextBody, Labels, Operators
<1>5. Len(f.jumps) = JumpCount(f)
  BY <1>1, <1>2, <1>3 DEF Extended, JumpCount, NextBody, Constructs
<1>6. \A k \in 1 .. Len(f.jumps) : f.jumps[k] =< here2
  <2>1. \A k \in 1 .. Len(h.jumps) : h.jumps[k] \in Nat
    BY <1>2
  <2>2. ASSUME NEW k \in 1 .. Len(f.jumps) PROVE f.jumps[k] \in Nat /\ f.jumps[k] =< here
    <3>1. k \in 1 .. Len(h.jumps) \/ k = Len(h.jumps) + 1
      BY <1>2, <1>3 DEF Extended
    <3>2. CASE k \in 1 .. Len(h.jumps)
      <4>1. f.jumps[k] = h.jumps[k]
        BY <1>3, <3>2 DEF Extended
      <4> QED
        BY <1>2, <2>1, <3>2, <4>1
    <3>3. CASE k = Len(h.jumps) + 1
      <4>1. f.jumps[k] = here
        BY <1>3, <3>3 DEF Extended
      <4> QED
        BY <4>1
    <3> QED
      BY <3>1, <3>2, <3>3
  <2> QED
    BY <2>2
<1>7. cur = 1 => Outside(out, f)
  <2> SUFFICES ASSUME cur = 1 PROVE Outside(out, f)
    OBVIOUS
  <2>1. value_type(h.node) = "none"
    BY <1>1 DEF value_type, NumberType
  <2>2. h.node \in out
    BY <1>1, <1>2, <2>1 DEF Outside
  <2>3. f.rest \in Seq(out)
    BY <1>1, <2>2 DEF OutAssumption, Closed, NextBody
  <2> QED
    BY <1>4, <2>2, <2>3 DEF Outside
<1>8. Scoped(f) /\ (Scoped(h) <=> h.at = "body")
  BY <1>1, <1>4 DEF Scoped, Constructs, NextBody
<1>9. LastJump(f) = here
  BY <1>3 DEF Extended, LastJump
<1> QED
  BY <1>1, <1>4, <1>5, <1>6, <1>7, <1>8, <1>9 DEF HandlerOK

LEMMA EmptyScope ==
    /\ Scope(TRUE, NoNames) \in ScopeType /\ Scope(TRUE, NoNames).inherits
    /\ DOMAIN Scope(TRUE, NoNames).table = {} /\ Scope(TRUE, NoNames).free = << >>
<1>1. NoNames \in [{} -> NameIndex] /\ {} \in SUBSET Name /\ DOMAIN NoNames = {}
  BY DEF NoNames
<1>2. NoNames \in TableType
  BY <1>1 DEF TableType
<1> QED
  BY <1>1, <1>2 DEF Scope, ScopeType

\* The condition has been assembled.
LEMMA EnterStep ==
    ASSUME NEW out, IInv(out), OutAssumption(out), enter_body
    PROVE  IInv(out)'
<1> DEFINE f == [top EXCEPT !.at = "body", !.rest = node.body, !.jumps = Append(@, Here)]
           added == <<Instruction("jpz", NoIndex, NoIndex)>>
           b == BaseOf(Len(frames))
<1>1. /\ stage = "running" /\ control # << >> /\ node.type \in Constructs /\ top.at = "condition"
      /\ top.node = node /\ control' = Append(Callers, f) /\ scopes' = Append(scopes, Scope(TRUE, NoNames))
      /\ emit("jpz", NoIndex, NoIndex) /\ index' = index /\ immediates' = immediates /\ wrapped' = wrapped
      /\ stage' = stage /\ ast' = ast /\ ec' = ec /\ marked' = marked /\ pending' = pending
  BY AtIs DEF enter_body, Become, push_scope, Stays, called
<1>2. /\ top \in HandlerType /\ HandlerOK(out, Len(frames), marked, Here, top)
      /\ control \in Seq(HandlerType) /\ top = control[Len(control)] /\ Len(control) \in Nat \ {0}
      /\ node \in Node /\ node # ProgramNode /\ frames \in Seq(FrameType) /\ frames # << >>
      /\ Here \in Nat /\ Size \in Int /\ Len(immediates) \in Int /\ Len(marked) \in Int /\ b \in 1 .. Len(scopes)
      /\ marked \in Seq(FunctionName) /\ Len(scopes) \in Nat /\ scopes \in Seq(ScopeType)
      /\ index \in ResultIndex /\ wrapped \in BOOLEAN /\ immediates \in Seq(Value) /\ Len(immediates) =< Byte
      /\ Code = frames[Len(frames)].code /\ Len(control) > 1 /\ ~Finished(Len(frames), control)
  <2>1. node # ProgramNode
    BY <1>1, IsProgram DEF Constructs
  <2> QED
    BY <1>1, <2>1, Running DEF top
<1>3. /\ f \in HandlerType /\ f.node = node /\ f.at = "body" /\ f.rest = node.body
      /\ f.indices = top.indices /\ f.jumps = Append(top.jumps, Here)
  <2>1. node.body \in Seq(Node)
    BY <1>1, <1>2, ConstructFacts
  <2>2. Append(top.jumps, Here) \in Seq(Nat)
    BY <1>2 DEF HandlerType
  <2> QED
    BY <1>1, <1>2, <2>1, <2>2 DEF HandlerType, Label
<1> HIDE DEF f
<1>4. /\ added \in Seq(InstructionType) /\ frames' \in Seq(FrameType) /\ Len(frames') = Len(frames)
      /\ Grown(frames, frames', added, Size)
  BY <1>1, FixedIndices, EmitIs DEF CodeOp, JumpOp
<1>5. Len(added) = 1 /\ added[1] = Instruction("jpz", NoIndex, NoIndex)
  OBVIOUS
<1> HIDE DEF added, b
<1>6. /\ Here' \in Nat /\ Here =< Here' /\ frames'[Len(frames)].size = Size
  BY <1>1, <1>4, HereGrows
<1>7. NextBody(top, f, Here)
  BY <1>1, <1>3 DEF NextBody
<1>8. /\ HandlerOK(out, Len(frames), marked', Here', f) /\ Scoped(f) /\ LastJump(f) = Here /\ f.indices = << >>
      /\ ~Scoped(top)
  <2>1. /\ HandlerOK(out, Len(frames), marked, Here', f) /\ Scoped(f) /\ LastJump(f) = Here /\ f.indices = << >>
        /\ (Scoped(top) <=> top.at = "body")
    <3>1. top.node \in Node /\ top.node.type \in Constructs /\ Here \in Nat /\ Here' \in Nat /\ Here =< Here'
          /\ top \in HandlerType /\ HandlerOK(out, Len(frames), marked, Here, top)
      BY <1>1, <1>2, <1>6
    <3> QED
      BY <1>7, <3>1, NextBodyOK
  <2> QED
    BY <1>1, <2>1
<1>9. marked' \in Seq(FunctionName) /\ Prefix(marked, marked')
  BY <1>1, <1>2 DEF Prefix
<1>10. /\ control' \in Seq(HandlerType) /\ Replaced(control, control', f) /\ control' # << >>
       /\ Len(control') = Len(control) /\ control'[Len(control)] = f
       /\ ControlOK(out, Len(frames), marked', Here', control')
       /\ Popped(control, Callers) /\ Popped(control', Callers) /\ Callers \in Seq(HandlerType)
  BY <1>1, <1>3, <1>6, <1>8, <1>9, ControlBecomes
<1>11. /\ Cardinality(ScopedIn(control')) = Cardinality(ScopedIn(control)) + 1
       /\ OpenJumps(control') = OpenJumps(control) \cup {Here + 1}
       /\ Cardinality(ScopedIn(control)) \in Nat
  <2>1. ScopedIn(control) = ScopedIn(Callers) /\ OpenJumps(control) = OpenJumps(Callers)
        /\ Cardinality(ScopedIn(control)) \in Nat
    BY <1>1, <1>2, <1>8, <1>10, ScopedPopped
  <2>2. control'[Len(control')] = f
    BY <1>10
  <2>3. Cardinality(ScopedIn(control')) = Cardinality(ScopedIn(Callers)) + 1
        /\ OpenJumps(control') = OpenJumps(Callers) \cup {LastJump(f) + 1}
    BY <1>8, <1>10, <2>2, ScopedPopped
  <2> QED
    BY <1>8, <2>1, <2>3
<1>12. /\ scopes' \in Seq(ScopeType) /\ Len(scopes') = Len(scopes) + 1 /\ scopes'[Len(scopes) + 1] = Scope(TRUE, NoNames)
       /\ \A s \in 1 .. Len(scopes) : scopes'[s] = scopes[s]
  <2>1. scopes' \in Seq(ScopeType) /\ Extended(scopes, scopes', Scope(TRUE, NoNames))
    BY <1>1, <1>2, EmptyScope, AppendIs
  <2> QED
    BY <2>1 DEF Extended
<1>13. StepTypes /\ StepMarks
  BY <1>1, <1>2, <1>4, <1>12, SameMarks DEF StepTypes
<1>14. ~Finished(Len(frames), control')
  <2>1. Len(control') # 1 /\ control' # << >>
    <3>1. Len(control) # 1
      BY <1>2
    <3>2. Len(control') = Len(control) /\ control' # << >>
      BY <1>10
    <3> QED
      BY <3>1, <3>2
  <2> QED
    BY <2>1 DEF Finished
<1>15. ScopesOK(Len(frames), scopes', control')
  <2>1. ScopesOK(Len(frames), scopes, control)
    BY <1>1 DEF IInv, ScopesInv
  <2>2. /\ Len(scopes) = b + Cardinality(ScopedIn(control)) /\ ~scopes[b].inherits
        /\ \A s \in b + 1 .. Len(scopes) : scopes[s].inherits
    BY <1>1, <2>1 DEF ScopesOK, b
  <2>3. Len(scopes') = b + Cardinality(ScopedIn(control'))
    <3> DEFINE i == Len(scopes)
               j == Cardinality(ScopedIn(control))
    <3>1. b \in Int /\ j \in Int /\ i = b + j /\ Len(scopes') = i + 1 /\ Cardinality(ScopedIn(control')) = j + 1
      BY <1>2, <1>11, <1>12, <2>2
    <3> HIDE DEF i, j
    <3> QED
      BY <3>1
  <2>4. ~scopes'[b].inherits
    BY <1>2, <1>12, <2>2
  <2>5. ASSUME NEW s \in b + 1 .. Len(scopes') PROVE scopes'[s].inherits
    <3>1. CASE s \in 1 .. Len(scopes)
      <4>1. s \in b + 1 .. Len(scopes)
        BY <1>2, <3>1
      <4> QED
        BY <1>12, <2>2, <3>1, <4>1
    <3>2. CASE s = Len(scopes) + 1
      BY <1>12, <3>2, EmptyScope
    <3>3. \A i, l, k \in Int : k \in i .. l + 1 /\ i >= 1 => k \in 1 .. l \/ k = l + 1
      OBVIOUS
    <3>4. b + 1 \in Int /\ b + 1 >= 1 /\ Len(scopes) \in Int /\ s \in Int /\ s \in b + 1 .. Len(scopes) + 1
      BY <1>2, <1>12
    <3>5. s \in 1 .. Len(scopes) \/ s = Len(scopes) + 1
      BY <3>3, <3>4
    <3> QED
      BY <3>1, <3>2, <3>5
  <2> QED
    BY <1>10, <2>3, <2>4, <2>5 DEF ScopesOK, b
<1>16. ASSUME ~wrapped' PROVE ~wrapped /\ StepCode(out) /\ StepHeld
  <2>1. ~wrapped /\ Size =< Size
    BY <1>1, <1>2, <1>16
  <2>2. CodeOK(out, frames, Len(immediates), Len(marked)) /\ FramesOK(frames, control)
    BY <1>1, <2>1 DEF IInv, CodeInv
  <2>3. CodeOK(out, frames', Len(immediates'), Len(marked')) /\ frames[1].size =< frames'[1].size
    <3>1. \A k \in 1 .. Len(added) : InstructionOK(out, Len(frames), added[k], Size, Len(immediates'), Len(marked'))
      BY <1>5 DEF InstructionOK, Instruction, TwoOp, SelfOp
    <3>2. Len(immediates') \in Int /\ Len(immediates) =< Len(immediates') /\ Len(marked') \in Int /\ Len(marked) =< Len(marked')
      BY <1>1, <1>2
    <3>3. Size \in Int
      BY <1>2
    <3> QED
      BY <1>1, <1>4, <2>1, <3>1, <3>2, <3>3, CodeGrows
  <2>4. FramesOK(frames', control')
    <3>1. OpenJumps(control) \subseteq OpenJumps(control')
      BY <1>11
    <3>2. \A k \in 1 .. Len(added) :
             Len(frames[Len(frames)].code) + k \in OpenJumps(control') \/ added[k].op \notin JumpOp
      BY <1>2, <1>5, <1>11 DEF Here
    <3>3. \A k \in OpenJumps(control') : \/ k \in OpenJumps(control)
                                         \/ \E j \in 1 .. Len(added) :
                                              k = Len(frames[Len(frames)].code) + j /\ added[j].op \in JumpOp
      <4>1. 1 \in 1 .. Len(added) /\ added[1].op \in JumpOp
        BY <1>5 DEF Instruction, JumpOp
      <4> QED
        BY <1>2, <1>11, <4>1 DEF Here
    <3> QED
      BY <1>2, <1>4, <1>14, <2>2, <3>1, <3>2, <3>3, FramesGrown
  <2>5. HeldOK(control, Size, Len(immediates)) /\ CellsApart(scopes, b, control, Size)
    BY <1>1, <2>1, OpenIndices DEF b
  <2>6. HeldOK(control', Size, Len(immediates'))
    <3>1. \A k \in 1 .. Len(f.indices) : IsOperand(f.indices[k], Size, Len(immediates))
      BY <1>8
    <3>2. HeldOK(control', Size, Len(immediates))
      BY <1>1, <1>2, <1>10, <2>5, <3>1, HeldReplaced
    <3> QED
      BY <1>1, <3>2
  <2>7. IndexOK(f, index', Size, Len(immediates'))
    BY <1>3 DEF IndexOK, OperandLabel, NeedsIndex, IsTarget
  <2>8. CellsApart(scopes', b, control', Size)
    <3>1. \A c, k : Held(control', c, k) =>
            \/ c # Len(control) /\ SameHeld(control, control', c, k)
            \/ /\ c = Len(control) /\ control'[c] = f /\ k \in 1 .. Len(f.indices)
               /\ f.indices[k].type = "intermediate"
      <4>1. control \in Seq(HandlerType) /\ control # << >>
        BY <1>1, <1>2
      <4>2. control' \in Seq(HandlerType) /\ Replaced(control, control', f)
        BY <1>10
      <4> QED
        BY <4>1, <4>2, HeldBecomes
    <3>2. \A c, k : Held(control', c, k) => SameHeld(control, control', c, k)
      BY <1>8, <3>1
    <3>3. ASSUME NEW s \in b .. Len(scopes') PROVE SameScope(scopes, scopes', b, s)
      <4>1. CASE s \in 1 .. Len(scopes)
        <5>1. s \in b .. Len(scopes)
          BY <1>2, <4>1
        <5> QED
          BY <1>12, <4>1, <5>1 DEF SameScope
      <4>2. CASE s = Len(scopes) + 1
        BY <1>12, <4>2, EmptyScope DEF SameScope
      <4>3. \A i, l, k \in Int : k \in i .. l + 1 /\ i >= 1 => k \in 1 .. l \/ k = l + 1
        OBVIOUS
      <4>4. b \in Int /\ b >= 1 /\ Len(scopes) \in Int /\ s \in Int /\ s \in b .. Len(scopes) + 1
        BY <1>2, <1>12
      <4>5. s \in 1 .. Len(scopes) \/ s = Len(scopes) + 1
        BY <4>3, <4>4
      <4> QED
        BY <4>1, <4>2, <4>5
    <3>4. b \in Nat
      BY <1>2
    <3> QED
      BY <1>2, <2>1, <2>5, <3>2, <3>3, <3>4, CellsKept
  <2>9. control'[Len(control')] = f
    BY <1>10
  <2> QED
    BY <1>6, <2>1, <2>3, <2>4, <2>6, <2>7, <2>8, <2>9 DEF StepCode, StepHeld, b
<1>17. Len(frames') = Len(frames)
  BY <1>4
<1> QED
  BY <1>1, <1>10, <1>13, <1>15, <1>16, Collect

\* The code of the current frame when the last jump of the innermost handler is given its
\* offset, after added.
Leaving(added) == Code \o added
Landing(added) == make_jump_offset(LastJump(top), Len(Leaving(added)))
Patches(added) ==
    /\ InRange(Landing(added))
    /\ frames' = [frames EXCEPT ![Current].code = Patched(Leaving(added), LastJump(top), Len(Leaving(added)))]

\* Wherever it is, the jump that is given an offset.
LEMMA PatchedTypes ==
    ASSUME NEW c \in Seq(InstructionType), NEW j \in Nat, NEW d, make_jump_offset(j, d) \in AnyIndex
    PROVE  Patched(c, j, d) \in Seq(InstructionType) /\ Len(Patched(c, j, d)) = Len(c)
<1>1. CASE j + 1 \in 1 .. Len(c)
  BY <1>1, PatchedIs
<1>2. CASE j + 1 \notin 1 .. Len(c)
  <2>1. c \in [1 .. Len(c) -> InstructionType] /\ Len(c) \in Nat /\ DOMAIN c = 1 .. Len(c)
    BY LenProperties
  <2>2. Patched(c, j, d) = c
    <3>1. \A y : [c EXCEPT ![j + 1] = y] = c
      BY <1>2, <2>1
    <3> QED
      BY <3>1 DEF Patched
  <2> QED
    BY <2>2
<1> QED
  BY <1>1, <1>2

\* The handler of a construct with a body.
LEMMA JumpIs ==
    ASSUME NEW out, IInv(out), stage = "running", control # << >>, Scoped(top)
    PROVE  /\ node \in Node /\ node # ProgramNode /\ node.type \in Constructs /\ top.indices = << >>
           /\ LastJump(top) \in Nat /\ LastJump(top) =< Here /\ top.jumps[1] \in Nat /\ top.jumps[1] =< Here
           /\ top.jumps \in Seq(Nat) /\ Len(top.jumps) >= 2
<1>1. top.node = node /\ node.type \in Constructs /\ top.at \in {"body", "else"} /\ node # ProgramNode
  BY IsProgram DEF node, Scoped, Constructs
<1>2. top \in HandlerType /\ HandlerOK(out, Len(frames), marked, Here, top) /\ node \in Node
  BY <1>1, Running
<1>3. top.jumps \in Seq(Nat) /\ Len(top.jumps) \in Nat
  BY <1>2 DEF HandlerType
<1>4. Len(top.jumps) >= 2 /\ (\A k \in 1 .. Len(top.jumps) : top.jumps[k] =< Here) /\ top.indices = << >>
  <2>1. Len(top.jumps) = JumpCount(top) /\ \A k \in 1 .. Len(top.jumps) : top.jumps[k] =< Here
    BY <1>2 DEF HandlerOK
  <2>2. JumpCount(top) >= 2
    BY <1>1 DEF JumpCount, Scoped
  <2>3. top.at # "lhs" /\ node.type # "function_call"
    BY <1>1 DEF Constructs
  <2> QED
    BY <1>1, <1>2, <2>1, <2>2, <2>3 DEF HandlerOK
<1>5. Len(top.jumps) \in 1 .. Len(top.jumps) /\ 1 \in 1 .. Len(top.jumps)
  BY <1>3, <1>4
<1>6. \A k \in 1 .. Len(top.jumps) : top.jumps[k] \in Nat
  BY <1>3
<1>7. LastJump(top) \in Nat /\ LastJump(top) =< Here /\ top.jumps[1] \in Nat /\ top.jumps[1] =< Here
  BY <1>4, <1>5, <1>6 DEF LastJump
<1> QED
  BY <1>1, <1>2, <1>3, <1>4, <1>7

LEMMA LeavingIs ==
    ASSUME NEW out, IInv(out), stage = "running", control # << >>, Scoped(top),
           NEW added \in Seq(InstructionType), Patches(added)
    PROVE  /\ Leaving(added) \in Seq(InstructionType) /\ Len(Leaving(added)) = Here + Len(added)
           /\ Landing(added) \in AnyIndex /\ Landing(added) = make_jump_offset(LastJump(top), Len(Leaving(added)))
           /\ frames' \in Seq(FrameType) /\ Len(frames') = Len(frames)
           /\ Recoded(frames, frames', Patched(Leaving(added), LastJump(top), Len(Leaving(added))))
           /\ frames'[Len(frames)].size = Size
           /\ Here' = Here + Len(added) /\ Here' \in Nat /\ Here =< Here' /\ Len(added) \in Nat
<1> DEFINE c == Leaving(added)
           j == LastJump(top)
           i == Landing(added)
           e == Patched(c, j, Len(c))
<1>1. frames \in Seq(FrameType) /\ frames # << >> /\ Here \in Nat /\ Code \in Seq(InstructionType) /\ Len(Code) = Here
      /\ Len(frames) \in Nat \ {0}
  BY Running DEF Here
<1>2. j \in Nat
  BY JumpIs
<1>3. c \in Seq(InstructionType) /\ Len(c) = Here + Len(added) /\ Len(added) \in Nat
  BY <1>1, ConcatIs DEF Leaving
<1>4. i = make_jump_offset(j, Len(c)) /\ InRange(i)
  BY DEF Landing, Patches
<1>5. i \in AnyIndex
  <2>1. i = [type |-> "jump_offset", value |-> Len(c) - j]
    BY <1>4 DEF make_jump_offset, Index
  <2>2. Len(c) - j \in Int
    BY <1>1, <1>2, <1>3
  <2> HIDE DEF i, c, j
  <2> QED
    BY <1>4, <2>1, <2>2 DEF AnyIndex, MemoryIndex, IndexType
<1>6. e \in Seq(InstructionType) /\ Len(e) = Len(c)
  <2> HIDE DEF i, c, j
  <2> QED
    BY <1>2, <1>3, <1>4, <1>5, PatchedTypes
<1>7. frames' = [frames EXCEPT ![Len(frames)].code = e]
  BY DEF Patches, Current
<1> HIDE DEF e
<1>8. frames' \in Seq(FrameType) /\ Recoded(frames, frames', e)
  BY <1>1, <1>6, <1>7, RecodedIs
<1>9. Len(frames') = Len(frames) /\ frames'[Len(frames)].size = Size /\ frames'[Len(frames)].code = e
  BY <1>8 DEF Recoded, Size
<1>10. Here' = Len(e)
  BY <1>9 DEF Here, Code, Current
<1>11. Here' = Here + Len(added) /\ Here' \in Nat /\ Here =< Here'
  BY <1>1, <1>3, <1>6, <1>10
<1> QED
  BY <1>3, <1>4, <1>5, <1>8, <1>9, <1>11 DEF e

\* Jumps that are open before the offset is put in; what the step does to the code.
LEMMA LeavingCode ==
    ASSUME NEW out, IInv(out), stage = "running", control # << >>, Scoped(top), ~wrapped,
           NEW added \in Seq(InstructionType), Patches(added), immediates' = immediates, marked' = marked,
           \A k \in 1 .. Len(added) : InstructionOK(out, Len(frames), added[k], Size, Len(immediates), Len(marked)),
           ~Finished(Len(frames), control'),
           NEW more, OpenJumps(control) \subseteq more, OpenJumps(control') \subseteq more,
           \A k \in 1 .. Len(added) : Here + k \in more \/ added[k].op \notin JumpOp,
           \A k \in more : k \in OpenJumps(control) \/ \E j \in 1 .. Len(added) : k = Here + j /\ added[j].op \in JumpOp,
           \A k \in more : \/ k \in OpenJumps(control') \/ k = LastJump(top) + 1
                           \/ JumpClosed(Leaving(added), k, Len(Leaving(added)) + 1)
    PROVE  StepCode(out)
<1> DEFINE c == Leaving(added)
           j == LastJump(top)
           e == Patched(c, j, Len(c))
<1>1. frames \in Seq(FrameType) /\ frames # << >> /\ Here \in Nat /\ Code \in Seq(InstructionType) /\ Len(Code) = Here
      /\ Len(frames) \in Nat \ {0} /\ Code = frames[Len(frames)].code /\ control \in Seq(HandlerType)
      /\ Len(control) \in Nat \ {0} /\ top = control[Len(control)]
  BY Running DEF Here, top
<1>2. /\ c \in Seq(InstructionType) /\ Len(c) = Here + Len(added) /\ Len(added) \in Nat
      /\ make_jump_offset(j, Len(c)) \in AnyIndex /\ Recoded(frames, frames', e) /\ j \in Nat
      /\ ~Finished(Len(frames), control)
  <2>1. node # ProgramNode /\ j \in Nat
    BY JumpIs
  <2> QED
    BY <2>1, LeavingIs, Running
<1>3. CodeOK(out, frames, Len(immediates), Len(marked)) /\ FramesOK(frames, control)
  BY DEF IInv, CodeInv
<1>4. OpenCode(OpenJumps(control), Code)
  BY <1>1, <1>2, <1>3 DEF FramesOK
<1>5. j + 1 \in OpenJumps(control)
  <2>1. Len(control) \in ScopedIn(control)
    BY <1>1 DEF ScopedIn
  <2> QED
    BY <1>1, <2>1 DEF OpenJumps
<1>6. OpenCode(more, c)
  <2>1. \A k \in 1 .. Len(added) : Len(Code) + k \in more \/ added[k].op \notin JumpOp
    BY <1>1
  <2>2. \A k \in more : k \in OpenJumps(control) \/ \E l \in 1 .. Len(added) : k = Len(Code) + l /\ added[l].op \in JumpOp
    BY <1>1
  <2> QED
    BY <1>1, <1>4, <2>1, <2>2, OpenGrown DEF Leaving
<1>7. j + 1 \in 1 .. Len(c) /\ c[j + 1].op \in JumpOp
  BY <1>5, <1>6 DEF OpenCode
<1> HIDE DEF c, j
<1>8. OpenCode(OpenJumps(control'), e)
  <2>1. \A k \in more : k \in OpenJumps(control') \/ k = j + 1 \/ JumpClosed(c, k, Len(c) + 1)
    BY DEF c, j
  <2> QED
    BY <1>2, <1>6, <1>7, <2>1, OpenPatched
<1>9. /\ e \in Seq(InstructionType) /\ Len(e) = Len(c)
      /\ \A k \in 1 .. Len(c) : k # j + 1 => e[k] = c[k]
      /\ e[j + 1].op = c[j + 1].op
  BY <1>2, <1>7, PatchedIs
<1> HIDE DEF e
<1>10. \A k \in 1 .. Len(e) : InstructionOK(out, Len(frames), e[k], frames[Len(frames)].size, Len(immediates), Len(marked))
  <2>1. FrameOK(out, Len(frames), frames[Len(frames)], Len(immediates), Len(marked))
    <3>1. Len(frames) \in 1 .. Len(frames)
      BY <1>1
    <3> QED
      BY <1>3, <3>1 DEF CodeOK
  <2>2. \A k \in 1 .. Len(Code) : InstructionOK(out, Len(frames), Code[k], Size, Len(immediates), Len(marked))
    BY <1>1, <2>1 DEF FrameOK, Size
  <2>3. ASSUME NEW k \in 1 .. Len(c)
        PROVE  InstructionOK(out, Len(frames), c[k], Size, Len(immediates), Len(marked))
    <3>1. c = Code \o added
      BY DEF c, Leaving
    <3>3. /\ \A l \in 1 .. Len(Code) : (Code \o added)[l] = Code[l]
          /\ \A l \in 1 .. Len(added) : (Code \o added)[Len(Code) + l] = added[l]
          /\ \A m \in 1 .. Len(Code \o added) : m \in 1 .. Len(Code) \/ \E l \in 1 .. Len(added) : m = Len(Code) + l
      <4> DEFINE d == Code
      <4>1. d \in Seq(InstructionType)
        BY <1>1
      <4> HIDE DEF d
      <4>2. /\ \A l \in 1 .. Len(d) : (d \o added)[l] = d[l]
            /\ \A l \in 1 .. Len(added) : (d \o added)[Len(d) + l] = added[l]
            /\ \A m \in 1 .. Len(d \o added) : m \in 1 .. Len(d) \/ \E l \in 1 .. Len(added) : m = Len(d) + l
        BY <4>1, ConcatIs
      <4> QED
        BY <4>2 DEF d
    <3>2. /\ \A l \in 1 .. Len(Code) : c[l] = Code[l]
          /\ \A l \in 1 .. Len(added) : c[Len(Code) + l] = added[l]
          /\ k \in 1 .. Len(Code) \/ \E l \in 1 .. Len(added) : k = Len(Code) + l
      BY <3>1, <3>3
    <3> QED
      BY <2>2, <3>2
  <2>4. InstructionOK(out, Len(frames), e[j + 1], Size, Len(immediates), Len(marked))
    <3>1. e[j + 1].op \in JumpOp
      BY <1>7, <1>9
    <3> QED
      BY <3>1 DEF InstructionOK, JumpOp, TwoOp, SelfOp
  <2>5. ASSUME NEW k \in 1 .. Len(c)
        PROVE  InstructionOK(out, Len(frames), e[k], Size, Len(immediates), Len(marked))
    <3>1. CASE k = j + 1
      BY <2>4, <3>1
    <3>2. CASE k # j + 1
      <4>1. e[k] = c[k]
        BY <1>9, <3>2
      <4> QED
        BY <2>3, <4>1
    <3> QED
      BY <3>1, <3>2
  <2> QED
    BY <1>9, <2>5 DEF Size
<1>11. CodeOK(out, frames', Len(immediates), Len(marked)) /\ frames'[1].size = frames[1].size
  <2>1. frames \in Seq(FrameType) /\ frames # << >> /\ Recoded(frames, frames', e)
        /\ CodeOK(out, frames, Len(immediates), Len(marked))
    BY <1>1, <1>2, <1>3
  <2> QED
    BY <1>10, <2>1, CodeRecoded
<1>12. FramesOK(frames', control')
  BY <1>2, <1>3, <1>8, FramesRecoded
<1>13. frames[1].size =< frames'[1].size
  <2>1. frames[1] \in FrameType
    BY <1>1
  <2> QED
    BY <1>11, <2>1 DEF FrameType
<1> QED
  BY <1>11, <1>12, <1>13 DEF StepCode

LEMMA LeaveIs ==
    ASSUME NEW added, NEW offsets, NEW sc, NEW ct, LeaveBody(added, offsets, sc, ct)
    PROVE  /\ top.rest = << >> /\ UNCHANGED <<ast, called>>
           /\ \/ Assert
              \/ /\ Patches(added) /\ \A i \in offsets : InRange(i)
                 /\ scopes' = sc /\ control' = ct /\ index' = NoIndex
                 /\ UNCHANGED <<immediates, wrapped, stage, ec>>
<1>1. top.rest = << >> /\ UNCHANGED <<ast, called>>
  BY DEF LeaveBody
<1> DEFINE l == make_jump_offset(top.jumps[Len(top.jumps)], Len(Code \o added))
<1>2. CASE Asserting(offsets \cup {l})
  BY <1>1, <1>2 DEF LeaveBody
<1>3. CASE ~Asserting(offsets \cup {l})
  <2>1. /\ frames' = [frames EXCEPT ![Current].code = Patched(Code \o added, top.jumps[Len(top.jumps)], Len(Code \o added))]
        /\ scopes' = sc /\ control' = ct /\ index' = NoIndex
        /\ UNCHANGED <<immediates, wrapped, stage, ec>>
    BY <1>3 DEF LeaveBody
  <2>2. \A i \in offsets \cup {l} : InRange(i)
    BY <1>3 DEF Asserting
  <2>3. Landing(added) = l
    BY DEF Landing, Leaving, LastJump
  <2>4. Patches(added)
    BY <2>1, <2>2, <2>3 DEF Patches, Leaving, LastJump
  <2> QED
    BY <1>1, <2>1, <2>2, <2>4
<1> QED
  BY <1>2, <1>3

\* What the handlers below one with a body have open.
LEMMA CallersOpen ==
    ASSUME NEW out, IInv(out), stage = "running", control # << >>, Scoped(top)
    PROVE  /\ OpenJumps(control) = OpenJumps(Callers) \cup {LastJump(top) + 1}
           /\ Cardinality(ScopedIn(control)) = Cardinality(ScopedIn(Callers)) + 1
           /\ Cardinality(ScopedIn(Callers)) \in Nat
           /\ ~Finished(Len(frames), Callers)
<1>1. node # ProgramNode /\ node.type # "function_return"
  BY JumpIs DEF Constructs
<1>2. Callers \in Seq(HandlerType) /\ Popped(control, Callers) /\ ~Finished(Len(frames), Callers)
  BY <1>1, CallersAre
<1>3. control \in Seq(HandlerType) /\ top = control[Len(control)]
  BY Running DEF top
<1> QED
  BY <1>2, <1>3, ScopedPopped

\* The scope of the body, which is the innermost.
LEMMA OuterIs ==
    ASSUME NEW out, IInv(out), stage = "running", control # << >>, Scoped(top)
    PROVE  /\ OuterScopes \in Seq(ScopeType) /\ Len(OuterScopes) = Len(scopes) - 1
           /\ \A s \in 1 .. Len(scopes) - 1 : OuterScopes[s] = scopes[s]
           /\ BaseOf(Len(frames)) \in 1 .. Len(scopes) - 1 /\ Len(scopes) \in Nat
           /\ Len(scopes) - 1 = BaseOf(Len(frames)) + Cardinality(ScopedIn(Callers))
           /\ ~scopes[BaseOf(Len(frames))].inherits
           /\ \A s \in BaseOf(Len(frames)) + 1 .. Len(scopes) : scopes[s].inherits
<1> DEFINE b == BaseOf(Len(frames))
           n == Cardinality(ScopedIn(Callers))
           l == Len(scopes)
<1>1. scopes \in Seq(ScopeType) /\ scopes # << >> /\ l \in Nat \ {0} /\ b \in 1 .. l
  BY Running
<1>2. OuterScopes \in Seq(ScopeType) /\ Popped(scopes, OuterScopes)
  BY <1>1, FrontIs DEF OuterScopes
<1>3. ScopesOK(Len(frames), scopes, control)
  BY DEF IInv, ScopesInv
<1>4. /\ l = b + Cardinality(ScopedIn(control)) /\ ~scopes[b].inherits
      /\ \A s \in b + 1 .. l : scopes[s].inherits
  BY <1>3 DEF ScopesOK
<1>5. Cardinality(ScopedIn(control)) = n + 1 /\ n \in Nat
  BY CallersOpen
<1>6. l - 1 = b + n /\ b \in 1 .. l - 1
  <2>1. l = b + (n + 1) /\ l \in Nat /\ b \in Nat \ {0} /\ n \in Nat
    BY <1>1, <1>4, <1>5
  <2> HIDE DEF l, b, n
  <2> QED
    BY <2>1
<1> QED
  BY <1>1, <1>2, <1>4, <1>6 DEF Popped

\* A construct returns.
LEMMA Leaves ==
    ASSUME NEW out, IInv(out), stage = "running", control # << >>, Scoped(top),
           NEW added \in Seq(InstructionType), Patches(added),
           control' = Callers, scopes' = OuterScopes, index' = NoIndex, Steady, immediates' = immediates,
           ~wrapped => StepCode(out)
    PROVE  IInv(out)'
<1> DEFINE b == BaseOf(Len(frames))
<1>1. node # ProgramNode /\ node \in Node /\ node.type \in Constructs
  BY JumpIs
<1>2. /\ frames' \in Seq(FrameType) /\ Len(frames') = Len(frames) /\ frames'[Len(frames)].size = Size
      /\ Here' \in Nat /\ Here =< Here'
  BY LeavingIs
<1>3. /\ control \in Seq(HandlerType) /\ top = control[Len(control)] /\ node = top.node
      /\ Callers = SubSeq(control, 1, Len(control) - 1) /\ marked' \in Seq(FunctionName)
      /\ Prefix(marked, marked') /\ Len(frames) \in Nat /\ wrapped \in BOOLEAN /\ Size \in Int
      /\ immediates \in Seq(Value) /\ Len(immediates) =< Byte
  BY Running DEF top, node, Callers, Prefix, Steady
<1>4. ControlOK(out, Len(frames), marked', Here', control)
  BY <1>2, <1>3, ControlGrows
<1>5. /\ Callers \in Seq(HandlerType) /\ Callers # << >>
      /\ ControlOK(out, Len(frames), marked', Here', Callers)
      /\ CallsNode(Len(frames), Callers[Len(Callers)], node)
  <2>1. control[Len(control)].node # ProgramNode
    BY <1>1, <1>3
  <2> QED
    BY <1>3, <1>4, <2>1, ReturnControl
<1>6. /\ OuterScopes \in Seq(ScopeType) /\ Len(OuterScopes) = Len(scopes) - 1
      /\ \A s \in 1 .. Len(scopes) - 1 : OuterScopes[s] = scopes[s]
      /\ b \in 1 .. Len(scopes) - 1 /\ Len(scopes) \in Nat
      /\ Len(scopes) - 1 = b + Cardinality(ScopedIn(Callers))
      /\ ~scopes[b].inherits /\ \A s \in b + 1 .. Len(scopes) : scopes[s].inherits
  BY OuterIs
<1> HIDE DEF b
<1>7. ScopesOK(Len(frames), scopes', control')
  <2>1. ~OuterScopes[b].inherits
    BY <1>6
  <2>2. ASSUME NEW s \in b + 1 .. Len(OuterScopes) PROVE OuterScopes[s].inherits
    <3>1. s \in 1 .. Len(scopes) - 1 /\ s \in b + 1 .. Len(scopes)
      BY <1>6
    <3> QED
      BY <1>6, <3>1
  <2> QED
    BY <1>5, <1>6, <2>1, <2>2 DEF ScopesOK, b
<1>8. StepTypes /\ StepMarks
  BY <1>2, <1>3, <1>6, SameMarks, FixedIndices DEF StepTypes, Steady
<1>9. ASSUME ~wrapped' PROVE ~wrapped /\ StepCode(out) /\ StepHeld
  <2>1. ~wrapped /\ StepCode(out)
    BY <1>9 DEF Steady
  <2>2. Callers[Len(Callers)] \in HandlerType
        /\ Callers[Len(Callers)].at \in Labels(Callers[Len(Callers)].node.type)
    BY <1>5, TopFacts DEF HandlerOK
  <2>3. ReturnOK(node, NoIndex, Size, Len(immediates'))
    BY <1>1 DEF ReturnOK, IsNumber, is_lvalue, value_type, NumberType, Constructs
  <2>4. IndexOK(Callers[Len(Callers)], index', Size, Len(immediates'))
    BY <1>1, <1>5, <2>2, <2>3, ReturnedIsOK
  <2>5. CellsApart(scopes, b, Callers, Size) /\ HeldOK(Callers, Size, Len(immediates'))
    BY <1>1, <2>1, CallersAre DEF b
  <2>6. CellsApart(scopes', b, Callers, Size)
    <3>1. \A s \in b .. Len(scopes') : SameScope(scopes, scopes', b, s)
      <4>1. ASSUME NEW s \in b .. Len(OuterScopes) PROVE s \in b .. Len(scopes) /\ OuterScopes[s] = scopes[s]
        <5>1. s \in 1 .. Len(scopes) - 1 /\ s \in b .. Len(scopes)
          BY <1>6
        <5> QED
          BY <1>6, <5>1
      <4> QED
        BY <4>1 DEF SameScope
    <3>2. \A c, k : Held(Callers, c, k) => SameHeld(Callers, Callers, c, k)
      BY DEF Held, SameHeld
    <3>3. b \in Nat /\ Size =< Size
      BY <1>3, <1>6
    <3> QED
      BY <1>3, <2>5, <3>1, <3>2, <3>3, CellsKept, SMTT(30)
  <2> QED
    BY <1>2, <2>1, <2>4, <2>5, <2>6 DEF StepHeld, b
<1> QED
  BY <1>2, <1>5, <1>7, <1>8, <1>9, Collect

\* A construct leaves its last body, after which nothing more is emitted.
LEMMA LastBody ==
    ASSUME NEW out, IInv(out), stage = "running", control # << >>, Scoped(top),
           LeaveBody(<< >>, {}, OuterScopes, Callers)
    PROVE  IInv(out)'
<1>1. CASE Assert
  BY <1>1, LeaveIs, Asserts
<1>2. CASE ~Assert
  <2>1. /\ Patches(<< >>) /\ scopes' = OuterScopes /\ control' = Callers /\ index' = NoIndex
        /\ UNCHANGED <<immediates, wrapped, stage, ec>> /\ UNCHANGED <<ast, called>>
    BY <1>2, LeaveIs
  <2>2. Steady /\ immediates' = immediates /\ marked' = marked /\ << >> \in Seq(InstructionType)
    BY <2>1 DEF Steady, called
  <2>3. ASSUME ~wrapped PROVE StepCode(out)
    <3>1. OpenJumps(control) = OpenJumps(Callers) \cup {LastJump(top) + 1} /\ ~Finished(Len(frames), Callers)
      BY CallersOpen
    <3> DEFINE more == OpenJumps(control)
               added == << >>
    <3>2. /\ OpenJumps(control) \subseteq more /\ OpenJumps(control') \subseteq more
          /\ (\A k \in more : k \in OpenJumps(control) \/ \E j \in 1 .. Len(added) : k = Here + j /\ added[j].op \in JumpOp)
          /\ (\A k \in more : \/ k \in OpenJumps(control') \/ k = LastJump(top) + 1
                              \/ JumpClosed(Leaving(added), k, Len(Leaving(added)) + 1))
      BY <2>1, <3>1
    <3>3. Len(added) = 0 /\ added \in Seq(InstructionType) /\ Patches(added)
      BY <2>1
    <3> HIDE DEF more, added
    <3>4. 1 .. Len(added) = {}
      BY <3>3
    <3>5. /\ \A k \in 1 .. Len(added) : InstructionOK(out, Len(frames), added[k], Size, Len(immediates), Len(marked))
          /\ \A k \in 1 .. Len(added) : Here + k \in more \/ added[k].op \notin JumpOp
      BY <3>4
    <3> QED
      BY <2>1, <2>2, <2>3, <3>1, <3>2, <3>3, <3>5, LeavingCode
  <2> QED
    BY <2>1, <2>2, <2>3, Leaves
<1> QED
  BY <1>1, <1>2

\* The code of a body ends in a jump, which is open or closed.
LEMMA AddedJump ==
    ASSUME NEW a \in AnyIndex, NEW added, added = <<Instruction("jmp", a, NoIndex)>>
    PROVE  /\ added \in Seq(InstructionType) /\ Len(added) = 1 /\ added[1] = Instruction("jmp", a, NoIndex)
           /\ added[1].op = "jmp" /\ added[1].op \in JumpOp /\ added[1].a = a
           /\ \A out, f, size, n, m : \A k \in 1 .. Len(added) : InstructionOK(out, f, added[k], size, n, m)
<1>1. Instruction("jmp", a, NoIndex) \in InstructionType
  BY FixedIndices DEF Instruction, InstructionType, CodeOp, JumpOp
<1>2. added \in Seq(InstructionType) /\ Len(added) = 1 /\ added[1] = Instruction("jmp", a, NoIndex)
  BY <1>1
<1>3. added[1].op = "jmp" /\ added[1].op \in JumpOp /\ added[1].a = a
  BY <1>2 DEF Instruction, JumpOp
<1>4. \A out, f, size, n, m : InstructionOK(out, f, added[1], size, n, m)
  BY <1>3 DEF InstructionOK, TwoOp, SelfOp
<1> QED
  BY <1>2, <1>3, <1>4

\* A loop goes back to its condition.
LEMMA LoopStep ==
    ASSUME NEW out, IInv(out), assemble_loop
    PROVE  IInv(out)'
<1> DEFINE back == make_jump_offset(Here, top.jumps[1])
           added == <<Instruction("jmp", back, NoIndex)>>
<1>1. /\ stage = "running" /\ control # << >> /\ node.type = "loop" /\ top.at = "body" /\ top.node = node
      /\ LeaveBody(added, {back}, OuterScopes, Callers)
  BY AtIs DEF assemble_loop
<1>2. Scoped(top)
  BY <1>1 DEF Scoped, Constructs
<1>3. CASE Assert
  <2>1. UNCHANGED <<ast, called>>
    BY <1>1, LeaveIs
  <2> QED
    BY <1>1, <1>3, <2>1, Asserts
<1>4. CASE ~Assert
  <2>1. /\ Patches(added) /\ InRange(back) /\ scopes' = OuterScopes /\ control' = Callers /\ index' = NoIndex
        /\ UNCHANGED <<immediates, wrapped, stage, ec>> /\ UNCHANGED <<ast, called>>
    BY <1>1, <1>4, LeaveIs
  <2>2. Steady /\ immediates' = immediates /\ marked' = marked
    BY <2>1 DEF Steady, called
  <2>3. top.jumps[1] \in Nat /\ top.jumps[1] =< Here /\ Here \in Nat
    BY <1>1, <1>2, JumpIs, Running
  <2>4. back = [type |-> "jump_offset", value |-> top.jumps[1] - Here]
    BY DEF make_jump_offset, Index
  <2>5. back \in AnyIndex /\ back.type = "jump_offset" /\ back.value = top.jumps[1] - Here
    <3> DEFINE v == top.jumps[1] - Here
    <3>1. v \in Int /\ back = [type |-> "jump_offset", value |-> v] /\ InRange(back)
      BY <2>1, <2>3, <2>4
    <3> HIDE DEF back, v
    <3>2. back \in MemoryIndex /\ back.type = "jump_offset" /\ back.value = v
      BY <3>1 DEF MemoryIndex, IndexType
    <3>3. back \in AnyIndex
      BY <3>1, <3>2 DEF AnyIndex
    <3> QED
      BY <3>2, <3>3 DEF v
  <2> HIDE DEF back
  <2>6. added = <<Instruction("jmp", back, NoIndex)>>
    OBVIOUS
  <2> HIDE DEF added
  <2>7. /\ added \in Seq(InstructionType) /\ Len(added) = 1
        /\ added[1].op \in JumpOp /\ added[1].a = back
        /\ \A o, f, size, n, m : \A k \in 1 .. Len(added) : InstructionOK(o, f, added[k], size, n, m)
    BY <2>5, <2>6, AddedJump
  <2>8. ASSUME ~wrapped PROVE StepCode(out)
    <3>1. OpenJumps(control) = OpenJumps(Callers) \cup {LastJump(top) + 1} /\ ~Finished(Len(frames), Callers)
      BY <1>1, <1>2, CallersOpen
    <3> DEFINE more == OpenJumps(control) \cup {Here + 1}
    <3>2. JumpClosed(Leaving(added), Here + 1, Len(Leaving(added)) + 1)
      <4> DEFINE c == Leaving(added)
                 d == Code
      <4>1. Len(c) = Here + 1
        BY <1>1, <1>2, <2>1, <2>7, LeavingIs
      <4>2. d \in Seq(InstructionType) /\ Len(d) = Here /\ c = d \o added
        BY <1>1, Running DEF Here, Leaving
      <4> HIDE DEF c, d
      <4>3. c[Here + 1] = added[1]
        <5>1. \A k \in 1 .. Len(added) : (d \o added)[Len(d) + k] = added[k]
          BY <2>7, <4>2, ConcatIs
        <5> QED
          <6>1. Len(d) = Here /\ 1 \in 1 .. Len(added)
            BY <2>7, <4>2
          <6>2. (d \o added)[Len(d) + 1] = added[1] /\ c = d \o added
            BY <4>2, <5>1, <6>1
          <6> QED
            BY <6>1, <6>2
      <4>4. c[Here + 1].a.type = "jump_offset" /\ c[Here + 1].a.value = top.jumps[1] - Here
        BY <2>5, <2>7, <4>3
      <4>5. Here + 1 + c[Here + 1].a.value \in 1 .. Len(c) + 1
        <5> DEFINE v == c[Here + 1].a.value
                   j == top.jumps[1]
                   h == Here
        <5>1. v = j - h /\ j \in Nat /\ h \in Nat /\ j =< h /\ Len(c) = h + 1
          BY <2>3, <4>1, <4>4
        <5> HIDE DEF v, j, h
        <5>2. h + 1 + v \in 1 .. Len(c) + 1
          BY <5>1
        <5> QED
          BY <5>2 DEF v, h
      <4>6. JumpClosed(c, Here + 1, Len(c) + 1)
        BY <4>4, <4>5 DEF JumpClosed
      <4> QED
        BY <4>6 DEF c
    <3>3. /\ OpenJumps(control) \subseteq more /\ OpenJumps(control') \subseteq more
          /\ (\A k \in more : k \in OpenJumps(control) \/ \E j \in 1 .. Len(added) : k = Here + j /\ added[j].op \in JumpOp)
          /\ (\A k \in more : \/ k \in OpenJumps(control') \/ k = LastJump(top) + 1
                              \/ JumpClosed(Leaving(added), k, Len(Leaving(added)) + 1))
          /\ \A k \in 1 .. Len(added) : Here + k \in more \/ added[k].op \notin JumpOp
      BY <2>1, <2>7, <3>1, <3>2
    <3> HIDE DEF more
    <3>4. \A k \in 1 .. Len(added) : InstructionOK(out, Len(frames), added[k], Size, Len(immediates), Len(marked))
      BY <2>7
    <3>5. ~Finished(Len(frames), control')
      BY <2>1, <3>1
    <3> QED
      BY <1>1, <1>2, <2>1, <2>2, <2>7, <2>8, <3>3, <3>4, <3>5, LeavingCode
  <2> QED
    BY <1>1, <1>2, <2>1, <2>2, <2>7, <2>8, Leaves
<1> QED
  BY <1>3, <1>4

\* The else body follows: the first one jumps past it.
LEMMA ElseStep ==
    ASSUME NEW out, IInv(out), OutAssumption(out), At({"conditional_construct"}, "body"),
           NEW f \in HandlerType, NextBody(top, f, Here),
           LeaveBody(<<Instruction("jmp", NoIndex, NoIndex)>>, {}, Append(OuterScopes, Scope(TRUE, NoNames)),
                     Append(Callers, f))
    PROVE  IInv(out)'
<1> DEFINE added == <<Instruction("jmp", NoIndex, NoIndex)>>
           sd == Append(OuterScopes, Scope(TRUE, NoNames))
           b == BaseOf(Len(frames))
<1>1. /\ stage = "running" /\ control # << >> /\ node.type = "conditional_construct" /\ top.at = "body"
      /\ top.node = node
  BY AtIs
<1>2. Scoped(top) /\ UNCHANGED <<ast, called>>
  BY <1>1, LeaveIs DEF Scoped, Constructs
<1>3. CASE Assert
  BY <1>1, <1>2, <1>3, Asserts
<1>4. CASE ~Assert
  <2>1. /\ Patches(added) /\ scopes' = sd /\ control' = Append(Callers, f) /\ index' = NoIndex
        /\ UNCHANGED <<immediates, wrapped, stage, ec>>
    BY <1>4, LeaveIs
  <2>2. Steady /\ immediates' = immediates /\ marked' = marked /\ pending' = pending
    BY <1>2, <2>1 DEF Steady, called
  <2>3. /\ added \in Seq(InstructionType) /\ Len(added) = 1 /\ added[1].op \in JumpOp
        /\ \A o, g, size, n, m : \A k \in 1 .. Len(added) : InstructionOK(o, g, added[k], size, n, m)
    <3> DEFINE d == added
    <3>1. d = <<Instruction("jmp", NoIndex, NoIndex)>>
      OBVIOUS
    <3> HIDE DEF d, added
    <3>2. /\ d \in Seq(InstructionType) /\ Len(d) = 1 /\ d[1].op \in JumpOp
          /\ \A o, g, size, n, m : \A k \in 1 .. Len(d) : InstructionOK(o, g, d[k], size, n, m)
      <4>1. NoIndex \in AnyIndex
        BY FixedIndices
      <4> QED
        BY <3>1, <4>1, AddedJump
    <3> QED
      BY <3>2 DEF d
  <2>4. /\ node \in Node /\ node # ProgramNode /\ node.type \in Constructs
    BY <1>1, <1>2, JumpIs
  <2>5. /\ top \in HandlerType /\ HandlerOK(out, Len(frames), marked, Here, top)
        /\ control \in Seq(HandlerType) /\ top = control[Len(control)] /\ Len(control) \in Nat \ {0}
        /\ Here \in Nat /\ Size \in Int /\ Len(immediates) \in Int /\ Len(marked) \in Int
        /\ marked \in Seq(FunctionName) /\ scopes \in Seq(ScopeType) /\ Len(control) > 1
        /\ wrapped \in BOOLEAN /\ immediates \in Seq(Value) /\ Len(immediates) =< Byte
    BY <1>1, <2>4, Running DEF top
  <2>6. f.at = "else" /\ f.node = node
    BY <1>1 DEF NextBody
  <2> HIDE DEF added, sd, b
  <2>7. /\ frames' \in Seq(FrameType) /\ Len(frames') = Len(frames) /\ frames'[Len(frames)].size = Size
        /\ Here' \in Nat /\ Here =< Here'
    BY <1>1, <1>2, <2>1, <2>3, LeavingIs
  <2>8. /\ HandlerOK(out, Len(frames), marked', Here', f) /\ Scoped(f) /\ LastJump(f) = Here /\ f.indices = << >>
    <3>2. top.node \in Node /\ top.node.type \in Constructs /\ Here \in Nat /\ Here' \in Nat /\ Here =< Here'
          /\ top \in HandlerType /\ HandlerOK(out, Len(frames), marked, Here, top)
      BY <1>1, <2>4, <2>5, <2>7
    <3>3. HandlerOK(out, Len(frames), marked, Here', f) /\ Scoped(f) /\ LastJump(f) = Here /\ f.indices = << >>
      BY <3>2, NextBodyOK
    <3> QED
      BY <2>2, <3>3
  <2>9. marked' \in Seq(FunctionName) /\ Prefix(marked, marked')
    BY <2>2, <2>5 DEF Prefix
  <2>10. /\ control' \in Seq(HandlerType) /\ Replaced(control, control', f) /\ control' # << >>
         /\ Len(control') = Len(control) /\ control'[Len(control)] = f
         /\ ControlOK(out, Len(frames), marked', Here', control')
         /\ Popped(control, Callers) /\ Popped(control', Callers) /\ Callers \in Seq(HandlerType)
    BY <1>1, <2>1, <2>6, <2>7, <2>8, <2>9, ControlBecomes
  <2>11. /\ Cardinality(ScopedIn(control')) = Cardinality(ScopedIn(Callers)) + 1
         /\ OpenJumps(control') = OpenJumps(Callers) \cup {Here + 1}
         /\ OpenJumps(control) = OpenJumps(Callers) \cup {LastJump(top) + 1}
    <3>1. control'[Len(control')] = f
      BY <2>10
    <3>2. Cardinality(ScopedIn(control')) = Cardinality(ScopedIn(Callers)) + 1
          /\ OpenJumps(control') = OpenJumps(Callers) \cup {LastJump(f) + 1}
      BY <2>8, <2>10, <3>1, ScopedPopped
    <3> QED
      BY <1>1, <1>2, <2>8, <3>2, CallersOpen
  <2>12. /\ OuterScopes \in Seq(ScopeType) /\ Len(OuterScopes) = Len(scopes) - 1
         /\ \A s \in 1 .. Len(scopes) - 1 : OuterScopes[s] = scopes[s]
         /\ b \in 1 .. Len(scopes) - 1 /\ Len(scopes) \in Nat
         /\ Len(scopes) - 1 = b + Cardinality(ScopedIn(Callers))
         /\ ~scopes[b].inherits /\ \A s \in b + 1 .. Len(scopes) : scopes[s].inherits
    BY <1>1, <1>2, OuterIs DEF b
  <2>13. /\ sd \in Seq(ScopeType) /\ Len(sd) = Len(scopes) /\ sd[Len(scopes)] = Scope(TRUE, NoNames)
         /\ \A s \in 1 .. Len(scopes) - 1 : sd[s] = scopes[s]
    <3>1. sd \in Seq(ScopeType) /\ Extended(OuterScopes, sd, Scope(TRUE, NoNames))
      BY <2>12, EmptyScope, AppendIs DEF sd
    <3> DEFINE m == Len(OuterScopes)
    <3>2. m = Len(scopes) - 1 /\ m + 1 = Len(scopes)
      BY <2>12
    <3>3. Len(sd) = m + 1 /\ sd[m + 1] = Scope(TRUE, NoNames) /\ \A s \in 1 .. m : sd[s] = OuterScopes[s]
      BY <3>1 DEF Extended
    <3> HIDE DEF m
    <3> QED
      BY <2>12, <3>1, <3>2, <3>3
  <2>14. StepTypes /\ StepMarks
    BY <1>1, <2>1, <2>2, <2>5, <2>7, <2>13, SameMarks, FixedIndices DEF StepTypes, Steady
  <2>15. ~Finished(Len(frames), control')
    <3>1. Len(control) # 1
      BY <2>5
    <3>2. Len(control') = Len(control) /\ control' # << >>
      BY <2>10
    <3> QED
      BY <3>1, <3>2 DEF Finished
  <2>16. ScopesOK(Len(frames), scopes', control')
    <3>1. Len(sd) = b + Cardinality(ScopedIn(control'))
      <4> DEFINE i == Len(scopes)
                 j == Cardinality(ScopedIn(Callers))
      <4>1. b \in Int /\ i \in Int /\ i - 1 = b + j /\ j \in Int /\ Len(sd) = i /\ Cardinality(ScopedIn(control')) = j + 1
        BY <1>1, <1>2, <2>11, <2>12, <2>13, CallersOpen
      <4> HIDE DEF i, j
      <4> QED
        BY <4>1
    <3>2. ~sd[b].inherits
      BY <2>12, <2>13
    <3>3. ASSUME NEW s \in b + 1 .. Len(sd) PROVE sd[s].inherits
      <4>1. CASE s = Len(scopes)
        BY <2>13, <4>1, EmptyScope
      <4>2. CASE s # Len(scopes)
        <5>1. s \in 1 .. Len(scopes) - 1 /\ s \in b + 1 .. Len(scopes)
          <6> DEFINE i == Len(scopes)
          <6>1. i \in Nat /\ b \in Nat /\ s \in b + 1 .. i /\ s # i /\ b >= 1
            BY <2>12, <2>13, <4>2
          <6> HIDE DEF i
          <6>2. s \in 1 .. i - 1 /\ s \in b + 1 .. i
            BY <6>1
          <6> QED
            BY <6>2 DEF i
        <5> QED
          BY <2>12, <2>13, <5>1
      <4> QED
        BY <4>1, <4>2
    <3> QED
      BY <2>1, <2>10, <3>1, <3>2, <3>3 DEF ScopesOK, b
  <2>17. ASSUME ~wrapped' PROVE ~wrapped /\ StepCode(out) /\ StepHeld
    <3>1. ~wrapped
      BY <2>17, <2>2 DEF Steady
    <3>2. StepCode(out)
      <4> DEFINE more == OpenJumps(control) \cup {Here + 1}
      <4>1. /\ OpenJumps(control) \subseteq more /\ OpenJumps(control') \subseteq more
            /\ (\A k \in more : k \in OpenJumps(control) \/ \E j \in 1 .. Len(added) : k = Here + j /\ added[j].op \in JumpOp)
            /\ (\A k \in more : \/ k \in OpenJumps(control') \/ k = LastJump(top) + 1
                                \/ JumpClosed(Leaving(added), k, Len(Leaving(added)) + 1))
            /\ \A k \in 1 .. Len(added) : Here + k \in more \/ added[k].op \notin JumpOp
        BY <2>3, <2>11
      <4> HIDE DEF more
      <4>2. \A k \in 1 .. Len(added) : InstructionOK(out, Len(frames), added[k], Size, Len(immediates), Len(marked))
        BY <2>3
      <4> QED
        BY <1>1, <1>2, <2>1, <2>2, <2>3, <2>15, <3>1, <4>1, <4>2, LeavingCode
    <3>3. HeldOK(control, Size, Len(immediates)) /\ CellsApart(scopes, b, control, Size)
      BY <1>1, <3>1, OpenIndices DEF b
    <3>4. HeldOK(control', Size, Len(immediates'))
      <4>1. \A k \in 1 .. Len(f.indices) : IsOperand(f.indices[k], Size, Len(immediates))
        BY <2>8
      <4>2. HeldOK(control', Size, Len(immediates))
        BY <1>1, <2>5, <2>10, <3>3, <4>1, HeldReplaced
      <4> QED
        BY <2>2, <4>2
    <3>5. IndexOK(f, index', Size, Len(immediates'))
      BY <2>6 DEF IndexOK, OperandLabel, NeedsIndex, IsTarget
    <3>6. CellsApart(scopes', b, control', Size)
      <4>1. \A c, k : Held(control', c, k) =>
              \/ c # Len(control) /\ SameHeld(control, control', c, k)
              \/ /\ c = Len(control) /\ control'[c] = f /\ k \in 1 .. Len(f.indices)
                 /\ f.indices[k].type = "intermediate"
        <5>1. control \in Seq(HandlerType) /\ control # << >>
          BY <1>1, <2>5
        <5>2. control' \in Seq(HandlerType) /\ Replaced(control, control', f)
          BY <2>10
        <5> QED
          BY <5>1, <5>2, HeldBecomes
      <4>2. \A c, k : Held(control', c, k) => SameHeld(control, control', c, k)
        BY <2>8, <4>1
      <4>3. ASSUME NEW s \in b .. Len(sd) PROVE SameScope(scopes, sd, b, s)
        <5>1. CASE s = Len(scopes)
          BY <2>13, <5>1, EmptyScope DEF SameScope
        <5>2. CASE s # Len(scopes)
          <6>1. s \in 1 .. Len(scopes) - 1 /\ s \in b .. Len(scopes)
            BY <2>12, <2>13, <5>2
          <6> QED
            BY <2>13, <6>1 DEF SameScope
        <5> QED
          BY <5>1, <5>2
      <4>4. b \in Nat /\ Size =< Size
        <5>1. b \in Nat
          BY <2>12
        <5>2. Size =< Size
          BY <2>5
        <5> QED
          BY <5>1, <5>2
      <4>5. \A s \in b .. Len(scopes') : SameScope(scopes, scopes', b, s)
        BY <2>1, <4>3
      <4> QED
        BY <2>5, <3>3, <4>2, <4>4, <4>5, CellsKept
    <3>7. control'[Len(control')] = f
      BY <2>10
    <3> QED
      BY <2>7, <3>1, <3>2, <3>4, <3>5, <3>6, <3>7 DEF StepHeld, b
  <2> QED
    BY <1>1, <2>7, <2>10, <2>14, <2>16, <2>17, Collect
<1> QED
  BY <1>3, <1>4

LEMMA ConditionalStep ==
    ASSUME NEW out, IInv(out), OutAssumption(out), assemble_conditional
    PROVE  IInv(out)'
<1>1. CASE At({"conditional_construct"}, "else")
  <2>1. ~At({"conditional_construct"}, "body")
    BY <1>1 DEF At
  <2>2. LeaveBody(<< >>, {}, OuterScopes, Callers)
    BY <2>1 DEF assemble_conditional
  <2>3. stage = "running" /\ control # << >> /\ Scoped(top)
    BY <1>1, AtIs DEF Scoped, Constructs
  <2> QED
    BY <2>2, <2>3, LastBody
<1>2. CASE At({"conditional_construct"}, "body")
  <2>1. ~At({"conditional_construct"}, "else")
    BY <1>2 DEF At
  <2>2. CASE ~HasElse
    <3>1. LeaveBody(<< >>, {}, OuterScopes, Callers)
      BY <2>1, <2>2 DEF assemble_conditional
    <3>2. stage = "running" /\ control # << >> /\ Scoped(top)
      BY <1>2, AtIs DEF Scoped, Constructs
    <3> QED
      BY <3>1, <3>2, LastBody
  <2>3. CASE HasElse
    <3> DEFINE f == [top EXCEPT !.at = "else", !.rest = node.else_body, !.jumps = Append(@, Here)]
    <3>1. LeaveBody(<<Instruction("jmp", NoIndex, NoIndex)>>, {}, Append(OuterScopes, Scope(TRUE, NoNames)),
                    Append(Callers, f))
      BY <2>1, <2>3 DEF assemble_conditional
    <3>2. /\ stage = "running" /\ control # << >> /\ node.type = "conditional_construct" /\ top.at = "body"
          /\ top.node = node /\ Scoped(top)
      BY <1>2, AtIs DEF Scoped, Constructs
    <3>3. top \in HandlerType /\ node \in Node /\ top.jumps \in Seq(Nat) /\ Here \in Nat
      BY <3>2, Running, JumpIs
    <3>4. node.else_body \in Seq(Node) /\ Append(top.jumps, Here) \in Seq(Nat)
      BY <3>2, <3>3, ConstructFacts
    <3>5. /\ f \in HandlerType /\ f.node = node /\ f.at = "else" /\ f.rest = node.else_body
          /\ f.indices = top.indices /\ f.jumps = Append(top.jumps, Here)
      BY <3>2, <3>3, <3>4 DEF HandlerType, Label
    <3>6. NextBody(top, f, Here)
      BY <3>2, <3>5 DEF NextBody
    <3> HIDE DEF f
    <3> QED
      BY <1>2, <3>1, <3>5, <3>6, ElseStep
  <2> QED
    BY <2>2, <2>3
<1> QED
  BY <1>1, <1>2 DEF assemble_conditional
-------------------------------------------------------------------------------
(***************************************************************************)
(* A frame ends.                                                           *)
(***************************************************************************)
LEMMA NoControl ==
    ASSUME NEW out, NEW cur, NEW mk, NEW here
    PROVE  /\ ControlOK(out, cur, mk, here, << >>) /\ ScopedIn(<< >>) = {} /\ Cardinality({}) = 0
           /\ OpenJumps(<< >>) = {} /\ Finished(cur, << >>)
<1>1. << >> \in Seq(HandlerType) /\ Len(<< >>) = 0
  OBVIOUS
<1>2. ScopedIn(<< >>) = {}
  BY <1>1 DEF ScopedIn
<1> QED
  BY <1>1, <1>2, FS_EmptySet DEF ControlOK, OpenJumps, Finished

\* The handler of the program or of a function, when its body has been assembled.
LEMMA AtEnd ==
    ASSUME NEW out, IInv(out), finish_frame
    PROVE  /\ stage = "running" /\ control # << >> /\ node = ProgramNode /\ Len(control) = 1
           /\ control[1].rest = << >> /\ OpenJumps(control) = {} /\ Len(scopes) = BaseOf(Len(frames))
           /\ control' = << >> /\ index' = index /\ immediates' = immediates /\ wrapped' = wrapped
           /\ marked' = marked /\ pending' = pending /\ stage' = stage /\ ast' = ast /\ ec' = ec
<1>1. /\ stage = "running" /\ control # << >> /\ node.type = "program" /\ top.node = node
      /\ top.rest = << >>
      /\ control' = << >> /\ index' = index /\ immediates' = immediates /\ wrapped' = wrapped
      /\ marked' = marked /\ pending' = pending /\ stage' = stage /\ ast' = ast /\ ec' = ec
  BY AtIs DEF finish_frame, Stays, called
<1>2. control \in Seq(HandlerType) /\ top \in HandlerType /\ Len(control) \in Nat \ {0}
  BY <1>1, Running
<1>3. node = ProgramNode
  BY <1>1, <1>2, NodeFacts DEF HandlerType
<1>4. Len(control) = 1
  BY <1>1, <1>3, Running
<1>5. ~Scoped(top)
  BY <1>1 DEF Scoped, Constructs
<1>6. ScopedIn(control) = {}
  <2>1. \A c \in 1 .. 1 : control[c] = top
    BY <1>4 DEF top
  <2> QED
    BY <1>4, <1>5, <2>1 DEF ScopedIn
<1>7. OpenJumps(control) = {}
  BY <1>6 DEF OpenJumps
<1>8. Len(scopes) = BaseOf(Len(frames))
  <2>1. ScopesOK(Len(frames), scopes, control)
    BY <1>1 DEF IInv, ScopesInv
  <2>2. Len(scopes) = BaseOf(Len(frames)) + Cardinality(ScopedIn(control))
    BY <1>1, <2>1 DEF ScopesOK
  <2> QED
    BY <1>6, <2>2, FS_EmptySet DEF BaseOf
<1>9. control[1].rest = << >>
  BY <1>1, <1>4 DEF top
<1> QED
  BY <1>1, <1>3, <1>4, <1>7, <1>8, <1>9

LEMMA FinishStep ==
    ASSUME NEW out, IInv(out), finish_frame
    PROVE  IInv(out)'
<1>1. /\ stage = "running" /\ control # << >> /\ node = ProgramNode /\ Len(control) = 1
      /\ control[1].rest = << >> /\ OpenJumps(control) = {} /\ Len(scopes) = BaseOf(Len(frames))
      /\ control' = << >> /\ index' = index /\ immediates' = immediates /\ wrapped' = wrapped
      /\ marked' = marked /\ pending' = pending /\ stage' = stage /\ ast' = ast /\ ec' = ec
  BY AtEnd
<1>2. /\ frames \in Seq(FrameType) /\ frames # << >> /\ Len(frames) \in Nat \ {0}
      /\ scopes \in Seq(ScopeType) /\ scopes # << >> /\ Len(scopes) \in Nat \ {0}
      /\ immediates \in Seq(Value) /\ Len(immediates) \in Nat /\ Len(immediates) =< Byte
      /\ marked \in Seq(FunctionName) /\ Len(marked) \in Nat
      /\ index \in ResultIndex /\ wrapped \in BOOLEAN
  BY <1>1, Running
<1>3. StepMarks
  BY <1>1, SameMarks
<1>4. ControlOK(out, Len(frames), marked', Here', control')
  BY <1>1, NoControl
<1>5. ~wrapped => CodeOK(out, frames, Len(immediates), Len(marked)) /\ FramesOK(frames, control)
  BY <1>1 DEF IInv, CodeInv
<1>6. CASE Len(frames) = 1
  <2>1. emit("hlt", NoIndex, NoIndex) /\ scopes' = scopes
    BY <1>6 DEF finish_frame, Current
  <2> DEFINE added == <<Instruction("hlt", NoIndex, NoIndex)>>
  <2>2. added \in Seq(InstructionType) /\ frames' \in Seq(FrameType) /\ Len(frames') = Len(frames)
        /\ Grown(frames, frames', added, Size)
    BY <1>1, <2>1, EmitIs, FixedIndices DEF CodeOp
  <2>3. Len(added) = 1 /\ added[1].op = "hlt" /\ added # << >>
    BY DEF Instruction
  <2>4. \A k \in 1 .. Len(added) : added[k] = Instruction("hlt", NoIndex, NoIndex) /\ added[k].op = "hlt"
    BY DEF Instruction
  <2> HIDE DEF added
  <2>5. StepTypes
    BY <1>1, <1>2, <2>1, <2>2 DEF StepTypes
  <2>6. ScopesOK(Len(frames), scopes', control')
    BY <1>1, <1>6, <2>1 DEF ScopesOK, BaseOf
  <2>7. ASSUME ~wrapped' PROVE ~wrapped /\ StepCode(out) /\ StepHeld
    <3>1. ~wrapped /\ CodeOK(out, frames, Len(immediates), Len(marked)) /\ FramesOK(frames, control)
      BY <1>1, <1>5, <2>7
    <3>2. \A k \in 1 .. Len(added) :
             InstructionOK(out, Len(frames), added[k], Size, Len(immediates'), Len(marked'))
      BY <1>6, <2>4 DEF InstructionOK, TwoOp, SelfOp
    <3>3. /\ Size \in Int /\ Size =< Size /\ Len(immediates') \in Int /\ Len(immediates) =< Len(immediates')
          /\ Len(marked') \in Int /\ Len(marked) =< Len(marked')
      BY <1>1, <1>2, Running
    <3>4. CodeOK(out, frames', Len(immediates'), Len(marked')) /\ frames[1].size =< frames'[1].size
      BY <1>1, <2>2, <3>1, <3>2, <3>3, CodeGrows
    <3>5. ~Finished(Len(frames), control) /\ Finished(Len(frames), control')
      BY <1>1, <1>6 DEF Finished
    <3>6. (\A k \in 1 .. Len(added) : added[k].op \notin JumpOp) /\ added[Len(added)].op = "hlt"
      BY <2>3, <2>4 DEF JumpOp
    <3>7. FramesOK(frames', control')
      BY <1>1, <1>2, <1>6, <2>2, <2>3, <3>1, <3>5, <3>6, FramesFinished
    <3> QED
      BY <1>1, <3>1, <3>4, <3>7 DEF StepCode, StepHeld
  <2> QED
    BY <1>1, <1>3, <1>4, <2>5, <2>6, <2>7, Collect
<1>7. CASE Len(frames) # 1
  <2>1. scopes' = SubSeq(scopes, 1, Len(scopes) - 1) /\ frames' = frames
    BY <1>7 DEF finish_frame, Current, pop_scope
  <2>2. scopes' \in Seq(ScopeType) /\ Len(scopes') = Len(scopes) - 1
    BY <1>2, <2>1, FrontIs DEF Popped
  <2>3. Len(scopes') = 1
    BY <1>1, <1>7, <2>2 DEF BaseOf
  <2>4. StepTypes
    BY <1>1, <1>2, <2>1, <2>2 DEF StepTypes
  <2>5. ScopesOK(Len(frames), scopes', control')
    BY <1>1, <2>3 DEF ScopesOK
  <2>6. ASSUME ~wrapped' PROVE ~wrapped /\ StepCode(out) /\ StepHeld
    <3>1. ~wrapped /\ CodeOK(out, frames, Len(immediates), Len(marked)) /\ FramesOK(frames, control)
      BY <1>1, <1>5, <2>6
    <3>2. Finished(Len(frames), control) /\ Finished(Len(frames), control')
      BY <1>1, <1>7 DEF Finished
    <3>3. FramesOK(frames', control')
      BY <2>1, <3>1, <3>2 DEF FramesOK
    <3>4. frames[1].size =< frames'[1].size
      <4>1. frames[1] \in FrameType
        BY <1>2
      <4>2. frames[1].size \in Int
        BY <4>1 DEF FrameType
      <4> QED
        BY <2>1, <4>2
    <3> QED
      BY <1>1, <2>1, <3>1, <3>3, <3>4 DEF StepCode, StepHeld
  <2> QED
    BY <1>1, <1>3, <1>4, <2>4, <2>5, <2>6, Collect
<1> QED
  BY <1>6, <1>7

\* Nothing is left to be assembled.
LEMMA DoneStep ==
    ASSUME NEW out, IInv(out), finish_assembly
    PROVE  IInv(out)'
<1>1. /\ stage = "running" /\ control = << >> /\ pending = 0 /\ stage' = "done"
      /\ control' = control /\ index' = index /\ ast' = ast /\ marked' = marked /\ pending' = pending /\ ec' = ec
      /\ frames' = frames /\ immediates' = immediates /\ scopes' = scopes /\ wrapped' = wrapped
  BY DEF finish_assembly, Silent, called, context
<1>2. TypesOK'
  BY <1>1 DEF IInv, TypesOK
<1>3. StageOK'
  BY <1>1 DEF IInv, StageOK
<1>4. ControlInv(out)'
  <2>1. Here' = Here
    BY <1>1 DEF Here, Code, Current
  <2> QED
    BY <1>1, <2>1 DEF IInv, ControlInv
<1>5. CodeInv(out)'
  BY <1>1 DEF IInv, CodeInv
<1> QED
  BY <1>1, <1>2, <1>3, <1>4, <1>5 DEF IInv, ScopesInv, IndexInv, CellsInv

LEMMA Stutters ==
    ASSUME NEW out, IInv(out), UNCHANGED vars
    PROVE  IInv(out)'
<1>1. /\ stage' = stage
      /\ control' = control /\ index' = index /\ ast' = ast /\ marked' = marked /\ pending' = pending /\ ec' = ec
      /\ frames' = frames /\ immediates' = immediates /\ scopes' = scopes /\ wrapped' = wrapped
  BY DEF vars, called, context
<1>2. TypesOK' /\ StageOK'
  BY <1>1 DEF IInv, TypesOK, StageOK
<1>3. ControlInv(out)'
  <2>1. Here' = Here
    BY <1>1 DEF Here, Code, Current
  <2> QED
    BY <1>1, <2>1 DEF IInv, ControlInv
<1>4. CodeInv(out)' /\ ScopesInv'
  BY <1>1 DEF IInv, CodeInv, ScopesInv
<1>5. IndexInv' /\ CellsInv'
  <2>1. top' = top
    BY <1>1 DEF top
  <2> QED
    BY <1>1, <2>1 DEF IInv, IndexInv, CellsInv
<1> QED
  BY <1>2, <1>3, <1>4, <1>5 DEF IInv

-------------------------------------------------------------------------------
(***************************************************************************)
(* A frame begins.                                                         *)
(***************************************************************************)
LEMMA TopLevelIs ==
    ASSUME NEW body \in Seq(Node), NEW out, NEW cur, NEW mk, NEW here,
           cur = 1 => body \in Seq(out), cur # 1 => body # << >> /\ EndsInReturn(body)
    PROVE  /\ <<TopLevel(body)>> \in Seq(HandlerType) /\ Len(<<TopLevel(body)>>) = 1
           /\ <<TopLevel(body)>>[1] = TopLevel(body) /\ TopLevel(body).at = "body"
           /\ TopLevel(body).indices = << >>
           /\ ControlOK(out, cur, mk, here, <<TopLevel(body)>>)
           /\ ScopedIn(<<TopLevel(body)>>) = {} /\ ~Finished(cur, <<TopLevel(body)>>)
<1> DEFINE f  == TopLevel(body)
           ct == <<f>>
<1>1. f = [node |-> ProgramNode, at |-> "body", rest |-> body, indices |-> << >>, jumps |-> << >>]
  <2> DEFINE h == Handler(ProgramNode)
  <2>1. f = [[h EXCEPT !.at = "body"] EXCEPT !.rest = body]
    BY DEF TopLevel, ProgramNode
  <2>2. h = [node |-> ProgramNode, at |-> "start", rest |-> << >>, indices |-> << >>, jumps |-> << >>]
    BY DEF Handler
  <2> HIDE DEF h, f
  <2>3. [h EXCEPT !.at = "body"] = [node |-> ProgramNode, at |-> "body", rest |-> << >>, indices |-> << >>, jumps |-> << >>]
    BY <2>2
  <2> QED
    BY <2>1, <2>3
<1>2. /\ f.node = ProgramNode /\ f.at = "body" /\ f.rest = body /\ f.indices = << >> /\ f.jumps = << >>
      /\ f.node.type = "program"
  BY <1>1, IsProgram
<1>3. f \in HandlerType
  <2>1. << >> \in Seq(HeldIndex) /\ << >> \in Seq(Nat) /\ ProgramNode \in Node \cup {ProgramNode} /\ "body" \in Label
    BY DEF Label
  <2> QED
    BY <1>1, <2>1 DEF HandlerType
<1> HIDE DEF f
<1>4. ct \in Seq(HandlerType) /\ Len(ct) = 1 /\ ct[1] = f /\ ct # << >>
  BY <1>3
<1>5. HandlerOK(out, cur, mk, here, f)
  <2>1. JumpCount(f) = 0 /\ "body" \in Labels("program")
    BY <1>2 DEF JumpCount, Constructs, Labels
  <2>2. Len(f.jumps) = 0
    BY <1>2
  <2>3. cur = 1 => Outside(out, f)
    BY <1>2 DEF Outside
  <2> QED
    BY <1>2, <2>1, <2>2, <2>3 DEF HandlerOK
<1>6. ~Scoped(f)
  BY <1>2 DEF Scoped, Constructs
<1> HIDE DEF ct
<1>7. ControlOK(out, cur, mk, here, ct)
  <2>1. \A i \in 1 .. Len(ct) : ct[i] = f /\ i = 1
    BY <1>4
  <2>2. 1 .. Len(ct) - 1 = {}
    BY <1>4
  <2> QED
    BY <1>2, <1>4, <1>5, <2>1, <2>2 DEF ControlOK
<1>8. ScopedIn(ct) = {}
  BY <1>4, <1>6 DEF ScopedIn
<1>9. ~Finished(cur, ct)
  <2>1. ct # << >> /\ ct[1].rest = body
    BY <1>2, <1>4
  <2> QED
    BY <2>1 DEF Finished
<1> QED
  BY <1>2, <1>4, <1>7, <1>8, <1>9 DEF ct, f

\* The table of a frame that begins: its variables come after A.
TableOf(names) == [n \in { names[k] : k \in DOMAIN names } |->
                      Index("stack", (CHOOSE k \in DOMAIN names : names[k] = n) % Byte)]
LEMMA TableIs ==
    ASSUME NEW names \in Seq(Name)
    PROVE  /\ TableOf(names) \in TableType /\ Scope(FALSE, TableOf(names)) \in ScopeType
           /\ ~Scope(FALSE, TableOf(names)).inherits /\ Scope(FALSE, TableOf(names)).free = << >>
           /\ Scope(FALSE, TableOf(names)).table = TableOf(names)
           /\ DOMAIN TableOf(names) = { names[k] : k \in DOMAIN names }
           /\ \A n \in DOMAIN TableOf(names) :
                TableOf(names)[n].value = (CHOOSE k \in DOMAIN names : names[k] = n) % Byte
<1> DEFINE D == { names[k] : k \in DOMAIN names }
           t == TableOf(names)
<1>1. D \in SUBSET Name /\ DOMAIN t = D
  BY DEF TableOf
<1>2. ASSUME NEW n \in D
      PROVE  t[n] \in NameIndex /\ t[n].value = (CHOOSE k \in DOMAIN names : names[k] = n) % Byte
  <2> DEFINE k == CHOOSE k \in DOMAIN names : names[k] = n
  <2>1. \E j \in DOMAIN names : names[j] = n
    OBVIOUS
  <2>2. k \in DOMAIN names
    BY <2>1
  <2>3. k \in Nat
    BY <2>2
  <2>4. t[n] = Index("stack", k % Byte)
    BY DEF TableOf
  <2> HIDE DEF k
  <2>5. k % Byte \in 0 .. Byte - 1
    BY <2>3 DEF Byte
  <2>6. t[n] = [type |-> "stack", value |-> k % Byte] /\ t[n].type = "stack" /\ t[n].value = k % Byte
    BY <2>4 DEF Index
  <2>7. t[n] \in MemoryIndex
    <3>1. "stack" \in IndexType
      BY DEF IndexType
    <3>2. \A v \in 0 .. Byte - 1 : v \in Int
      BY DEF Byte
    <3>3. k % Byte \in Int
      BY <2>5, <3>2
    <3> QED
      BY <2>6, <3>1, <3>3 DEF MemoryIndex
  <2>8. t[n] \in NameIndex
    BY <2>5, <2>6, <2>7 DEF NameIndex, IndicesOf, AnyIndex, InRange
  <2> QED
    BY <2>6, <2>8 DEF k
<1>3. t = [n \in D |-> t[n]]
  BY DEF TableOf
<1> HIDE DEF t, D
<1>4. t \in [D -> NameIndex]
  BY <1>2, <1>3
<1>5. t \in TableType
  BY <1>1, <1>4 DEF TableType
<1>6. /\ Scope(FALSE, t) \in ScopeType /\ ~Scope(FALSE, t).inherits /\ Scope(FALSE, t).free = << >>
      /\ Scope(FALSE, t).table = t
  <2>1. << >> \in Seq(FreeIndex)
    OBVIOUS
  <2> QED
    BY <1>5, <2>1 DEF Scope, ScopeType
<1>7. /\ t \in TableType /\ DOMAIN t = D
      /\ \A n \in D : t[n].value = (CHOOSE k \in DOMAIN names : names[k] = n) % Byte
  BY <1>1, <1>2, <1>5
<1> QED
  BY <1>6, <1>7 DEF t, D

\* The frame that begins, which has no code yet.
NewFrameOf(names) == [size |-> (1 + Len(names)) % Byte, code |-> << >>]
LEMMA NewFrameIs ==
    ASSUME NEW names \in Seq(Name)
    PROVE  /\ NewFrameOf(names) \in FrameType /\ NewFrameOf(names).code = << >>
           /\ Len(names) < Byte - 1 => NewFrameOf(names).size = 1 + Len(names) /\ NewFrameOf(names).size >= 1
<1>1. Len(names) \in Nat /\ << >> \in Seq(InstructionType)
  OBVIOUS
<1> DEFINE n == Len(names)
<1> HIDE DEF n
<1>2. n \in Nat
  BY <1>1 DEF n
<1>3. (1 + n) % Byte \in 0 .. Byte - 1 /\ (n < Byte - 1 => (1 + n) % Byte = 1 + n /\ 1 + n >= 1)
  BY <1>2 DEF Byte
<1>4. NewFrameOf(names) = [size |-> (1 + n) % Byte, code |-> << >>]
  BY DEF NewFrameOf, n
<1> QED
  BY <1>1, <1>3, <1>4 DEF FrameType, n

\* What a new frame and a new scope make of the state.
Beginning(names, body) ==
    /\ frames' = Append(frames, NewFrameOf(names))
    /\ scopes' = Append(scopes, Scope(FALSE, TableOf(names)))
    /\ control' = <<TopLevel(body)>>
    /\ wrapped' = (wrapped \/ Len(names) >= Byte - 1)
    /\ stage' = "running" /\ ast' = ast /\ ec' = "ok"
    /\ immediates' = immediates /\ index' = index /\ marked' = marked

\* All frames but the last one are complete before one begins, and after.
LEMMA FramesBegin ==
    ASSUME NEW fr \in Seq(FrameType), fr # << >> => FramesOK(fr, << >>),
           NEW g \in FrameType, g.code = << >>, NEW gr, gr = Append(fr, g),
           NEW ct, ~Finished(Len(gr), ct), ScopedIn(ct) = {}
    PROVE  FramesOK(gr, ct)
<1>1. /\ Len(fr) \in Nat /\ Len(gr) = Len(fr) + 1 /\ gr[Len(fr) + 1] = g
      /\ \A f \in 1 .. Len(fr) : gr[f] = fr[f]
  BY AppendIs DEF Extended
<1>2. ASSUME NEW f \in 1 .. Len(fr) PROVE CompleteCode(f, fr[f].code)
  <2>1. FramesOK(fr, << >>) /\ Finished(Len(fr), << >>)
    BY <1>2 DEF Finished
  <2>2. f \in 1 .. Len(fr) - 1 \/ f = Len(fr)
    BY <1>1
  <2> QED
    BY <2>1, <2>2 DEF FramesOK
<1>3. \A f \in 1 .. Len(gr) - 1 : CompleteCode(f, gr[f].code)
  BY <1>1, <1>2
<1>4. OpenCode(OpenJumps(ct), gr[Len(gr)].code)
  <2>1. gr[Len(gr)].code = << >> /\ OpenJumps(ct) = {}
    BY <1>1 DEF OpenJumps
  <2> QED
    BY <2>1 DEF OpenCode
<1> QED
  BY <1>3, <1>4 DEF FramesOK

LEMMA CodeBegins ==
    ASSUME NEW out, NEW fr \in Seq(FrameType), NEW n, NEW m, CodeOK(out, fr, n, m),
           NEW g \in FrameType, g.code = << >>, g.size >= 1, NEW gr, gr = Append(fr, g)
    PROVE  CodeOK(out, gr, n, m)
<1>1. /\ Len(fr) \in Nat /\ Len(gr) = Len(fr) + 1 /\ gr[Len(fr) + 1] = g
      /\ \A f \in 1 .. Len(fr) : gr[f] = fr[f]
  BY AppendIs DEF Extended
<1>2. \A f \in 1 .. Len(gr) : f \in 1 .. Len(fr) \/ f = Len(fr) + 1
  BY <1>1
<1>3. FrameOK(out, Len(fr) + 1, g, n, m)
  BY DEF FrameOK
<1> QED
  BY <1>1, <1>2, <1>3 DEF CodeOK

LEMMA Begins ==
    ASSUME NEW out, IInv(out), stage \in {"starting", "running"}, control = << >>,
           NEW names \in Seq(Name), ~Repeated(names), NEW body \in Seq(Node), Beginning(names, body),
           Len(scopes) = (IF frames = << >> THEN 0 ELSE 1),
           frames = << >> => body \in Seq(out) /\ Len(names) = Len(ast.inputs) + Len(ast.outputs),
           frames # << >> => stage = "running" /\ body # << >> /\ EndsInReturn(body),
           pending' \in 0 .. Len(marked), Len(frames) + pending' = Len(marked)
    PROVE  IInv(out)'
<1> DEFINE g == NewFrameOf(names)
           s == Scope(FALSE, TableOf(names))
           c == TopLevel(body)
           n == Len(frames)
<1>1. /\ frames' = Append(frames, g) /\ scopes' = Append(scopes, s) /\ control' = <<c>>
      /\ wrapped' = (wrapped \/ Len(names) >= Byte - 1) /\ stage' = "running" /\ ast' = ast /\ ec' = "ok"
      /\ immediates' = immediates /\ index' = index /\ marked' = marked
  BY DEF Beginning
<1>2. /\ g \in FrameType /\ g.code = << >>
      /\ Len(names) < Byte - 1 => g.size = 1 + Len(names) /\ g.size >= 1
  BY NewFrameIs
<1>3. /\ s \in ScopeType /\ ~s.inherits /\ s.free = << >> /\ DOMAIN s.table = { names[k] : k \in DOMAIN names }
      /\ \A x \in DOMAIN s.table : s.table[x].value = (CHOOSE k \in DOMAIN names : names[k] = x) % Byte
  <2> DEFINE t == TableOf(names)
  <2>1. /\ s \in ScopeType /\ ~s.inherits /\ s.free = << >> /\ s.table = t /\ DOMAIN t = { names[k] : k \in DOMAIN names }
        /\ \A x \in DOMAIN t : t[x].value = (CHOOSE k \in DOMAIN names : names[k] = x) % Byte
    BY TableIs
  <2> HIDE DEF s, t
  <2> QED
    BY <2>1
<1>4. /\ frames \in Seq(FrameType) /\ scopes \in Seq(ScopeType) /\ n \in Nat /\ Len(scopes) \in Nat
      /\ marked \in Seq(FunctionName) /\ Len(marked) \in Nat /\ wrapped \in BOOLEAN
      /\ (frames = << >> <=> n = 0)
  <2>1. /\ frames \in Seq(FrameType) /\ scopes \in Seq(ScopeType)
        /\ marked \in Seq(FunctionName) /\ wrapped \in BOOLEAN
    BY DEF IInv, TypesOK
  <2>2. n \in Nat /\ (frames = << >> <=> n = 0)
    BY <2>1
  <2> QED
    BY <2>1, <2>2
<1>5. \A k, l, m \in Int : k + l = m => (k + 1) + l = 1 + m
  OBVIOUS
<1> HIDE DEF g, s, n
<1>6. /\ frames' \in Seq(FrameType) /\ frames' # << >> /\ Len(frames') = n + 1 /\ frames'[n + 1] = g
      /\ \A f \in 1 .. n : frames'[f] = frames[f]
  BY <1>1, <1>2, <1>4, AppendIs DEF Extended, n
<1>7. /\ scopes' \in Seq(ScopeType) /\ Len(scopes') = Len(scopes) + 1 /\ scopes'[Len(scopes) + 1] = s
  <2>1. /\ Append(scopes, s) \in Seq(ScopeType) /\ Extended(scopes, Append(scopes, s), s)
    BY <1>3, <1>4, AppendIs
  <2> QED
    BY <1>1, <2>1 DEF Extended
<1>8. /\ Len(scopes') = BaseOf(n + 1) /\ scopes'[BaseOf(n + 1)] = s /\ BaseOf(n + 1) \in Nat
  <2>1. CASE n = 0
    BY <1>4, <1>7, <2>1 DEF BaseOf
  <2>2. CASE n # 0
    BY <1>4, <1>7, <2>2 DEF BaseOf
  <2> QED
    BY <2>1, <2>2
<1>9. /\ n + 1 = 1 => body \in Seq(out)
      /\ n + 1 # 1 => body # << >> /\ EndsInReturn(body) /\ stage = "running"
  <2>1. n + 1 = 1 => frames = << >>
    BY <1>4
  <2>2. n + 1 # 1 => frames # << >>
    BY <1>4
  <2> QED
    BY <2>1, <2>2
<1>10. /\ control' \in Seq(HandlerType) /\ Len(control') = 1 /\ control'[1] = c /\ c.at = "body"
       /\ c.indices = << >> /\ control' # << >>
       /\ ControlOK(out, n + 1, marked', Here', control')
       /\ ScopedIn(control') = {} /\ ~Finished(n + 1, control')
  <2>1. /\ <<c>> \in Seq(HandlerType) /\ Len(<<c>>) = 1 /\ <<c>>[1] = c /\ c.at = "body"
        /\ c.indices = << >> /\ ControlOK(out, n + 1, marked', Here', <<c>>)
        /\ ScopedIn(<<c>>) = {} /\ ~Finished(n + 1, <<c>>)
    BY <1>9, TopLevelIs
  <2>2. << c >> # << >>
    OBVIOUS
  <2> QED
    BY <1>1, <2>1, <2>2
<1> HIDE DEF c
<1>11. TypesOK'
  BY <1>1, <1>6, <1>7 DEF IInv, TypesOK, AssemblerErrorCode
<1>12. StageOK'
  <2>1. Len(frames') + pending' = 1 + Len(marked')
    <3>1. n + pending' = Len(marked) /\ n \in Int /\ pending' \in Int /\ Len(marked) \in Int
      BY <1>4 DEF n
    <3>2. (n + 1) + pending' = 1 + Len(marked)
      BY <1>5, <3>1
    <3> QED
      BY <1>1, <1>6, <3>2
  <2> QED
    BY <1>1, <1>6, <2>1 DEF StageOK
<1>13. ControlInv(out)'
  BY <1>6, <1>10 DEF ControlInv
<1>14. ScopesInv'
  <2>1. Len(scopes') = BaseOf(n + 1) + Cardinality(ScopedIn(control'))
    BY <1>8, <1>10, FS_EmptySet
  <2>2. BaseOf(n + 1) + 1 .. Len(scopes') = {}
    BY <1>8
  <2>3. ScopesOK(n + 1, scopes', control')
    BY <1>3, <1>8, <1>10, <2>1, <2>2 DEF ScopesOK
  <2> QED
    BY <1>6, <2>3 DEF ScopesInv
<1>15. ASSUME ~wrapped' PROVE ~wrapped /\ g.size = 1 + Len(names) /\ g.size >= 1 /\ Len(names) < Byte - 1
  <2>1. ~wrapped /\ ~(Len(names) >= Byte - 1)
    BY <1>1, <1>15
  <2>2. Len(names) < Byte - 1
    <3>1. Len(names) \in Nat /\ Byte - 1 \in Nat
      BY DEF Byte
    <3> QED
      BY <2>1, <3>1
  <2> QED
    BY <1>2, <2>1, <2>2
<1>16. CodeInv(out)'
  <2> SUFFICES ASSUME ~wrapped'
               PROVE  /\ CodeOK(out, frames', Len(immediates'), Len(marked'))
                      /\ FramesOK(frames', control')
                      /\ 1 + Len(ast'.inputs) + Len(ast'.outputs) =< frames'[1].size
    BY DEF CodeInv
  <2>1. ~wrapped /\ g.size = 1 + Len(names) /\ g.size >= 1
    BY <1>15
  <2>2. CodeOK(out, frames, Len(immediates), Len(marked)) /\ (frames # << >> => FramesOK(frames, << >>))
    <3>1. CASE frames = << >>
      <4>1. Len(frames) = 0
        BY <3>1
      <4> QED
        BY <3>1, <4>1 DEF CodeOK
    <3>2. CASE frames # << >>
      BY <2>1, <3>2 DEF IInv, CodeInv
    <3> QED
      BY <3>1, <3>2
  <2>3. CodeOK(out, frames', Len(immediates'), Len(marked'))
    <3>1. CodeOK(out, frames', Len(immediates), Len(marked))
      BY <1>1, <1>2, <1>4, <2>1, <2>2, CodeBegins
    <3> QED
      BY <1>1, <3>1
  <2>4. FramesOK(frames', control')
    BY <1>1, <1>2, <1>4, <1>6, <1>10, <2>2, FramesBegin
  <2>5. 1 + Len(ast.inputs) + Len(ast.outputs) =< frames'[1].size
    <3>1. CASE frames = << >>
      <4>1. n = 0 /\ Len(names) = Len(ast.inputs) + Len(ast.outputs)
        BY <1>4, <3>1
      <4>2. frames'[1] = g
        BY <1>6, <4>1
      <4>3. ast.inputs \in Seq(Name) /\ ast.outputs \in Seq(Name)
        BY ProgramAssumption DEF IInv, TypesOK, WellFormed
      <4>4. \A i, j, k \in Int : k = i + j => 1 + i + j =< 1 + k
        OBVIOUS
      <4>5. Len(ast.inputs) \in Int /\ Len(ast.outputs) \in Int /\ Len(names) \in Int
        BY <4>3
      <4>6. 1 + Len(ast.inputs) + Len(ast.outputs) =< 1 + Len(names)
        BY <4>1, <4>4, <4>5
      <4> QED
        BY <2>1, <4>2, <4>6
    <3>2. CASE frames # << >>
      <4>1. 1 + Len(ast.inputs) + Len(ast.outputs) =< frames[1].size
        BY <2>1, <3>2 DEF IInv, CodeInv
      <4>2. frames'[1] = frames[1]
        <5>1. 1 \in 1 .. n
          BY <1>4, <3>2
        <5> QED
          BY <1>6, <5>1
      <4> QED
        BY <4>1, <4>2
    <3> QED
      BY <3>1, <3>2
  <2> QED
    BY <1>1, <2>3, <2>4, <2>5
<1>17. top' = c
  <2>1. top' = control'[Len(control')]
    BY DEF top
  <2> QED
    BY <1>10, <2>1
<1>18. IndexInv'
  <2>1. \A k \in 1 .. Len(control') : control'[k].indices = << >>
    BY <1>10
  <2>2. \A size, m : HeldOK(control', size, m)
    <3>1. 1 .. Len(<< >>) = {}
      OBVIOUS
    <3> QED
      BY <2>1, <3>1 DEF HeldOK
  <2>3. \A i, size, m : IndexOK(c, i, size, m)
    BY <1>10 DEF IndexOK, NeedsIndex, OperandLabel, IsTarget
  <2> QED
    BY <1>17, <2>2, <2>3 DEF IndexInv
<1>19. CellsInv'
  <2> SUFFICES ASSUME ~wrapped'
               PROVE  CellsApart(scopes', BaseOf(n + 1), control', frames'[n + 1].size)
    BY <1>6 DEF CellsInv
  <2>1. Len(names) < Byte - 1 /\ g.size = 1 + Len(names)
    BY <1>15
  <2>2. \A a, k : ~Held(control', a, k)
    <3>1. \A a \in 1 .. Len(control') : control'[a].indices = << >>
      BY <1>10
    <3>2. 1 .. Len(<< >>) = {}
      OBVIOUS
    <3> QED
      BY <3>1, <3>2 DEF Held
  <2>3. CellsApart(scopes', BaseOf(n + 1), control', 1 + Len(names))
    BY <1>3, <1>8, <2>1, <2>2, CellsFresh
  <2> QED
    BY <1>6, <2>1, <2>3
<1> QED
  BY <1>11, <1>12, <1>13, <1>14, <1>16, <1>18, <1>19 DEF IInv

\* What Begin does if no name is repeated.
LEMMA BeginIs ==
    ASSUME NEW out, IInv(out), stage \in {"starting", "running"}, NEW names, NEW body, ~Repeated(names),
           Begin(names, body, scopes), UNCHANGED <<ast, marked>>
    PROVE  Beginning(names, body)
<1>1. ec = "ok"
  BY DEF IInv, TypesOK
<1>2. /\ stage' = "running"
      /\ frames' = Append(frames, NewFrameOf(names))
      /\ scopes' = Append(scopes, Scope(FALSE, TableOf(names)))
      /\ wrapped' = (wrapped \/ Len(names) >= Byte - 1)
      /\ control' = <<TopLevel(body)>>
      /\ UNCHANGED <<immediates, index, ec>>
  BY DEF Begin, NewFrameOf, TableOf
<1> QED
  BY <1>1, <1>2 DEF Beginning

LEMMA BeginFails ==
    ASSUME NEW out, IInv(out), NEW names, NEW body, NEW sc, Repeated(names), Begin(names, body, sc),
           UNCHANGED <<ast, marked>>, pending' \in 0 .. Len(marked)
    PROVE  IInv(out)'
<1>1. Fail("duplicate_name") /\ UNCHANGED <<control, index>> /\ Silent
  BY DEF Begin
<1> QED
  BY <1>1, Fails DEF AssemblerErrorCode

LEMMA DeclareStep ==
    ASSUME NEW out, IInv(out), OutAssumption(out), declare_variables
    PROVE  IInv(out)'
<1>1. /\ stage = "starting" /\ control = << >> /\ frames = << >> /\ scopes = << >> /\ marked = << >> /\ pending = 0
      /\ ast' = ast /\ marked' = marked /\ pending' = pending
  BY DEF declare_variables, IInv, StageOK, called
<1> DEFINE names == ast.inputs \o ast.outputs
<1>2. Begin(names, ast.nodes, scopes)
  BY <1>1 DEF declare_variables
<1>3. /\ ast \in Programs /\ ast.inputs \in Seq(Name) /\ ast.outputs \in Seq(Name) /\ ast.nodes \in Seq(Node)
      /\ ast.nodes \in Seq(out)
  BY ProgramAssumption DEF IInv, TypesOK, WellFormed, OutAssumption
<1>4. names \in Seq(Name) /\ Len(names) = Len(ast.inputs) + Len(ast.outputs)
  BY <1>3
<1> HIDE DEF names
<1>5. Len(marked) = 0 /\ Len(scopes) = 0 /\ Len(frames) = 0
  BY <1>1
<1>6. pending' \in 0 .. Len(marked) /\ Len(frames) + pending' = Len(marked)
  BY <1>1, <1>5
<1>7. CASE Repeated(names)
  BY <1>1, <1>2, <1>6, <1>7, BeginFails
<1>8. CASE ~Repeated(names)
  <2>1. Beginning(names, ast.nodes)
    BY <1>1, <1>2, <1>8, BeginIs
  <2> QED
    BY <1>1, <1>3, <1>4, <1>5, <1>6, <1>8, <2>1, Begins
<1> QED
  BY <1>7, <1>8

LEMMA FunctionStep ==
    ASSUME NEW out, IInv(out), assemble_function
    PROVE  IInv(out)'
<1>1. /\ stage = "running" /\ control = << >> /\ pending > 0 /\ pending' = pending - 1
      /\ ast' = ast /\ marked' = marked
  BY DEF assemble_function
<1> DEFINE function == ast.functions[next_marked_function]
<1>2. Begin(function.arguments, function.body, scopes)
  BY DEF assemble_function
<1>3. /\ frames # << >> /\ frames \in Seq(FrameType) /\ Len(frames) \in Nat /\ Len(scopes) = 1
      /\ marked \in Seq(FunctionName) /\ Len(marked) \in Nat /\ pending \in 0 .. Len(marked)
      /\ Len(frames) + pending = 1 + Len(marked)
      /\ \A k \in 1 .. Len(marked) : marked[k] \in DOMAIN ast.functions
      /\ ast \in Programs
  BY <1>1 DEF IInv, TypesOK, StageOK, ScopesInv, ScopesOK
<1>4. next_marked_function \in DOMAIN ast.functions
  <2>1. \A l, p \in Int : p \in 0 .. l /\ p > 0 => l - p + 1 \in 1 .. l
    OBVIOUS
  <2>2. Len(marked) - pending + 1 \in 1 .. Len(marked)
    BY <1>1, <1>3, <2>1
  <2> QED
    BY <1>3, <2>2 DEF next_marked_function
<1>5. /\ function.arguments \in Seq(Name) /\ function.body \in Seq(Node) /\ function.body # << >>
      /\ function.body[Len(function.body)].type = "function_return"
      /\ \A j, k \in 1 .. Len(function.arguments) : function.arguments[j] = function.arguments[k] => j = k
  <2>1. WellFormed(ast)
    BY <1>3, ProgramAssumption
  <2> QED
    BY <1>4, <2>1 DEF WellFormed, WellFormedFunction
<1> HIDE DEF function
<1>6. EndsInReturn(function.body)
  BY <1>5 DEF EndsInReturn
<1>7. pending' \in 0 .. Len(marked) /\ Len(frames) + pending' = Len(marked)
  <2>1. \A l, f, p \in Int : p \in 0 .. l /\ p > 0 /\ f + p = 1 + l => p - 1 \in 0 .. l /\ f + (p - 1) = l
    OBVIOUS
  <2> QED
    BY <1>1, <1>3, <2>1
<1>8. CASE Repeated(function.arguments)
  BY <1>1, <1>2, <1>7, <1>8, BeginFails
<1>9. CASE ~Repeated(function.arguments)
  <2>1. Beginning(function.arguments, function.body)
    BY <1>1, <1>2, <1>9, BeginIs
  <2>2. stage \in {"starting", "running"}
    BY <1>1
  <2> QED
    BY <1>1, <1>3, <1>5, <1>6, <1>7, <1>9, <2>1, <2>2, Begins
<1> QED
  BY <1>8, <1>9

-------------------------------------------------------------------------------
(***************************************************************************)
(* The invariant holds in every state.                                     *)
(***************************************************************************)
\* It holds when assemble is called.
LEMMA IInvInit ==
    ASSUME NEW out, Init
    PROVE  IInv(out)
<1>1. /\ stage = "starting" /\ ast \in Programs /\ control = << >> /\ index = NoIndex /\ frames = << >>
      /\ immediates = << >> /\ scopes = << >> /\ marked = << >> /\ pending = 0 /\ ec = "ok" /\ wrapped = FALSE
  BY DEF Init
<1>2. /\ << >> \in Seq(FrameType) /\ << >> \in Seq(Value) /\ << >> \in Seq(ScopeType) /\ << >> \in Seq(FunctionName)
      /\ Len(<< >>) = 0 /\ DOMAIN << >> = {}
  OBVIOUS
<1>3. TypesOK
  <2>1. Len(immediates) =< Byte
    BY <1>1, <1>2 DEF Byte
  <2>2. ~Repeated(marked)
    BY <1>1, <1>2 DEF Repeated
  <2>3. /\ Len(marked) = 0 /\ pending \in 0 .. 0 /\ 1 .. 0 = {} /\ index \in ResultIndex
        /\ wrapped \in BOOLEAN /\ "ok" \in AssemblerErrorCode
    <3>1. index \in ResultIndex
      BY <1>1, FixedIndices
    <3>2. "ok" \in AssemblerErrorCode
      BY DEF AssemblerErrorCode
    <3>3. wrapped \in BOOLEAN
      BY <1>1
    <3>4. Len(marked) = 0 /\ pending \in 0 .. 0 /\ 1 .. 0 = {}
      BY <1>1, <1>2
    <3> QED
      BY <3>1, <3>2, <3>3, <3>4
  <2>4. \A k \in 1 .. Len(marked) : marked[k] \in DOMAIN ast.functions
    BY <2>3
  <2> QED
    BY <1>1, <1>2, <2>1, <2>2, <2>3, <2>4 DEF TypesOK
<1>4. StageOK
  BY <1>1 DEF StageOK
<1>5. ControlInv(out)
  BY <1>1, NoControl DEF ControlInv
<1> QED
  BY <1>1, <1>3, <1>4, <1>5 DEF IInv, ScopesInv, CodeInv, IndexInv, CellsInv

\* Every step preserves it.
LEMMA IInvNext ==
    ASSUME NEW out, IInv(out), OutAssumption(out), [Next]_vars
    PROVE  IInv(out)'
<1>1. CASE declare_variables
  BY <1>1, DeclareStep
<1>2. CASE assemble_statement
  BY <1>2, StatementStep
<1>3. CASE finish_frame
  BY <1>3, FinishStep
<1>4. CASE assemble_function
  BY <1>4, FunctionStep
<1>5. CASE finish_assembly
  BY <1>5, DoneStep
<1>6. CASE give_up
  BY <1>6, GiveUpStep
<1>7. CASE assemble_rhs
  BY <1>7, RhsStep
<1>8. CASE assemble_lhs
  BY <1>8, LhsStep
<1>9. CASE assemble_assignment
  BY <1>9, AssignmentStep
<1>10. CASE assemble_arithmetic
  BY <1>10, ArithmeticStep
<1>11. CASE assemble_update
  BY <1>11, UpdateStep
<1>12. CASE assemble_relational
  BY <1>12, RelationalStep
<1>13. CASE assemble_declaration
  BY <1>13, DeclarationStep
<1>14. CASE assemble_reference
  BY <1>14, ReferenceStep
<1>15. CASE assemble_constant
  BY <1>15, ConstantStep
<1>16. CASE assemble_unary
  BY <1>16, UnaryStep
<1>17. CASE assemble_condition
  BY <1>17, ConditionStep
<1>18. CASE enter_body
  BY <1>18, EnterStep
<1>19. CASE assemble_conditional
  BY <1>19, ConditionalStep
<1>20. CASE assemble_loop
  BY <1>20, LoopStep
<1>21. CASE assemble_call
  BY <1>21, CallStep
<1>22. CASE assemble_return
  BY <1>22, ReturningStep
<1>23. CASE UNCHANGED vars
  BY <1>23, Stutters
<1> QED
  BY <1>1, <1>2, <1>3, <1>4, <1>5, <1>6, <1>7, <1>8, <1>9, <1>10, <1>11, <1>12, <1>13, <1>14, <1>15, <1>16,
     <1>17, <1>18, <1>19, <1>20, <1>21, <1>22, <1>23 DEF Next

\* Whatever holds of statements outside of functions, the invariant holds in every state.
THEOREM AssemblerInvariant ==
    ASSUME NEW out, OutAssumption(out)
    PROVE  Spec => []IInv(out)
<1>1. Init => IInv(out)
  BY IInvInit
<1>2. IInv(out) /\ [Next]_vars => IInv(out)'
  BY IInvNext
<1> QED
  BY <1>1, <1>2, PTL DEF Spec

-------------------------------------------------------------------------------
(***************************************************************************)
(* No cell has two uses.                                                   *)
(***************************************************************************)
\* f tells the elements of S apart; T is its image.
Tells(S, f, T) ==
    /\ \A x, y \in S : f[x] = f[y] => x = y
    /\ \A x \in S : f[x] \in T
    /\ \A t \in T : \E x \in S : f[x] = t
LEMMA ImageIs ==
    ASSUME NEW S, NEW n \in Nat, NEW f, NEW T, Tells(S, f, T), T \subseteq 1 .. n
    PROVE  IsFiniteSet(T) /\ Cardinality(T) = Cardinality(S)
<1> DEFINE g == [x \in S |-> f[x]]
<1>1. IsFiniteSet(T)
  <2>1. IsFiniteSet(1 .. n)
    BY FS_Interval
  <2> QED
    BY <2>1, FS_Subset
<1>2. /\ g \in [S -> T] /\ \A t \in T : \E s \in S : g[s] = t
      /\ \A x, y \in S : g[x] = g[y] => x = y
  BY DEF Tells
<1> HIDE DEF g
<1>3. g \in Injection(S, T) /\ g \in Surjection(S, T)
  BY <1>2 DEF Injection, Surjection, IsInjective
<1> QED
  BY <1>1, <1>3, FS_Injection

\* Three finite sets that have nothing in common.
LEMMA ThreeSets ==
    ASSUME NEW A, NEW B, NEW C, IsFiniteSet(A), IsFiniteSet(B), IsFiniteSet(C),
           A \cap B = {}, A \cap C = {}, B \cap C = {}
    PROVE  Cardinality(A \cup B \cup C) = Cardinality(A) + Cardinality(B) + Cardinality(C)
<1>1. /\ IsFiniteSet(A \cup B) /\ Cardinality(A \cup B) = Cardinality(A) + Cardinality(B) - 0
  BY FS_Union, FS_EmptySet
<1>2. (A \cup B) \cap C = {}
  OBVIOUS
<1>3. Cardinality((A \cup B) \cup C) = Cardinality(A \cup B) + Cardinality(C) - 0
  BY <1>1, <1>2, FS_Union, FS_EmptySet
<1>4. Cardinality(A) \in Nat /\ Cardinality(B) \in Nat /\ Cardinality(C) \in Nat
  BY FS_CardinalityType
<1> QED
  BY <1>1, <1>3, <1>4

\* The scopes of the current frame.
LEMMA OwnScopes ==
    ASSUME NEW out, IInv(out), stage = "running", control # << >>
    PROVE  { s \in DOMAIN scopes : Visible(s) } = BaseOf(Len(frames)) .. Len(scopes)
<1> DEFINE b == BaseOf(Len(frames))
<1>1. scopes \in Seq(ScopeType) /\ Len(scopes) \in Nat \ {0} /\ b \in 1 .. Len(scopes) /\ b \in Nat
  BY Running DEF BaseOf
<1>2. DOMAIN scopes = 1 .. Len(scopes)
  BY <1>1
<1>3. ~scopes[b].inherits /\ \A s \in b + 1 .. Len(scopes) : scopes[s].inherits
  BY DEF IInv, ScopesInv, ScopesOK
<1> HIDE DEF b
<1>4. ASSUME NEW s \in 1 .. Len(scopes), s >= b PROVE Visible(s)
  <2>1. \A t \in s + 1 .. Len(scopes) : t \in b + 1 .. Len(scopes)
    BY <1>1, <1>4
  <2> QED
    BY <1>3, <2>1 DEF Visible
<1>5. ASSUME NEW s \in 1 .. Len(scopes), s < b PROVE ~Visible(s)
  <2>1. b \in s + 1 .. Len(scopes)
    BY <1>1, <1>5
  <2> QED
    BY <1>3, <2>1 DEF Visible
<1>6. \A s : s \in b .. Len(scopes) <=> s \in 1 .. Len(scopes) /\ s >= b
  BY <1>1
<1>7. \A s \in 1 .. Len(scopes) : s >= b \/ s < b
  BY <1>1
<1> QED
  BY <1>2, <1>4, <1>5, <1>6, <1>7 DEF b

\* The cells T of some uses, told apart by the elements of S.
CellsTold(sc, b, ct, S, use, T) ==
    /\ \A x \in S : use[x] \in Uses(sc, b, ct)
    /\ \A x, y \in S : use[x] = use[y] => x = y
    /\ \A t : t \in T <=> \E x \in S : t = Cell(sc, ct, use[x])
LEMMA CellsOf ==
    ASSUME NEW sc, NEW b \in Nat, NEW ct, NEW size \in Nat \ {0}, CellsApart(sc, b, ct, size),
           NEW S, NEW use, NEW T, CellsTold(sc, b, ct, S, use, T)
    PROVE  T \subseteq 1 .. size - 1 /\ IsFiniteSet(T) /\ Cardinality(T) = Cardinality(S)
<1> DEFINE f == [x \in S |-> Cell(sc, ct, use[x])]
<1>1. T \subseteq 1 .. size - 1
  BY DEF CellsApart, CellsTold
<1>2. Tells(S, f, T)
  BY DEF CellsApart, CellsTold, Tells
<1> HIDE DEF f
<1>3. size - 1 \in Nat
  OBVIOUS
<1> QED
  BY <1>1, <1>2, <1>3, ImageIs

\* Those of each kind.
NamedAre(sc, b, ct, S, T) ==
    /\ \A u : u \in S <=> \E a \in b .. Len(sc), n \in Name : u = <<a, n>> /\ n \in DOMAIN sc[a].table
    /\ \A t : t \in T <=> \E u \in S : t = sc[u[1]].table[u[2]].value
LEMMA NamedCells ==
    ASSUME NEW sc, NEW b \in Nat, NEW ct, NEW size \in Nat \ {0}, CellsApart(sc, b, ct, size),
           NEW S, NEW T, NamedAre(sc, b, ct, S, T)
    PROVE  /\ T \subseteq 1 .. size - 1 /\ IsFiniteSet(T) /\ Cardinality(T) = Cardinality(S)
           /\ \A t \in T : \E u \in Uses(sc, b, ct) : u[1] = "name" /\ Cell(sc, ct, u) = t
<1> DEFINE use == [u \in S |-> <<"name", u[1], u[2]>>]
<1>1. ASSUME NEW u \in S
      PROVE  /\ <<"name", u[1], u[2]>> \in Uses(sc, b, ct) /\ u = <<u[1], u[2]>>
             /\ Cell(sc, ct, <<"name", u[1], u[2]>>) = sc[u[1]].table[u[2]].value
  <2>1. PICK a \in b .. Len(sc), n \in Name : u = <<a, n>> /\ n \in DOMAIN sc[a].table
    BY DEF NamedAre
  <2>2. u[1] = a /\ u[2] = n /\ a \in Nat /\ u = <<u[1], u[2]>>
    BY <2>1
  <2>3. <<"name", a, n>> \in Uses(sc, b, ct) /\ Cell(sc, ct, <<"name", a, n>>) = sc[a].table[n].value
    BY <2>1, <2>2 DEF Uses, IsUse, Cell, UseKind
  <2> QED
    BY <2>2, <2>3
<1>2. \A u \in S : use[u] = <<"name", u[1], u[2]>>
  OBVIOUS
<1> HIDE DEF use
<1>3. ASSUME NEW u \in S
      PROVE  use[u] \in Uses(sc, b, ct) /\ Cell(sc, ct, use[u]) = sc[u[1]].table[u[2]].value /\ use[u][1] = "name"
  <2>1. use[u] = <<"name", u[1], u[2]>>
    BY <1>2
  <2>2. use[u] \in Uses(sc, b, ct) /\ Cell(sc, ct, use[u]) = sc[u[1]].table[u[2]].value
    BY <1>1, <2>1
  <2>3. use[u][1] = "name"
    BY <2>1
  <2> QED
    BY <2>2, <2>3
<1>4. ASSUME NEW u \in S, NEW v \in S, use[u] = use[v] PROVE u = v
  <2>1. <<"name", u[1], u[2]>> = <<"name", v[1], v[2]>>
    BY <1>2, <1>4
  <2>2. u[1] = v[1] /\ u[2] = v[2]
    BY <2>1
  <2> QED
    BY <1>1, <2>2
<1>5. \A t : t \in T <=> \E u \in S : t = Cell(sc, ct, use[u])
  BY <1>3 DEF NamedAre
<1>6. \A t \in T : \E u \in Uses(sc, b, ct) : u[1] = "name" /\ Cell(sc, ct, u) = t
  BY <1>3, <1>5
<1>7. CellsTold(sc, b, ct, S, use, T)
  BY <1>3, <1>4, <1>5 DEF CellsTold
<1>8. T \subseteq 1 .. size - 1 /\ IsFiniteSet(T) /\ Cardinality(T) = Cardinality(S)
  BY <1>7, CellsOf, SMTT(30)
<1> QED
  BY <1>6, <1>8

FreeAre(sc, b, ct, S, T) ==
    /\ \A u : u \in S <=> \E a \in b .. Len(sc) : \E k \in DOMAIN sc[a].free : u = <<a, k>>
    /\ \A t : t \in T <=> \E u \in S : t = sc[u[1]].free[u[2]].value
LEMMA FreeCells ==
    ASSUME NEW sc \in Seq(ScopeType), NEW b \in Nat \ {0}, NEW ct, NEW size \in Nat \ {0}, CellsApart(sc, b, ct, size),
           NEW S, NEW T, FreeAre(sc, b, ct, S, T)
    PROVE  /\ T \subseteq 1 .. size - 1 /\ IsFiniteSet(T) /\ Cardinality(T) = Cardinality(S)
           /\ \A t \in T : \E u \in Uses(sc, b, ct) : u[1] = "free" /\ Cell(sc, ct, u) = t
<1> DEFINE use == [u \in S |-> <<"free", u[1], u[2]>>]
<1>1. ASSUME NEW u \in S
      PROVE  /\ <<"free", u[1], u[2]>> \in Uses(sc, b, ct) /\ u = <<u[1], u[2]>>
             /\ Cell(sc, ct, <<"free", u[1], u[2]>>) = sc[u[1]].free[u[2]].value
  <2>1. PICK a \in b .. Len(sc) : \E k \in DOMAIN sc[a].free : u = <<a, k>>
    BY DEF FreeAre
  <2>8. PICK k \in DOMAIN sc[a].free : u = <<a, k>>
    BY <2>1
  <2>2. u[1] = a /\ u[2] = k /\ u = <<u[1], u[2]>>
    BY <2>8
  <2>3. a \in Nat /\ a \in 1 .. Len(sc) /\ sc[a] \in ScopeType
    OBVIOUS
  <2>4. sc[a].free \in Seq(FreeIndex)
    BY <2>3 DEF ScopeType
  <2>5. k \in 1 .. Len(sc[a].free) /\ k \in Nat
    BY <2>4
  <2>6. <<"free", a, k>> \in Uses(sc, b, ct) /\ Cell(sc, ct, <<"free", a, k>>) = sc[a].free[k].value
    BY <2>3, <2>5 DEF Uses, IsUse, Cell, UseKind
  <2> QED
    BY <2>2, <2>6
<1>2. \A u \in S : use[u] = <<"free", u[1], u[2]>>
  OBVIOUS
<1> HIDE DEF use
<1>3. ASSUME NEW u \in S
      PROVE  use[u] \in Uses(sc, b, ct) /\ Cell(sc, ct, use[u]) = sc[u[1]].free[u[2]].value /\ use[u][1] = "free"
  <2>1. use[u] = <<"free", u[1], u[2]>>
    BY <1>2
  <2>2. use[u] \in Uses(sc, b, ct) /\ Cell(sc, ct, use[u]) = sc[u[1]].free[u[2]].value
    BY <1>1, <2>1
  <2>3. use[u][1] = "free"
    BY <2>1
  <2> QED
    BY <2>2, <2>3
<1>4. ASSUME NEW u \in S, NEW v \in S, use[u] = use[v] PROVE u = v
  <2>1. <<"free", u[1], u[2]>> = <<"free", v[1], v[2]>>
    BY <1>2, <1>4
  <2>2. u[1] = v[1] /\ u[2] = v[2]
    BY <2>1
  <2> QED
    BY <1>1, <2>2
<1>5. \A t : t \in T <=> \E u \in S : t = Cell(sc, ct, use[u])
  BY <1>3 DEF FreeAre
<1>6. \A t \in T : \E u \in Uses(sc, b, ct) : u[1] = "free" /\ Cell(sc, ct, u) = t
  BY <1>3, <1>5
<1>7. CellsTold(sc, b, ct, S, use, T)
  BY <1>3, <1>4, <1>5 DEF CellsTold
<1>8. T \subseteq 1 .. size - 1 /\ IsFiniteSet(T) /\ Cardinality(T) = Cardinality(S)
  BY <1>7, CellsOf, SMTT(30)
<1> QED
  BY <1>6, <1>8

HeldAre(sc, b, ct, S, T) ==
    /\ \A u : u \in S <=> \E c \in DOMAIN ct : \E k \in DOMAIN ct[c].indices :
                                        u = <<c, k>> /\ ct[c].indices[k].type = "intermediate"
    /\ \A t : t \in T <=> \E u \in S : t = ct[u[1]].indices[u[2]].value
LEMMA HeldCells ==
    ASSUME NEW sc, NEW b \in Nat, NEW ct \in Seq(HandlerType), NEW size \in Nat \ {0}, CellsApart(sc, b, ct, size),
           NEW S, NEW T, HeldAre(sc, b, ct, S, T)
    PROVE  /\ T \subseteq 1 .. size - 1 /\ IsFiniteSet(T) /\ Cardinality(T) = Cardinality(S)
           /\ \A t \in T : \E u \in Uses(sc, b, ct) : u[1] = "held" /\ Cell(sc, ct, u) = t
<1> DEFINE use == [u \in S |-> <<"held", u[1], u[2]>>]
<1>1. ASSUME NEW u \in S
      PROVE  /\ <<"held", u[1], u[2]>> \in Uses(sc, b, ct) /\ u = <<u[1], u[2]>>
             /\ Cell(sc, ct, <<"held", u[1], u[2]>>) = ct[u[1]].indices[u[2]].value
  <2>1. PICK a \in DOMAIN ct : \E k \in DOMAIN ct[a].indices : u = <<a, k>> /\ ct[a].indices[k].type = "intermediate"
    BY DEF HeldAre
  <2>2. PICK k \in DOMAIN ct[a].indices : u = <<a, k>> /\ ct[a].indices[k].type = "intermediate"
    BY <2>1
  <2>3. a \in Nat /\ a \in 1 .. Len(ct) /\ ct[a] \in HandlerType
    OBVIOUS
  <2>4. ct[a].indices \in Seq(HeldIndex)
    BY <2>3 DEF HandlerType
  <2>5. k \in 1 .. Len(ct[a].indices) /\ k \in Nat
    BY <2>4
  <2>6. u[1] = a /\ u[2] = k /\ u = <<u[1], u[2]>>
    BY <2>2
  <2>7. <<"held", a, k>> \in Uses(sc, b, ct) /\ Cell(sc, ct, <<"held", a, k>>) = ct[a].indices[k].value
    BY <2>2, <2>3, <2>5 DEF Uses, IsUse, Cell, UseKind
  <2> QED
    BY <2>6, <2>7
<1>2. \A u \in S : use[u] = <<"held", u[1], u[2]>>
  OBVIOUS
<1> HIDE DEF use
<1>3. ASSUME NEW u \in S
      PROVE  use[u] \in Uses(sc, b, ct) /\ Cell(sc, ct, use[u]) = ct[u[1]].indices[u[2]].value /\ use[u][1] = "held"
  <2>1. use[u] = <<"held", u[1], u[2]>>
    BY <1>2
  <2>2. use[u] \in Uses(sc, b, ct) /\ Cell(sc, ct, use[u]) = ct[u[1]].indices[u[2]].value
    BY <1>1, <2>1
  <2>3. use[u][1] = "held"
    BY <2>1
  <2> QED
    BY <2>2, <2>3
<1>4. ASSUME NEW u \in S, NEW v \in S, use[u] = use[v] PROVE u = v
  <2>1. <<"held", u[1], u[2]>> = <<"held", v[1], v[2]>>
    BY <1>2, <1>4
  <2>2. u[1] = v[1] /\ u[2] = v[2]
    BY <2>1
  <2> QED
    BY <1>1, <2>2
<1>5. \A t : t \in T <=> \E u \in S : t = Cell(sc, ct, use[u])
  BY <1>3 DEF HeldAre
<1>6. \A t \in T : \E u \in Uses(sc, b, ct) : u[1] = "held" /\ Cell(sc, ct, u) = t
  BY <1>3, <1>5
<1>7. CellsTold(sc, b, ct, S, use, T)
  BY <1>3, <1>4, <1>5 DEF CellsTold
<1>8. T \subseteq 1 .. size - 1 /\ IsFiniteSet(T) /\ Cardinality(T) = Cardinality(S)
  BY <1>7, CellsOf, SMTT(30)
<1> QED
  BY <1>6, <1>8

LEMMA ApartIsDisjoint ==
    ASSUME NEW out, IInv(out)
    PROVE  CellsAreDisjoint
<1> DEFINE b == BaseOf(Len(frames))
           own   == { s \in DOMAIN scopes : Visible(s) }
           named == { u \in own \X Name : u[2] \in DOMAIN scopes[u[1]].table }
           free  == UNION { {s} \X DOMAIN scopes[s].free : s \in own }
           held  == { h \in UNION { {c} \X DOMAIN control[c].indices : c \in DOMAIN control } :
                        control[h[1]].indices[h[2]].type = "intermediate" }
           A     == { scopes[u[1]].table[u[2]].value : u \in named }
           B     == { scopes[u[1]].free[u[2]].value : u \in free }
           C     == { control[h[1]].indices[h[2]].value : h \in held }
<1>1. ASSUME stage = "running", control # << >>, ~wrapped
      PROVE  /\ A \cup B \cup C \subseteq 1 .. Size - 1
             /\ Cardinality(A \cup B \cup C) = Cardinality(named) + Cardinality(free) + Cardinality(held)
  <2>1. /\ scopes \in Seq(ScopeType) /\ control \in Seq(HandlerType) /\ b \in Nat \ {0} /\ b \in Nat
    BY <1>1, Running DEF BaseOf
  <2>2. Size \in Nat \ {0} /\ CellsApart(scopes, b, control, Size)
    BY <1>1, OpenIndices
  <2>3. own = b .. Len(scopes)
    BY <1>1, OwnScopes
  <2> HIDE DEF b, own
  <2>4. NamedAre(scopes, b, control, named, A)
    BY <2>3 DEF NamedAre
  <2>5. FreeAre(scopes, b, control, free, B)
    BY <2>3 DEF FreeAre
  <2>6. HeldAre(scopes, b, control, held, C)
    BY DEF HeldAre
  <2> HIDE DEF A, B, C, named, free, held
  <2>7. A \subseteq 1 .. Size - 1 /\ IsFiniteSet(A) /\ Cardinality(A) = Cardinality(named)
        /\ \A x \in A : \E u \in Uses(scopes, b, control) : u[1] = "name" /\ Cell(scopes, control, u) = x
    BY <2>1, <2>2, <2>4, NamedCells
  <2>8. B \subseteq 1 .. Size - 1 /\ IsFiniteSet(B) /\ Cardinality(B) = Cardinality(free)
        /\ \A x \in B : \E u \in Uses(scopes, b, control) : u[1] = "free" /\ Cell(scopes, control, u) = x
    BY <2>1, <2>2, <2>5, FreeCells
  <2>9. C \subseteq 1 .. Size - 1 /\ IsFiniteSet(C) /\ Cardinality(C) = Cardinality(held)
        /\ \A x \in C : \E u \in Uses(scopes, b, control) : u[1] = "held" /\ Cell(scopes, control, u) = x
    BY <2>1, <2>2, <2>6, HeldCells
  <2>10. \A u, v \in Uses(scopes, b, control) : Cell(scopes, control, u) = Cell(scopes, control, v) => u = v
    BY <2>2 DEF CellsApart
  <2>11. A \cap B = {} /\ A \cap C = {} /\ B \cap C = {}
    <3>1. "name" # "free" /\ "name" # "held" /\ "free" # "held"
      OBVIOUS
    <3> QED
      BY <2>7, <2>8, <2>9, <2>10, <3>1
  <2>12. IsFiniteSet(A) /\ IsFiniteSet(B) /\ IsFiniteSet(C)
    BY <2>7, <2>8, <2>9
  <2>13. Cardinality(A \cup B \cup C) = Cardinality(A) + Cardinality(B) + Cardinality(C)
    BY <2>11, <2>12, ThreeSets
  <2>14. Cardinality(A) = Cardinality(named) /\ Cardinality(B) = Cardinality(free) /\ Cardinality(C) = Cardinality(held)
    BY <2>7, <2>8, <2>9
  <2>15. A \cup B \cup C \subseteq 1 .. Size - 1
    BY <2>7, <2>8, <2>9
  <2> QED
    BY <2>13, <2>14, <2>15
<1> QED
  BY <1>1 DEF CellsAreDisjoint, Size, Current

-------------------------------------------------------------------------------
(***************************************************************************)
(* The types.                                                              *)
(***************************************************************************)
LEMMA Whole ==
    ASSUME NEW S, NEW q \in Seq(S)
    PROVE  q = SubSeq(q, 1, Len(q)) /\ DOMAIN q = 1 .. Len(q) /\ \A k \in DOMAIN q : q[k] \in S
<1>1. Len(q) \in Nat /\ q \in [1 .. Len(q) -> S]
  BY LenProperties
<1>2. SubSeq(q, 1, Len(q)) \in Seq(S) /\ Len(SubSeq(q, 1, Len(q))) = Len(q)
      /\ \A k \in 1 .. Len(q) : SubSeq(q, 1, Len(q))[k] = q[k]
  OBVIOUS
<1>3. q = SubSeq(q, 1, Len(q))
  BY <1>1, <1>2, SeqEqual
<1> QED
  BY <1>1, <1>3

LEMMA IndexTyped ==
    ASSUME NEW i \in AnyIndex
    PROVE  IsIndex(i)
BY DEF AnyIndex, IsIndex

LEMMA FrameTyped ==
    ASSUME NEW f \in FrameType
    PROVE  IsFrame(f)
<1>1. /\ f.size \in 0 .. Byte - 1 /\ f.code \in Seq(InstructionType) /\ f = [size |-> f.size, code |-> f.code]
  BY DEF FrameType
<1>2. f.code = SubSeq(f.code, 1, Len(f.code)) /\ \A k \in DOMAIN f.code : f.code[k] \in InstructionType
  BY <1>1, Whole
<1>3. \A k \in DOMAIN f.code : IsIndex(f.code[k].a) /\ IsIndex(f.code[k].b)
  BY <1>2, IndexTyped DEF InstructionType
<1> QED
  BY <1>1, <1>2, <1>3 DEF IsFrame

LEMMA ScopeTyped ==
    ASSUME NEW s \in ScopeType
    PROVE  IsScope(s)
<1>1. /\ s = [inherits |-> s.inherits, free |-> s.free, table |-> s.table] /\ s.inherits \in BOOLEAN
      /\ s.free \in Seq(FreeIndex) /\ s.table \in TableType
  BY DEF ScopeType
<1>2. \A k \in DOMAIN s.free : IsIndex(s.free[k]) /\ s.free[k].type = "intermediate"
  <2>1. \A k \in DOMAIN s.free : s.free[k] \in FreeIndex
    BY <1>1, Whole
  <2> QED
    BY <2>1, IndexTyped DEF FreeIndex, IndicesOf
<1>3. PICK D \in SUBSET Name : s.table \in [D -> NameIndex]
  BY <1>1 DEF TableType
<1>4. DOMAIN s.table \subseteq Name /\ \A n \in DOMAIN s.table : s.table[n] \in NameIndex
  BY <1>3
<1>5. \A n \in DOMAIN s.table : IsIndex(s.table[n]) /\ s.table[n].type = "stack"
  BY <1>4, IndexTyped DEF NameIndex, IndicesOf
<1> QED
  BY <1>1, <1>2, <1>4, <1>5 DEF IsScope

LEMMA HandlerTyped ==
    ASSUME NEW out, NEW cur, NEW mk, Here \in Nat, NEW f \in HandlerType, HandlerOK(out, cur, mk, Here, f)
    PROVE  IsHandler(f)
<1>1. /\ f = [node |-> f.node, at |-> f.at, rest |-> f.rest, indices |-> f.indices, jumps |-> f.jumps]
      /\ f.rest \in Seq(Node) /\ f.indices \in Seq(HeldIndex) /\ f.jumps \in Seq(Nat)
  BY DEF HandlerType
<1>2. \A k \in DOMAIN f.indices : IsIndex(f.indices[k])
  <2>1. \A k \in DOMAIN f.indices : f.indices[k] \in HeldIndex
    BY <1>1, Whole
  <2> QED
    BY <2>1, IndexTyped DEF HeldIndex, IndicesOf
<1>3. \A k \in DOMAIN f.jumps : f.jumps[k] \in 0 .. Here
  <2>1. \A k \in DOMAIN f.jumps : k \in 1 .. Len(f.jumps) /\ f.jumps[k] \in Nat
    BY <1>1, Whole
  <2>2. \A k \in 1 .. Len(f.jumps) : f.jumps[k] =< Here
    BY DEF HandlerOK
  <2> QED
    BY <2>1, <2>2
<1> QED
  BY <1>1, <1>2, <1>3 DEF IsHandler

LEMMA TypesAreOK ==
    ASSUME NEW out, IInv(out)
    PROVE  TypeOK
<1>1. TypesOK /\ StageOK
  BY DEF IInv
<1>2. control = SubSeq(control, 1, Len(control)) /\ \A c \in DOMAIN control : IsHandler(control[c])
  <2>1. ControlOK(out, Len(frames), marked, Here, control) /\ control \in Seq(HandlerType)
    BY DEF IInv, ControlInv, ControlOK
  <2>2. control = SubSeq(control, 1, Len(control)) /\ DOMAIN control = 1 .. Len(control)
        /\ \A c \in DOMAIN control : control[c] \in HandlerType
    BY <2>1, Whole
  <2>3. ASSUME NEW c \in DOMAIN control PROVE IsHandler(control[c])
    <3>1. control # << >> /\ HandlerOK(out, Len(frames), marked, Here, control[c])
      <4>1. DOMAIN << >> = {}
        OBVIOUS
      <4> QED
        BY <2>1, <2>2, <2>3, <4>1 DEF ControlOK
    <3>2. Here \in Nat
      <4>1. frames # << >> /\ frames \in Seq(FrameType)
        BY <1>1, <3>1 DEF StageOK, TypesOK
      <4> QED
        BY <4>1, FrameFacts DEF Here, Code, Current
    <3> QED
      BY <2>2, <3>1, <3>2, HandlerTyped
  <2> QED
    BY <2>2, <2>3
<1>3. IsIndex(index)
  <2>1. index \in AnyIndex
    BY <1>1, FixedIndices DEF TypesOK, ResultIndex, IndicesOf
  <2> QED
    BY <2>1, IndexTyped
<1>4. \A f \in DOMAIN frames : IsFrame(frames[f])
  <2>1. \A f \in DOMAIN frames : frames[f] \in FrameType
    BY <1>1, Whole DEF TypesOK
  <2> QED
    BY <2>1, FrameTyped
<1>5. \A s \in DOMAIN scopes : IsScope(scopes[s])
  <2>1. \A s \in DOMAIN scopes : scopes[s] \in ScopeType
    BY <1>1, Whole DEF TypesOK
  <2> QED
    BY <2>1, ScopeTyped
<1>6. ASSUME stage = "running", control # << >>
      PROVE  Len(scopes) = Cardinality(Bodies) + IF Current = 1 THEN 1 ELSE 2
  <2>1. Len(scopes) = BaseOf(Len(frames)) + Cardinality(ScopedIn(control))
    BY <1>6 DEF IInv, ScopesInv, ScopesOK
  <2>2. control \in Seq(HandlerType)
    BY <1>6, Running
  <2>3. ScopedIn(control) = Bodies
    BY <2>2, Whole DEF ScopedIn, Scoped, Bodies
  <2>4. Cardinality(ScopedIn(control)) \in Nat
    <3>1. Callers \in Seq(HandlerType) /\ Popped(control, Callers)
      BY <1>6, <2>2, FrontIs DEF Callers
    <3> QED
      BY <1>6, <2>2, <3>1, ScopedPopped
  <2>5. BaseOf(Len(frames)) = IF Current = 1 THEN 1 ELSE 2
    BY DEF BaseOf, Current
  <2> DEFINE x == BaseOf(Len(frames))
             y == Cardinality(ScopedIn(control))
  <2>6. x \in Int /\ y \in Int
    BY <2>4 DEF BaseOf
  <2> HIDE DEF x, y
  <2>7. x + y = y + x
    BY <2>6
  <2> QED
    BY <2>1, <2>3, <2>5, <2>7 DEF x, y
<1> QED
  BY <1>1, <1>2, <1>3, <1>4, <1>5, <1>6 DEF TypeOK, TypesOK

-------------------------------------------------------------------------------
(***************************************************************************)
(* What is assembled.                                                      *)
(***************************************************************************)
\* Every frame that is assembled is complete, and its operands and calls are in range, if
\* no statement outside of functions returns.
LEMMA DoneIs ==
    ASSUME NEW out, IInv(out), stage = "done", ~wrapped
    PROVE  /\ frames \in Seq(FrameType) /\ frames # << >> /\ Len(frames) = 1 + Len(marked)
           /\ Len(marked) \in Nat /\ immediates \in Seq(Value) /\ ast \in Programs
           /\ CodeOK(out, frames, Len(immediates), Len(marked))
           /\ \A f \in 1 .. Len(frames) : CompleteCode(f, frames[f].code)
           /\ 1 + Len(ast.inputs) + Len(ast.outputs) =< frames[1].size
<1>1. /\ frames \in Seq(FrameType) /\ frames # << >> /\ Len(frames) + pending = 1 + Len(marked) /\ pending = 0
      /\ immediates \in Seq(Value) /\ ast \in Programs /\ control = << >>
      /\ marked \in Seq(FunctionName) /\ Len(marked) \in Nat /\ Len(frames) \in Nat
  BY DEF IInv, TypesOK, StageOK
<1>2. /\ CodeOK(out, frames, Len(immediates), Len(marked)) /\ FramesOK(frames, control)
      /\ 1 + Len(ast.inputs) + Len(ast.outputs) =< frames[1].size
  BY DEF IInv, CodeInv
<1>3. \A f \in 1 .. Len(frames) : CompleteCode(f, frames[f].code)
  <2>1. Finished(Len(frames), control)
    BY <1>1 DEF Finished
  <2>2. \A f \in 1 .. Len(frames) : f \in 1 .. Len(frames) - 1 \/ f = Len(frames)
    BY <1>1
  <2> QED
    BY <1>2, <2>1, <2>2 DEF FramesOK
<1>4. Len(frames) = 1 + Len(marked)
  BY <1>1
<1> QED
  BY <1>1, <1>2, <1>3, <1>4

\* What there always is to say of statements outside of functions: they are nodes.
LEMMA NodesAreClosed ==
    ASSUME MinusOne \in Value
    PROVE  OutAssumption(Node)
<1>1. Closed(Node)
  BY ConstructFacts DEF Closed, Constructs
<1>2. \A p \in Programs : p.nodes \in Seq(Node)
  BY ProgramAssumption DEF WellFormed
<1> QED
  BY <1>1, <1>2 DEF OutAssumption

\* In every state the variables have their types, no index is out of range and there is a
\* scope for every body.
THEOREM AssemblerTypes ==
    ASSUME MinusOne \in Value
    PROVE  Spec => []TypeOK
<1>1. OutAssumption(Node)
  BY NodesAreClosed
<1>2. Init => IInv(Node)
  BY IInvInit
<1>3. IInv(Node) /\ [Next]_vars => IInv(Node)'
  BY <1>1, IInvNext
<1>4. IInv(Node) => TypeOK
  BY TypesAreOK
<1> QED
  BY <1>2, <1>3, <1>4, PTL DEF Spec

\* When a frame runs out of cells: it has 255 of them, A included, and is given one more,
\* or it begins with that many names.
LastCellIsTaken ==
    \/ frames # << >> /\ frames[Current].size = Byte - 1
    \/ Len(ast.inputs) + Len(ast.outputs) >= Byte - 1
    \/ \E f \in DOMAIN ast.functions : Len(ast.functions[f].arguments) >= Byte - 1

\* Nothing else makes the size of a frame exceed its byte.
LEMMA WrapsAtTheLast ==
    ASSUME NEW out, IInv(out), Next, wrapped' # wrapped
    PROVE  LastCellIsTaken
<1>1. wrapped \in BOOLEAN
  BY DEF IInv, TypesOK
<1>2. ASSUME stage = "running", control # << >>, wrapped' = Wrapped
      PROVE  LastCellIsTaken
  <2>1. Size \in 0 .. Byte - 1 /\ frames # << >>
    BY <1>2, Running
  <2>2. NextSize = 0
    BY <1>1, <1>2 DEF Wrapped
  <2>3. \A n \in 0 .. 256 - 1 : (n + 1) % 256 = 0 => n = 256 - 1
    OBVIOUS
  <2>4. Size = Byte - 1
    BY <2>1, <2>2, <2>3 DEF NextSize, Size, Current, Byte
  <2> QED
    BY <2>1, <2>4 DEF LastCellIsTaken, Size, Current
<1>3. CASE SaveA /\ stage = "running" /\ control # << >>
  <2>1. wrapped' = Wrapped \/ wrapped' = wrapped
    BY <1>3 DEF SaveA, allocate_intermediate
  <2> QED
    BY <1>2, <1>3, <2>1
<1>4. CASE assemble_lhs
  BY <1>3, <1>4 DEF assemble_lhs, Given, At
<1>5. CASE assemble_call
  <2>1. stage = "running" /\ control # << >>
    BY <1>5 DEF assemble_call, Given, At
  <2>2. SaveA \/ UNCHANGED wrapped
    BY <1>5, Zenon DEF assemble_call, Silent, context, Assert
  <2> QED
    BY <1>3, <2>1, <2>2
<1>6. CASE assemble_declaration
  BY <1>2, <1>6 DEF assemble_declaration, At, Silent, context
<1>7. ASSUME NEW names, NEW body, NEW scopes_, Begin(names, body, scopes_)
      PROVE  Len(names) >= Byte - 1
  BY <1>1, <1>7 DEF Begin, Silent, context
<1>8. CASE declare_variables
  <2>1. Len(ast.inputs \o ast.outputs) >= Byte - 1
    BY <1>7, <1>8 DEF declare_variables
  <2>2. ast.inputs \in Seq(Name) /\ ast.outputs \in Seq(Name)
    BY ProgramAssumption DEF IInv, TypesOK, WellFormed
  <2>3. Len(ast.inputs \o ast.outputs) = Len(ast.inputs) + Len(ast.outputs)
    BY <2>2
  <2> QED
    BY <2>1, <2>3 DEF LastCellIsTaken
<1>9. CASE assemble_function
  <2>1. Len(ast.functions[next_marked_function].arguments) >= Byte - 1
    BY <1>7, <1>9 DEF assemble_function
  <2>2. next_marked_function \in DOMAIN ast.functions
    <3>1. /\ marked \in Seq(FunctionName) /\ pending \in 0 .. Len(marked) /\ pending > 0
          /\ \A k \in 1 .. Len(marked) : marked[k] \in DOMAIN ast.functions
      BY <1>9 DEF IInv, TypesOK, assemble_function
    <3>2. Len(marked) - pending + 1 \in 1 .. Len(marked)
      BY <3>1
    <3> QED
      BY <3>1, <3>2 DEF next_marked_function
  <2> QED
    BY <2>1, <2>2 DEF LastCellIsTaken
<1>10. ASSUME assemble_reference \/ assemble_constant \/ assemble_unary \/ assemble_condition
              \/ enter_body \/ assemble_conditional \/ assemble_loop \/ assemble_return
              \/ assemble_statement \/ give_up \/ assemble_rhs \/ assemble_assignment
              \/ assemble_arithmetic \/ assemble_update \/ assemble_relational
              \/ finish_frame \/ finish_assembly
       PROVE  UNCHANGED wrapped
  <2>0. ASSUME NEW added, NEW offsets, NEW scopes_, NEW control_,
               LeaveBody(added, offsets, scopes_, control_)
        PROVE  UNCHANGED wrapped
    BY <2>0, Zenon DEF LeaveBody, Assert, Silent, context
  <2>1. CASE assemble_reference \/ assemble_constant \/ assemble_unary
    BY <2>1, Zenon DEF assemble_reference, assemble_constant, assemble_unary, Assert, Silent, context
  <2>2. CASE assemble_condition
    BY <2>2 DEF assemble_condition, Silent, context
  <2>3. CASE enter_body
    BY <2>3 DEF enter_body, Silent, context
  <2>4. CASE assemble_conditional
    BY <2>0, <2>4, Zenon DEF assemble_conditional
  <2>5. CASE assemble_loop
    BY <2>0, <2>5, Zenon DEF assemble_loop
  <2>6. CASE assemble_return
    BY <2>6 DEF assemble_return, Silent, context
  <2>7. CASE assemble_statement \/ give_up
    BY <2>7 DEF assemble_statement, give_up, Silent, context
  <2>8. CASE assemble_rhs \/ assemble_assignment \/ assemble_arithmetic \/ assemble_update \/ assemble_relational
    BY <2>8 DEF assemble_rhs, assemble_assignment, assemble_arithmetic, assemble_update, assemble_relational, Silent, context
  <2>9. CASE finish_frame \/ finish_assembly
    BY <2>9 DEF finish_frame, finish_assembly, Silent, context
  <2> QED
    BY <1>10, <2>1, <2>2, <2>3, <2>4, <2>5, <2>6, <2>7, <2>8, <2>9
<1> QED
  BY <1>4, <1>5, <1>6, <1>8, <1>9, <1>10 DEF Next

\* As long as no frame has given out its last cell, no cell of a frame has two uses; and
\* nothing but giving out the last one, the 256th, ends that.
THEOREM AssemblerCells ==
    ASSUME MinusOne \in Value
    PROVE  Spec => []CellsAreDisjoint /\ [][wrapped' # wrapped => LastCellIsTaken]_vars
<1>1. OutAssumption(Node)
  BY NodesAreClosed
<1>2. Init => IInv(Node)
  BY IInvInit
<1>3. IInv(Node) /\ [Next]_vars => IInv(Node)'
  BY <1>1, IInvNext
<1>4. IInv(Node) => CellsAreDisjoint
  BY ApartIsDisjoint
<1>5. IInv(Node) /\ [Next]_vars => [wrapped' # wrapped => LastCellIsTaken]_vars
  BY WrapsAtTheLast
<1> QED
  BY <1>2, <1>3, <1>4, <1>5, PTL DEF Spec

===============================================================================
