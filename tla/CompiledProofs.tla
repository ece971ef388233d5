----------------------------- MODULE CompiledProofs -----------------------------
(***************************************************************************)
(* Proofs about Compiled: that what is proved of Assembler by itself holds *)
(* when it is followed by file and virtual machine, and that what it makes *)
(* of any script is a program the virtual machine's proofs are about.      *)
(***************************************************************************)
EXTENDS Compiled, TLAPS

Proved == INSTANCE AssemblerProofs WITH Programs <- Scripts
Files  == INSTANCE RasmProofs

-------------------------------------------------------------------------------
(***************************************************************************)
(* Proved has the definitions of Asm, under names of its own.              *)
(***************************************************************************)
\* The initial states and the steps of the two.
LEMMA SameNext == Asm!Next <=> Proved!Next
<1> USE DEF Asm!Byte, Proved!Byte, Asm!Index, Proved!Index, Asm!Instruction, Proved!Instruction,
            Asm!NoIndex, Proved!NoIndex, Asm!a_index, Proved!a_index, Asm!InRange, Proved!InRange,
            Asm!OperationCode, Proved!OperationCode, Asm!UpdateCode, Proved!UpdateCode,
            Asm!RelationCode, Proved!RelationCode, Asm!context, Proved!context, Asm!called,
            Proved!called, Asm!NoNames, Proved!NoNames, Asm!Scope, Proved!Scope, Asm!Current,
            Proved!Current, Asm!Code, Proved!Code, Asm!Here, Proved!Here, Asm!Visible,
            Proved!Visible, Asm!Binds, Proved!Binds, Asm!has_identifier, Proved!has_identifier,
            Asm!find_identifier, Proved!find_identifier, Asm!Emitted, Proved!Emitted, Asm!emit,
            Proved!emit, Asm!NextSize, Proved!NextSize, Asm!Wrapped, Proved!Wrapped, Asm!NewIndex,
            Proved!NewIndex, Asm!push_scope, Proved!push_scope, Asm!pop_scope, Proved!pop_scope,
            Asm!Freed, Proved!Freed, Asm!Handler, Proved!Handler, Asm!top, Proved!top, Asm!node,
            Proved!node, Asm!Callers, Proved!Callers, Asm!At, Proved!At, Asm!Become,
            Proved!Become, Asm!Assemble, Proved!Assemble, Asm!Return, Proved!Return, Asm!Fail,
            Proved!Fail, Asm!Stays, Proved!Stays, Asm!Silent, Proved!Silent, Asm!Operators,
            Proved!Operators, Asm!Given, Proved!Given, Asm!allocate_intermediate,
            Proved!allocate_intermediate, Asm!SaveA, Proved!SaveA, Asm!MustSave, Proved!MustSave,
            Asm!rhs_index, Proved!rhs_index, Asm!WithImmediate, Proved!WithImmediate,
            Asm!ImmediateIndex, Proved!ImmediateIndex, Asm!Asserting, Proved!Asserting,
            Asm!Assert, Proved!Assert, Asm!make_jump_offset, Proved!make_jump_offset,
            Asm!Constructs, Proved!Constructs, Asm!Patched, Proved!Patched, Asm!OuterScopes,
            Proved!OuterScopes, Asm!LeaveBody, Proved!LeaveBody, Asm!HasElse, Proved!HasElse,
            Asm!Marked, Proved!Marked, Asm!find_function, Proved!find_function, Asm!TopLevel,
            Proved!TopLevel, Asm!Repeated, Proved!Repeated, Asm!Begin, Proved!Begin,
            Asm!next_marked_function, Proved!next_marked_function
<1>1. Asm!give_up <=> Proved!give_up
  BY DEF Asm!give_up, Proved!give_up
<1>2. Asm!assemble_rhs <=> Proved!assemble_rhs
  BY DEF Asm!assemble_rhs, Proved!assemble_rhs
<1>3. Asm!assemble_lhs <=> Proved!assemble_lhs
  BY DEF Asm!assemble_lhs, Proved!assemble_lhs
<1>4. Asm!assemble_assignment <=> Proved!assemble_assignment
  BY DEF Asm!assemble_assignment, Proved!assemble_assignment
<1>5. Asm!assemble_arithmetic <=> Proved!assemble_arithmetic
  BY DEF Asm!assemble_arithmetic, Proved!assemble_arithmetic
<1>6. Asm!assemble_update <=> Proved!assemble_update
  BY DEF Asm!assemble_update, Proved!assemble_update
<1>7. Asm!assemble_relational <=> Proved!assemble_relational
  BY DEF Asm!assemble_relational, Proved!assemble_relational
<1>8. Asm!assemble_declaration <=> Proved!assemble_declaration
  BY DEF Asm!assemble_declaration, Proved!assemble_declaration
<1>9. Asm!assemble_reference <=> Proved!assemble_reference
  BY DEF Asm!assemble_reference, Proved!assemble_reference
<1>10. Asm!assemble_constant <=> Proved!assemble_constant
  BY DEF Asm!assemble_constant, Proved!assemble_constant
<1>11. Asm!assemble_unary <=> Proved!assemble_unary
  BY DEF Asm!assemble_unary, Proved!assemble_unary
<1>12. Asm!assemble_condition <=> Proved!assemble_condition
  BY DEF Asm!assemble_condition, Proved!assemble_condition
<1>13. Asm!enter_body <=> Proved!enter_body
  BY DEF Asm!enter_body, Proved!enter_body
<1>14. Asm!assemble_statement <=> Proved!assemble_statement
  BY DEF Asm!assemble_statement, Proved!assemble_statement
<1>15. Asm!assemble_conditional <=> Proved!assemble_conditional
  BY DEF Asm!assemble_conditional, Proved!assemble_conditional
<1>16. Asm!assemble_loop <=> Proved!assemble_loop
  BY DEF Asm!assemble_loop, Proved!assemble_loop
<1>17. Asm!assemble_call <=> Proved!assemble_call
  BY DEF Asm!assemble_call, Proved!assemble_call
<1>18. Asm!assemble_return <=> Proved!assemble_return
  BY DEF Asm!assemble_return, Proved!assemble_return
<1>19. Asm!declare_variables <=> Proved!declare_variables
  BY DEF Asm!declare_variables, Proved!declare_variables
<1>20. Asm!finish_frame <=> Proved!finish_frame
  BY DEF Asm!finish_frame, Proved!finish_frame
<1>21. Asm!assemble_function <=> Proved!assemble_function
  BY DEF Asm!assemble_function, Proved!assemble_function
<1>22. Asm!finish_assembly <=> Proved!finish_assembly
  BY DEF Asm!finish_assembly, Proved!finish_assembly
<1> QED
  BY <1>1, <1>2, <1>3, <1>4, <1>5, <1>6, <1>7, <1>8, <1>9, <1>10, <1>11, <1>12, <1>13, <1>14,
     <1>15, <1>16, <1>17, <1>18, <1>19, <1>20, <1>21, <1>22 DEF Asm!Next, Proved!Next

LEMMA SameInit == Asm!Init <=> Proved!Init
BY DEF Asm!Init, Proved!Init, Asm!NoIndex, Proved!NoIndex, Asm!Index, Proved!Index

LEMMA SameAssumptions ==
    /\ Proved!NodeAssumption
    /\ Proved!ProgramAssumption
    /\ Proved!ParametersAssumption
    /\ Proved!ValueAssumption
<1> USE DEF Asm!is_lvalue, Proved!is_lvalue, Asm!IsNumber, Proved!IsNumber, Asm!IsCondition,
            Proved!IsCondition, Asm!value_type, Proved!value_type, Asm!NumberType, Proved!NumberType,
            Asm!ArithmeticOp, Proved!ArithmeticOp, Asm!UnaryOp, Proved!UnaryOp,
            Asm!RelationalOp, Proved!RelationalOp
<1>1. \A n : Asm!WellFormedNode(n) <=> Proved!WellFormedNode(n)
  BY DEF Asm!WellFormedNode, Proved!WellFormedNode
<1>2. \A n : Asm!Children(n) = Proved!Children(n)
  BY DEF Asm!Children, Proved!Children
<1>3. Proved!NodeAssumption
  BY <1>1, <1>2, ScriptAssumption DEF Asm!NodeAssumption, Proved!NodeAssumption
<1>4. Proved!ProgramAssumption
  BY ScriptAssumption DEF Asm!ProgramAssumption, Proved!ProgramAssumption, Asm!WellFormed,
     Proved!WellFormed, Asm!WellFormedFunction, Proved!WellFormedFunction
<1>5. Proved!ParametersAssumption
  BY ScriptAssumption DEF Asm!ParametersAssumption, Proved!ParametersAssumption, Asm!IsFiniteSet,
     Proved!IsFiniteSet
<1>6. Proved!ValueAssumption
  BY ScriptAssumption DEF Asm!ValueAssumption, Proved!ValueAssumption
<1> QED
  BY <1>3, <1>4, <1>5, <1>6

LEMMA SameProperties ==
    /\ Proved!TypeOK <=> AssemblerTypeOK
    /\ Proved!CellsAreDisjoint <=> CellsAreDisjoint
<1> USE DEF Asm!IsIndex, Proved!IsIndex, Asm!MemoryIndex, Proved!MemoryIndex, Asm!IndexType,
            Proved!IndexType, Asm!InRange, Proved!InRange, Asm!Byte, Proved!Byte, Asm!Here, Proved!Here,
            Asm!Code, Proved!Code, Asm!Current, Proved!Current, Asm!Visible, Proved!Visible
<1>1. /\ \A f : Asm!IsFrame(f) <=> Proved!IsFrame(f)
      /\ \A s : Asm!IsScope(s) <=> Proved!IsScope(s)
  BY DEF Asm!IsFrame, Proved!IsFrame, Asm!IsScope, Proved!IsScope
<1>2. \A h : Asm!IsHandler(h) <=> Proved!IsHandler(h)
  BY DEF Asm!IsHandler, Proved!IsHandler
<1>3. Asm!Bodies = Proved!Bodies
  BY DEF Asm!Bodies, Proved!Bodies, Asm!Constructs, Proved!Constructs
<1>4. \A S : Asm!Cardinality(S) = Proved!Cardinality(S)
  BY DEF Asm!Cardinality, Proved!Cardinality
<1>5. Proved!TypeOK <=> AssemblerTypeOK
  BY <1>1, <1>2, <1>3, <1>4 DEF AssemblerTypeOK, Asm!TypeOK, Proved!TypeOK, Asm!Repeated,
     Proved!Repeated, Asm!AssemblerErrorCode, Proved!AssemblerErrorCode
<1>6. Proved!CellsAreDisjoint <=> CellsAreDisjoint
  BY <1>4 DEF CellsAreDisjoint, Asm!CellsAreDisjoint, Proved!CellsAreDisjoint
<1> QED
  BY <1>5, <1>6

-------------------------------------------------------------------------------
(***************************************************************************)
(* The assembler's invariant is an invariant of the whole.                 *)
(***************************************************************************)
LEMMA AssemblerBegins ==
    ASSUME NEW out, CompiledInit
    PROVE  Proved!IInv(out)
BY SameInit, SameAssumptions, Proved!IInvInit DEF CompiledInit

LEMMA AssemblerStays ==
    ASSUME NEW out, Proved!OutAssumption(out), Proved!IInv(out), [CompiledNext]_allvars
    PROVE  Proved!IInv(out)'
<1>1. [Proved!Next]_(Proved!vars)
  <2>1. CASE assemble
    BY <2>1, SameNext DEF assemble
  <2>2. CASE UNCHANGED assembler
    BY <2>2 DEF assembler, Proved!vars, Proved!context, Proved!called
  <2> QED
    BY <2>1, <2>2 DEF CompiledNext, allvars, write, read_and_execute, run, return
<1> QED
  BY <1>1, SameAssumptions, Proved!IInvNext

LEMMA NodesAreKnown == Proved!OutAssumption(Node)
BY SameAssumptions, ScriptAssumption, Proved!NodesAreClosed

\* However a script is nested, and whatever is executed afterwards: the assembler's
\* variables have their types, no index is out of range, there is a scope for every body.
THEOREM CompiledTypes == CompiledSpec => []AssemblerTypeOK
<1>1. CompiledInit => Proved!IInv(Node)
  BY AssemblerBegins
<1>2. Proved!IInv(Node) /\ [CompiledNext]_allvars => Proved!IInv(Node)'
  BY NodesAreKnown, AssemblerStays
<1>3. Proved!IInv(Node) => AssemblerTypeOK
  BY SameProperties, SameAssumptions, Proved!TypesAreOK
<1> QED
  BY <1>1, <1>2, <1>3, PTL DEF CompiledSpec

\* As long as no frame has given out its last cell, no cell of a frame is given out while
\* it has another use; and nothing but giving out the last one, the 256th, ends that.
THEOREM CompiledCells ==
    CompiledSpec => []CellsAreDisjoint /\ [][wrapped' # wrapped => Proved!LastCellIsTaken]_allvars
<1>1. CompiledInit => Proved!IInv(Node)
  BY AssemblerBegins
<1>2. Proved!IInv(Node) /\ [CompiledNext]_allvars => Proved!IInv(Node)'
  BY NodesAreKnown, AssemblerStays
<1>3. Proved!IInv(Node) => CellsAreDisjoint
  BY SameProperties, SameAssumptions, Proved!ApartIsDisjoint
<1>4. Proved!IInv(Node) /\ [CompiledNext]_allvars
        => [wrapped' # wrapped => Proved!LastCellIsTaken]_allvars
  <2> SUFFICES ASSUME Proved!IInv(Node), CompiledNext, wrapped' # wrapped
               PROVE  Proved!LastCellIsTaken
    BY DEF allvars, assembler
  <2>1. Proved!Next
    BY SameNext DEF CompiledNext, assemble, write, read_and_execute, run, return, assembler
  <2> QED
    BY <2>1, SameAssumptions, Proved!WrapsAtTheLast
<1> QED
  BY <1>1, <1>2, <1>3, <1>4, PTL DEF CompiledSpec

-------------------------------------------------------------------------------
(***************************************************************************)
(* What is assembled.                                                      *)
(***************************************************************************)
\* No return outside of functions: there are statements that have those of programs among
\* them, and those of their bodies, and none of them is a return.
ReturnsAreInFunctions == \E out \in SUBSET Node : Proved!OutAssumption(out) /\ ~Proved!HasReturn(out)

LEMMA Bytes ==
    ASSUME MaxFrame >= 256
    PROVE  /\ \A x \in 1 .. 256 - 1 : x \in 1 .. MaxFrame - 1
           /\ \A x \in 0 .. 256 - 1 : x >= 1 => x \in 1 .. MaxFrame
<1>1. MaxFrame \in Int
  BY SizeAssumption
<1> QED
  BY <1>1

\* The same instruction, for the assembler and for the virtual machine.
LEMMA EmittedIsWellFormed ==
    ASSUME NEW out, NEW data, NEW f \in Nat, NEW k \in Nat,
           NEW frame, data.frames[f] = frame,
           NEW ins \in Proved!InstructionType, frame.code[k] = ins,
           Len(data.immediates) \in Nat, Len(data.frames) \in Nat, MaxFrame >= 256,
           Proved!InstructionOK(out, f, ins, frame.size, Len(data.immediates), Len(data.frames) - 1),
           Proved!JumpClosed(frame.code, k, Len(frame.code)),
           k = Len(frame.code) => ins.op = IF f = 1 THEN "hlt" ELSE "ret",
           ~Proved!HasReturn(out)
    PROVE  WellFormedInstruction(data, f, k)
<1> USE DEF Proved!TwoOp, Proved!SelfOp, Proved!JumpOp, Proved!CodeOp, ArithmeticOps, UpdateOps, RelationalOps
<1>1. ins.op \in Proved!CodeOp /\ ins.a \in Proved!AnyIndex /\ ins.b \in Proved!AnyIndex
  BY DEF Proved!InstructionType
<1>2. ins.op \in OpCode
  BY <1>1 DEF OpCode
<1>3. /\ ins.op \in ReadsFirst => ins.op \in Proved!TwoOp \cup Proved!SelfOp \cup {"mov", "mag", "fac", "put"}
      /\ ins.op \in ReadsSecond => ins.op \in Proved!TwoOp \cup Proved!SelfOp
      /\ ins.op \in UpdateOps \cup {"das"} => ins.op \in Proved!SelfOp
  BY DEF ReadsFirst, ReadsSecond, OpCode
<1>4. \A i : /\ Proved!IsLocal(i, frame.size) => IsLocal(frame, i)
             /\ Proved!IsOperand(i, frame.size, Len(data.immediates)) => IsOperand(data, frame, i)
  BY DEF Proved!IsLocal, Proved!IsOperand, IsLocal, IsOperand
<1>5. /\ ins.op \in ReadsFirst => IsOperand(data, frame, ins.a)
      /\ ins.op \in ReadsSecond => IsOperand(data, frame, ins.b)
      /\ ins.op \in UpdateOps \cup {"das"} => IsLocal(frame, ins.a)
      /\ ins.op = "mov" => IsLocal(frame, ins.b)
  <2> HIDE DEF Proved!TwoOp, Proved!SelfOp, UpdateOps
  <2> QED
    BY <1>3, <1>4 DEF Proved!InstructionOK
<1>6. ins.op = "put" => ins.b.value \in 1 .. MaxFrame - 1
  <2>1. ins.op = "put" => ins.b.value \in 1 .. 256 - 1
    BY DEF Proved!InstructionOK, Proved!Byte
  <2> QED
    BY <2>1, Bytes
<1>7. ins.op \in {"jpz", "jmp"} => ins.a.value \in -128 .. 127 /\ k + ins.a.value \in 1 .. Len(frame.code)
  <2>1. ins.op \in {"jpz", "jmp"} => ins.a.type = "jump_offset" /\ k + ins.a.value \in 1 .. Len(frame.code)
    BY DEF Proved!JumpClosed
  <2>2. ins.a.type = "jump_offset" => ins.a.value \in -128 .. 127
    BY <1>1 DEF Proved!AnyIndex, Proved!InRange, Proved!Byte
  <2> QED
    BY <2>1, <2>2
<1>8. /\ ins.op = "jsr" => ins.a.value \in 1 .. Len(data.frames) - 1
      /\ ins.op = "hlt" => f = 1
      /\ ins.op = "ret" => f # 1
  BY DEF Proved!InstructionOK
<1> HIDE DEF Proved!TwoOp, Proved!SelfOp, Proved!JumpOp, Proved!CodeOp, ArithmeticOps, UpdateOps, RelationalOps
<1> QED
  BY <1>2, <1>5, <1>6, <1>7, <1>8 DEF WellFormedInstruction

LEMMA AssembledIsWellFormed ==
    ASSUME NEW out, Proved!IInv(out), ~Proved!HasReturn(out), MaxFrame >= 256
    PROVE  EmitsWellFormed
<1> SUFFICES ASSUME stage = "done", ~wrapped
             PROVE  WellFormed(Data)
  BY DEF EmitsWellFormed
<1>1. /\ frames \in Seq(Proved!FrameType) /\ frames # << >> /\ Len(frames) = 1 + Len(marked)
      /\ Len(marked) \in Nat /\ immediates \in Seq(Value) /\ ast \in Scripts
      /\ Proved!CodeOK(out, frames, Len(immediates), Len(marked))
      /\ \A f \in 1 .. Len(frames) : Proved!CompleteCode(f, frames[f].code)
      /\ 1 + Len(ast.inputs) + Len(ast.outputs) =< frames[1].size
  BY SameAssumptions, Proved!DoneIs
<1>2. Data.immediates = immediates /\ Data.frames = frames
  BY DEF Data
<1>3. /\ Len(ast.inputs) \in Nat /\ Len(ast.outputs) \in Nat
      /\ Data.inputs = Len(ast.inputs) /\ Data.outputs = Len(ast.outputs)
  <2> DEFINE m == Len(ast.inputs)
             n == Len(ast.outputs)
             size == frames[1].size
  <2>1. m \in Nat /\ n \in Nat
    <3>1. ast.inputs \in Seq(Name) /\ ast.outputs \in Seq(Name)
      BY <1>1, ScriptAssumption DEF Asm!ProgramAssumption, Asm!WellFormed
    <3> QED
      BY <3>1
  <2>2. size \in 0 .. 255 /\ 1 + m + n =< size
    <3>1. frames[1] \in Proved!FrameType
      BY <1>1
    <3>2. size \in 0 .. 256 - 1
      BY <3>1 DEF Proved!FrameType, Proved!Byte
    <3>3. 1 + m + n =< size
      BY <1>1
    <3> HIDE DEF size, m, n
    <3> QED
      BY <3>2, <3>3
  <2>3. Data.inputs = (m % 256) /\ Data.outputs = (n % 256)
    BY DEF Data
  <2> HIDE DEF m, n, size
  <2>4. m \in 0 .. 255 /\ n \in 0 .. 255
    BY <2>1, <2>2
  <2>5. (m % 256) = m /\ (n % 256) = n
    BY <2>4, SMT
  <2> QED
    BY <2>1, <2>3, <2>5 DEF m, n
<1>4. Len(immediates) \in Nat /\ Len(frames) \in Nat \ {0} /\ Len(marked) = Len(frames) - 1
  BY <1>1
<1>5. ASSUME NEW f \in 1 .. Len(frames)
      PROVE  WellFormedFrame(Data, f)
  <2> DEFINE frame == frames[f]
  <2>1. /\ frame.size \in 0 .. 256 - 1 /\ frame.code \in Seq(Proved!InstructionType)
    <3>1. frame \in Proved!FrameType
      BY <1>1
    <3> QED
      BY <3>1 DEF Proved!FrameType, Proved!Byte
  <2>2. Proved!FrameOK(out, f, frame, Len(immediates), Len(marked)) /\ Proved!CompleteCode(f, frame.code)
    BY <1>1 DEF Proved!CodeOK
  <2> HIDE DEF frame
  <2>3. frame.size \in 1 .. MaxFrame
    BY <2>1, <2>2, Bytes DEF Proved!FrameOK
  <2>4. Len(frame.code) \in Nat \ {0} /\ DOMAIN frame.code = 1 .. Len(frame.code)
    BY <2>1, <2>2 DEF Proved!CompleteCode
  <2>5. ASSUME NEW k \in 1 .. Len(frame.code)
        PROVE  WellFormedInstruction(Data, f, k)
    <3>1. frame.code[k] \in Proved!InstructionType
      BY <2>1
    <3>2. Proved!InstructionOK(out, f, frame.code[k], frame.size, Len(Data.immediates), Len(Data.frames) - 1)
      BY <2>2, <1>2, <1>4 DEF Proved!FrameOK
    <3>3. /\ Proved!JumpClosed(frame.code, k, Len(frame.code))
          /\ k = Len(frame.code) => frame.code[k].op = IF f = 1 THEN "hlt" ELSE "ret"
      BY <2>2 DEF Proved!CompleteCode
    <3>4. Data.frames[f] = frame /\ f \in Nat /\ k \in Nat
      BY <1>2, <1>4, <2>4 DEF frame
    <3>5. Len(Data.immediates) \in Nat /\ Len(Data.frames) \in Nat
      BY <1>2, <1>4
    <3> QED
      BY <3>1, <3>2, <3>3, <3>4, <3>5, EmittedIsWellFormed
  <2>6. Data.frames[f] = frame
    BY <1>2 DEF frame
  <2> QED
    BY <2>3, <2>4, <2>5, <2>6 DEF WellFormedFrame
<1>6. \A f \in 1 .. Len(frames) : WellFormedFrame(Data, f)
  BY <1>5
<1> QED
  BY <1>1, <1>2, <1>3, <1>4, <1>6 DEF WellFormed

\* What VM assumes of programs holds of all the assembler makes without a frame giving out
\* its 256th cell, whatever is nested in whatever and however often cells have been freed
\* and given out again: if no script returns outside of functions, and the size of a frame
\* is a byte.
THEOREM CompiledWellFormed ==
    ASSUME ReturnsAreInFunctions, MaxFrame >= 256
    PROVE  CompiledSpec => []EmitsWellFormed
<1>1. PICK out \in SUBSET Node : Proved!OutAssumption(out) /\ ~Proved!HasReturn(out)
  BY DEF ReturnsAreInFunctions
<1>2. CompiledInit => Proved!IInv(out)
  BY AssemblerBegins
<1>3. Proved!IInv(out) /\ [CompiledNext]_allvars => Proved!IInv(out)'
  BY <1>1, AssemblerStays
<1>4. Proved!IInv(out) => EmitsWellFormed
  BY <1>1, AssembledIsWellFormed
<1> QED
  BY <1>2, <1>3, <1>4, PTL DEF CompiledSpec

-------------------------------------------------------------------------------
(***************************************************************************)
(* What is in the file.                                                    *)
(***************************************************************************)
\* Writing and reading are those of Rasm, under the names of Files.
LEMMA SameFiles ==
    /\ \A data : File!write_rsbf(data) = Files!write_rsbf(data) /\ (File!Writable(data) <=> Files!Writable(data))
    /\ \A bytes : File!read_rsbf(bytes) = Files!read_rsbf(bytes)
<1>0. /\ File!Byte = Files!Byte /\ File!Twelve = Files!Twelve /\ File!Half = Files!Half /\ File!Three = Files!Three
      /\ File!magic_word = Files!magic_word /\ File!version_number = Files!version_number
      /\ File!OpCodes = Files!OpCodes /\ File!ValueTypes = Files!ValueTypes
      /\ \A q, e : File!CodeOf(q, e) = Files!CodeOf(q, e)
  BY SMT DEF File!Byte, Files!Byte, File!Twelve, Files!Twelve, File!Half, Files!Half, File!Three, Files!Three,
             File!OpCodes, Files!OpCodes, File!ValueTypes, Files!ValueTypes, File!CodeOf, Files!CodeOf,
             File!magic_word, Files!magic_word, File!version_number, Files!version_number
<1>1. \A w : File!WordBytes(w) = Files!WordBytes(w)
  BY <1>0 DEF File!WordBytes, Files!WordBytes
<1>2. \A ins : File!to_binary(ins) = Files!to_binary(ins)
  BY <1>0 DEF File!to_binary, Files!to_binary, File!index_to_binary, Files!index_to_binary
<1>3. \A v : File!DoubleBytes(v) = Files!DoubleBytes(v)
  BY Zenon DEF File!DoubleBytes, Files!DoubleBytes
<1>4. \A q : File!write_vector(q) = Files!write_vector(q)
  BY <1>1 DEF File!write_vector, Files!write_vector, File!FlattenSeq, Files!FlattenSeq
<1>5. \A frame : File!write_frame(frame) = Files!write_frame(frame)
  BY <1>0, <1>1, <1>2, <1>4 DEF File!write_frame, Files!write_frame
<1>6. \A data : File!write_rsbf(data) = Files!write_rsbf(data)
  BY <1>0, <1>1, <1>3, <1>4, <1>5 DEF File!write_rsbf, Files!write_rsbf
<1>7. \A data : File!Writable(data) <=> Files!Writable(data)
  BY <1>0 DEF File!Writable, Files!Writable, File!IsCounted, Files!IsCounted
<1>8. File!Fails = Files!Fails /\ \A v, next : File!Reads(v, next) = Files!Reads(v, next)
  BY <1>0 DEF File!Fails, Files!Fails, File!Reads, Files!Reads
<1>9. \A bytes, at, size : File!Available(bytes, at, size) <=> Files!Available(bytes, at, size)
  BY <1>0 DEF File!Available, Files!Available
<1>10. /\ \A bytes, at : File!read_byte(bytes, at) = Files!read_byte(bytes, at)
       /\ \A bytes, at : File!read_word(bytes, at) = Files!read_word(bytes, at)
       /\ \A bytes, at : File!read_double(bytes, at) = Files!read_double(bytes, at)
  BY <1>0, <1>8, <1>9 DEF File!read_byte, Files!read_byte, File!read_word, Files!read_word, File!read_double, Files!read_double
<1>11. \A w : File!IsInstructionWord(w) <=> Files!IsInstructionWord(w)
  BY <1>0 DEF File!IsInstructionWord, Files!IsInstructionWord, File!IsIndexWord, Files!IsIndexWord
<1>12. \A w : File!from_binary(w) = Files!from_binary(w)
  BY <1>0 DEF File!from_binary, Files!from_binary, File!index_from_binary, Files!index_from_binary,
     File!Signed, Files!Signed
<1>13. \A bytes, at : File!read_instruction(bytes, at) = Files!read_instruction(bytes, at)
  BY <1>8, <1>10, <1>11, <1>12 DEF File!read_instruction, Files!read_instruction
<1>14. \A type, bytes, at : File!read_element(type, bytes, at) = Files!read_element(type, bytes, at)
  BY <1>10, <1>13 DEF File!read_element, Files!read_element
<1>15. ASSUME NEW type, NEW bytes, NEW at
       PROVE  File!read_vector(type, bytes, at) = Files!read_vector(type, bytes, at)
  <2> DEFINE Vector(size, elements, width) ==
               IF size.ok /\ \A k \in 1 .. size.value : elements[k].ok
                 THEN Files!Reads([k \in 1 .. size.value |-> elements[k].value], size.next + size.value * width)
                 ELSE Files!Fails
             FirstRead(size, width)  ==
               [k \in 1 .. size.value |-> File!read_element(type, bytes, size.next + (k - 1) * width)]
             SecondRead(size, width) ==
               [k \in 1 .. size.value |-> Files!read_element(type, bytes, size.next + (k - 1) * width)]
  <2>1. \A size, width : FirstRead(size, width) = SecondRead(size, width)
    BY <1>14, Zenon
  <2>2. /\ File!read_vector(type, bytes, at) =
             Vector(File!read_word(bytes, at), FirstRead(File!read_word(bytes, at), File!Width[type]), File!Width[type])
        /\ Files!read_vector(type, bytes, at) =
             Vector(Files!read_word(bytes, at), SecondRead(Files!read_word(bytes, at), Files!Width[type]), Files!Width[type])
    BY DEF File!read_vector, Files!read_vector, File!Reads, Files!Reads, File!Fails, Files!Fails
  <2>3. File!read_word(bytes, at) = Files!read_word(bytes, at) /\ File!Width = Files!Width
    BY <1>10 DEF File!Width, Files!Width
  <2> HIDE DEF Vector, FirstRead, SecondRead
  <2> QED
    BY <2>1, <2>2, <2>3, Zenon
<1>16. \A bytes, at : File!read_frame(bytes, at) = Files!read_frame(bytes, at)
  BY <1>8, <1>10, <1>15 DEF File!read_frame, Files!read_frame
<1>17. ASSUME NEW bytes, NEW at
       PROVE  File!read_frames(bytes, at) = Files!read_frames(bytes, at)
  <2> DEFINE NextOf(before) ==
               LET frame == File!read_frame(bytes, before.next)
               IN  IF before.ok /\ frame.ok
                     THEN Files!Reads(Append(before.value, frame.value), frame.next) ELSE Files!Fails
             FirstOf(first, size) ==
               first = [k \in 0 .. size.value |-> IF k = 0 THEN Files!Reads(<< >>, size.next) ELSE NextOf(first[k - 1])]
             FirstIs(first, size) == Files!IsFirst(first, bytes, size.value, size.next)
  <2>1. \A before : NextOf(before) = Files!NextFrame(bytes, before)
    BY <1>16 DEF Files!NextFrame
  <2>2. ASSUME NEW first, NEW size PROVE FirstOf(first, size) <=> FirstIs(first, size)
    <3> HIDE DEF NextOf
    <3>1. [k \in 0 .. size.value |-> IF k = 0 THEN Files!Reads(<< >>, size.next) ELSE NextOf(first[k - 1])]
            = [k \in 0 .. size.value |->
                 IF k = 0 THEN Files!Reads(<< >>, size.next) ELSE Files!NextFrame(bytes, first[k - 1])]
      BY <2>1, Zenon
    <3> QED
      BY <3>1, Zenon DEF Files!IsFirst
  <2>3. /\ File!read_frames(bytes, at) =
             IF File!read_word(bytes, at).ok
               THEN (CHOOSE first : FirstOf(first, File!read_word(bytes, at)))[File!read_word(bytes, at).value]
               ELSE Files!Fails
        /\ Files!read_frames(bytes, at) =
             IF Files!read_word(bytes, at).ok
               THEN (CHOOSE first : FirstIs(first, Files!read_word(bytes, at)))[Files!read_word(bytes, at).value]
               ELSE Files!Fails
    BY DEF File!read_frames, Files!read_frames, File!Reads, Files!Reads, File!Fails, Files!Fails,
       Files!IsFirst, Files!NextFrame
  <2> HIDE DEF FirstOf, FirstIs
  <2>4. ASSUME NEW size PROVE (CHOOSE first : FirstOf(first, size)) = (CHOOSE first : FirstIs(first, size))
    BY <2>2, Zenon
  <2> DEFINE first1(size) == CHOOSE first : FirstOf(first, size)
             first2(size) == CHOOSE first : FirstIs(first, size)
             size1 == File!read_word(bytes, at)
             size2 == Files!read_word(bytes, at)
  <2>5. size1 = size2
    BY <1>10, Zenon
  <2>6. first1(size2) = first2(size2)
    BY <2>4
  <2>7. /\ File!read_frames(bytes, at) = IF size1.ok THEN first1(size1)[size1.value] ELSE Files!Fails
        /\ Files!read_frames(bytes, at) = IF size2.ok THEN first2(size2)[size2.value] ELSE Files!Fails
    BY <2>3
  <2> HIDE DEF first1, first2, size1, size2
  <2>8. first1(size1) = first2(size2)
    BY <2>5, <2>6
  <2> QED
    BY <2>5, <2>7, <2>8
<1>18. \A bytes, at : File!do_read(bytes, at) = Files!do_read(bytes, at)
  BY <1>10, <1>15, <1>17 DEF File!do_read, Files!do_read
<1>19. \A bytes : File!read_rsbf(bytes) = Files!read_rsbf(bytes)
  BY <1>0, <1>10, <1>18 DEF File!read_rsbf, Files!read_rsbf
<1> QED
  BY <1>6, <1>7, <1>19

\* What is assembled can be written: its indices fit their bytes and the bytes of jumps
\* have signs, whether or not sizes have wrapped around.
LEMMA AssembledIsData ==
    ASSUME NEW out, Proved!IInv(out), stage = "done"
    PROVE  Data \in Files!DataType(Value)
<1>1. /\ frames \in Seq(Proved!FrameType) /\ immediates \in Seq(Value) /\ ast \in Scripts
  BY DEF Proved!IInv, Proved!TypesOK
<1>2. Proved!CodeOp \subseteq Files!OpCode
  BY Zenon DEF Proved!CodeOp, Proved!TwoOp, Proved!SelfOp, Proved!JumpOp, Files!OpCode
<1>3. ASSUME NEW i \in Proved!AnyIndex PROVE i \in Files!MemoryIndex
  <2>1. i \in Proved!MemoryIndex /\ Proved!InRange(i)
    BY DEF Proved!AnyIndex
  <2>2. i \in [type : Files!ValueType, value : Int]
    BY <2>1 DEF Proved!MemoryIndex, Proved!IndexType, Files!ValueType
  <2>3. IF i.type = "jump_offset" THEN i.value \in -128 .. 127 ELSE i.value \in 0 .. 256 - 1
    <3>1. -(256 \div 2) = -128 /\ 256 \div 2 - 1 = 127
      BY SMT
    <3> QED
      BY <2>1, <3>1, SMT DEF Proved!InRange, Proved!Byte
  <2> QED
    BY <2>2, <2>3 DEF Files!MemoryIndex, Files!Byte
<1>4. Proved!InstructionType \subseteq Files!InstructionType
  BY <1>2, <1>3, Zenon DEF Proved!InstructionType, Files!InstructionType
<1>5. Proved!FrameType \subseteq Files!FrameType
  <2>1. Seq(Proved!InstructionType) \subseteq Seq(Files!InstructionType)
    BY <1>4
  <2> QED
    BY <2>1 DEF Proved!FrameType, Files!FrameType, Proved!Byte, Files!Byte
<1>6. frames \in Seq(Files!FrameType)
  BY <1>1, <1>5
<1> DEFINE i == Len(ast.inputs) % 256
           o == Len(ast.outputs) % 256
<1>7. i \in 0 .. 256 - 1 /\ o \in 0 .. 256 - 1
  <2> DEFINE m == Len(ast.inputs)
             n == Len(ast.outputs)
  <2>1. m \in Nat /\ n \in Nat
    <3>1. ast.inputs \in Seq(Name) /\ ast.outputs \in Seq(Name)
      BY <1>1, ScriptAssumption DEF Asm!ProgramAssumption, Asm!WellFormed
    <3> QED
      BY <3>1
  <2>2. \A x \in Nat : (x % 256) \in 0 .. 256 - 1
    BY SMT
  <2>3. (m % 256) \in 0 .. 256 - 1 /\ (n % 256) \in 0 .. 256 - 1
    <3> HIDE DEF m, n
    <3> QED
      BY <2>1, <2>2, Zenon
  <2> QED
    BY <2>3, Zenon
<1>8. Data = [inputs |-> i, outputs |-> o, immediates |-> immediates, frames |-> frames]
  BY DEF Data
<1> HIDE DEF i, o
<1> QED
  BY <1>1, <1>6, <1>7, <1>8, Zenon DEF Files!DataType, Files!Byte

\* Nothing is written before the assembler is done, or executed before it is written; what
\* is in the file is what the assembler has made.
PipelineOK ==
    /\ step # "nothing" => stage = "done"
    /\ step \in {"nothing", "write"} => phase = "idle"
    /\ step = "write" => file = File!write_rsbf(Data) /\ File!Writable(Data)

LEMMA AssemblerIsNotDone == ASSUME assemble PROVE stage # "done"
BY DEF assemble, Asm!Next, Asm!declare_variables, Asm!assemble_statement, Asm!finish_frame,
   Asm!assemble_function, Asm!finish_assembly, Asm!give_up, Asm!assemble_rhs, Asm!assemble_lhs,
   Asm!assemble_assignment, Asm!assemble_arithmetic, Asm!assemble_update, Asm!assemble_relational,
   Asm!assemble_declaration, Asm!assemble_reference, Asm!assemble_constant, Asm!assemble_unary,
   Asm!assemble_condition, Asm!enter_body, Asm!assemble_conditional, Asm!assemble_loop,
   Asm!assemble_call, Asm!assemble_return, Asm!Given, Asm!At

LEMMA PipelineStays ==
    ASSUME PipelineOK, [CompiledNext]_allvars
    PROVE  PipelineOK'
<1>1. CASE assemble
  <2>1. step = "nothing" /\ step' = "nothing" /\ phase' = phase
    BY <1>1, AssemblerIsNotDone DEF PipelineOK, assemble, vars
  <2> QED
    BY <2>1 DEF PipelineOK
<1>2. CASE write
  <2>1. Data' = Data
    BY <1>2 DEF write, assembler, Data
  <2>2. step = "nothing" /\ stage = "done" /\ stage' = stage /\ phase' = phase /\ step' = "write"
    BY <1>2 DEF write, vars, assembler
  <2>3. file' = File!write_rsbf(Data) /\ File!Writable(Data)
    BY <1>2 DEF write
  <2>4. file' = File!write_rsbf(Data') /\ File!Writable(Data')
    BY <2>1, <2>3
  <2> QED
    BY <2>2, <2>4 DEF PipelineOK
<1>3. CASE read_and_execute
  <2>1. step = "write" /\ step' \in {"execute", "finish"} /\ stage' = stage
    BY <1>3 DEF read_and_execute, assembler
  <2> QED
    BY <2>1 DEF PipelineOK
<1>4. CASE run
  <2>1. step = "execute" /\ step' = step /\ stage' = stage
    BY <1>4 DEF run, assembler
  <2> QED
    BY <2>1 DEF PipelineOK
<1>5. CASE return
  <2>1. phase = "halted" /\ step' = "finish" /\ stage' = stage
    BY <1>5 DEF return, finish, assembler
  <2> QED
    BY <2>1 DEF PipelineOK
<1>6. CASE UNCHANGED allvars
  <2>1. Data' = Data
    BY <1>6 DEF allvars, assembler, Data
  <2>2. step' = step /\ stage' = stage /\ phase' = phase /\ file' = file
    BY <1>6 DEF allvars, vars, assembler
  <2> QED
    BY <2>1, <2>2 DEF PipelineOK
<1> QED
  BY <1>1, <1>2, <1>3, <1>4, <1>5, <1>6 DEF CompiledNext

LEMMA WrittenIsComplete ==
    ASSUME NEW out, Proved!IInv(out), PipelineOK
    PROVE  FileIsComplete
<1> SUFFICES ASSUME step = "write"
             PROVE  /\ File!read_rsbf(file) = [ec |-> "ok", data |-> Data]
                    /\ \A n \in 0 .. Len(file) - 1 : File!read_rsbf(SubSeq(file, 1, n)).ec = "reading_failure"
  BY DEF FileIsComplete
<1>1. stage = "done" /\ file = Files!write_rsbf(Data) /\ Files!Writable(Data)
  BY SameFiles DEF PipelineOK
<1>2. Data \in Files!DataType(Value)
  BY <1>1, AssembledIsData
<1>3. /\ Files!read_rsbf(file) = [ec |-> "ok", data |-> Data]
      /\ \A n \in 0 .. Len(file) - 1 : Files!read_rsbf(SubSeq(file, 1, n)).ec = "reading_failure"
  BY <1>1, <1>2, Files!FilesSurvive
<1> QED
  BY <1>3, SameFiles

\* Whatever is assembled, its sizes wrapped around or not: the file that is written reads
\* back as it, and any part of it that is cut off is missed.
THEOREM CompiledFiles == CompiledSpec => []FileIsComplete
<1>1. CompiledInit => Proved!IInv(Node) /\ PipelineOK
  BY AssemblerBegins DEF CompiledInit, Init, PipelineOK
<1>2. Proved!IInv(Node) /\ PipelineOK /\ [CompiledNext]_allvars => Proved!IInv(Node)' /\ PipelineOK'
  BY NodesAreKnown, AssemblerStays, PipelineStays
<1>3. Proved!IInv(Node) /\ PipelineOK => FileIsComplete
  BY WrittenIsComplete
<1> QED
  BY <1>1, <1>2, <1>3, PTL DEF CompiledSpec

-------------------------------------------------------------------------------
(***************************************************************************)
(* What is executed.  The virtual machine is that of VM, with any of the   *)
(* programs that it can be given.                                          *)
(***************************************************************************)
AllPrograms ==
    { p \in [inputs : Nat, outputs : Nat, immediates : Seq(Value), frames : Seq(Proved!FrameType)] :
        WellFormed(p) }

Machine == INSTANCE VMProofs WITH Programs <- AllPrograms, OutputSlots <- Nat

LEMMA SameMachine ==
    /\ Machine!Step <=> Step
    /\ Machine!finish <=> finish
    /\ Machine!Init <=> Init
    /\ \A p : Machine!WellFormed(p) <=> WellFormed(p)
    /\ \A p, in, slots : Machine!execute(p, in, slots) <=> execute(p, in, slots)
<1> USE DEF Exception, Machine!Exception, ArithmeticOps, Machine!ArithmeticOps, UpdateOps,
            Machine!UpdateOps, RelationalOps, Machine!RelationalOps, OpCode, Machine!OpCode,
            ReadsFirst, Machine!ReadsFirst, ReadsSecond, Machine!ReadsSecond, IsLocal,
            Machine!IsLocal, IsOperand, Machine!IsOperand, WellFormedInstruction,
            Machine!WellFormedInstruction, WellFormedFrame, Machine!WellFormedFrame, caller,
            Machine!caller, Address, Machine!Address, depth, Machine!depth, Frame, Machine!Frame,
            FrameSize, Machine!FrameSize, Instruction, Machine!Instruction, Cells, Machine!Cells,
            Fetch, Machine!Fetch, ValueA, Machine!ValueA, ValueB, Machine!ValueB, Divides,
            Machine!Divides, DividesByZero, Machine!DividesByZero, Touched, Machine!Touched,
            Dispatch, Machine!Dispatch, Advance, Machine!Advance, Result, Machine!Result, Raise,
            Machine!Raise, Throw, Machine!Throw, NoThrow, Machine!NoThrow, NoCall, Machine!NoCall,
            StackFull, Machine!StackFull, CalleeWindow, Machine!CalleeWindow, AtBeginningOfStack,
            Machine!AtBeginningOfStack, CallerWindow, Machine!CallerWindow, NoProgram,
            Machine!NoProgram, InitialMemory, Machine!InitialMemory
<1>1. Machine!handle_mov <=> handle_mov
  BY DEF Machine!handle_mov, handle_mov
<1>2. Machine!handle_arithmetic <=> handle_arithmetic
  BY DEF Machine!handle_arithmetic, handle_arithmetic
<1>3. Machine!handle_div <=> handle_div
  BY DEF Machine!handle_div, handle_div
<1>4. Machine!handle_mag <=> handle_mag
  BY DEF Machine!handle_mag, handle_mag
<1>5. Machine!handle_fac <=> handle_fac
  BY DEF Machine!handle_fac, handle_fac
<1>6. Machine!handle_update <=> handle_update
  BY DEF Machine!handle_update, handle_update
<1>7. Machine!handle_das <=> handle_das
  BY DEF Machine!handle_das, handle_das
<1>8. Machine!handle_compare <=> handle_compare
  BY DEF Machine!handle_compare, handle_compare
<1>9. Machine!handle_jpz <=> handle_jpz
  BY DEF Machine!handle_jpz, handle_jpz
<1>10. Machine!handle_jmp <=> handle_jmp
  BY DEF Machine!handle_jmp, handle_jmp
<1>11. Machine!handle_hlt <=> handle_hlt
  BY DEF Machine!handle_hlt, handle_hlt
<1>12. Machine!handle_put <=> handle_put
  BY DEF Machine!handle_put, handle_put
<1>13. Machine!handle_jsr <=> handle_jsr
  BY DEF Machine!handle_jsr, handle_jsr
<1>14. Machine!handle_ret <=> handle_ret
  BY DEF Machine!handle_ret, handle_ret
<1>15. Machine!touch_outside_memory <=> touch_outside_memory
  BY DEF Machine!touch_outside_memory, touch_outside_memory
<1>16. Machine!finish <=> finish
  BY DEF Machine!finish, finish
<1>17. Machine!Init <=> Init
  BY DEF Machine!Init, Init
<1>18. \A p : Machine!WellFormed(p) <=> WellFormed(p)
  BY DEF Machine!WellFormed, WellFormed
<1>19. \A p, in, slots : Machine!execute(p, in, slots) <=> execute(p, in, slots)
  BY DEF Machine!execute, execute
<1> HIDE DEF Exception, Machine!Exception, ArithmeticOps, Machine!ArithmeticOps, UpdateOps,
            Machine!UpdateOps, RelationalOps, Machine!RelationalOps, OpCode, Machine!OpCode,
            ReadsFirst, Machine!ReadsFirst, ReadsSecond, Machine!ReadsSecond, IsLocal,
            Machine!IsLocal, IsOperand, Machine!IsOperand, WellFormedInstruction,
            Machine!WellFormedInstruction, WellFormedFrame, Machine!WellFormedFrame, caller,
            Machine!caller, Address, Machine!Address, depth, Machine!depth, Frame, Machine!Frame,
            FrameSize, Machine!FrameSize, Instruction, Machine!Instruction, Cells, Machine!Cells,
            Fetch, Machine!Fetch, ValueA, Machine!ValueA, ValueB, Machine!ValueB, Divides,
            Machine!Divides, DividesByZero, Machine!DividesByZero, Touched, Machine!Touched,
            Dispatch, Machine!Dispatch, Advance, Machine!Advance, Result, Machine!Result, Raise,
            Machine!Raise, Throw, Machine!Throw, NoThrow, Machine!NoThrow, NoCall, Machine!NoCall,
            StackFull, Machine!StackFull, CalleeWindow, Machine!CalleeWindow, AtBeginningOfStack,
            Machine!AtBeginningOfStack, CallerWindow, Machine!CallerWindow, NoProgram,
            Machine!NoProgram, InitialMemory, Machine!InitialMemory
<1>20. Machine!Step <=> Step
  BY <1>1, <1>2, <1>3, <1>4, <1>5, <1>6, <1>7, <1>8, <1>9, <1>10, <1>11, <1>12, <1>13, <1>14, <1>15
     DEF Machine!Step, Step
<1> QED
  BY <1>16, <1>17, <1>18, <1>19, <1>20

LEMMA MachineAssumptions ==
    /\ Machine!SizeAssumption
    /\ Machine!ValueAssumption
    /\ Machine!CallerAssumption
    /\ Machine!ProgramAssumption
<1>1. Machine!SizeAssumption
  BY SizeAssumption DEF Machine!SizeAssumption
<1>2. Machine!ValueAssumption
  BY ValueAssumption DEF Machine!ValueAssumption, Machine!OpCode, OpCode, Machine!Exception, Exception,
     Machine!ArithmeticOps, ArithmeticOps, Machine!UpdateOps, UpdateOps, Machine!RelationalOps, RelationalOps
<1>3. Machine!CallerAssumption
  BY CallerAssumption DEF Machine!CallerAssumption
<1>4. Machine!ProgramAssumption
  BY SameMachine DEF Machine!ProgramAssumption, AllPrograms
<1> QED
  BY <1>1, <1>2, <1>3, <1>4

LEMMA AssembledIsKnown ==
    ASSUME NEW out, Proved!IInv(out), ~Proved!HasReturn(out), MaxFrame >= 256, stage = "done", ~wrapped
    PROVE  Data \in AllPrograms /\ Data.outputs \in Nat
<1>1. WellFormed(Data)
  BY AssembledIsWellFormed DEF EmitsWellFormed
<1>2. frames \in Seq(Proved!FrameType)
  BY SameAssumptions, Proved!DoneIs
<1>3. Data.inputs \in Nat /\ Data.outputs \in Nat /\ Data.immediates \in Seq(Value)
  BY <1>1 DEF WellFormed
<1>4. Data \in [inputs : Nat, outputs : Nat, immediates : Seq(Value), frames : Seq(Proved!FrameType)]
  BY <1>2, <1>3 DEF Data
<1> QED
  BY <1>1, <1>3, <1>4 DEF AllPrograms

\* Every step of the pipeline is one of the virtual machine, or leaves it alone.
LEMMA MachineSteps ==
    ASSUME NEW out, Proved!IInv(out), ~Proved!HasReturn(out), MaxFrame >= 256,
           PipelineOK, [CompiledNext]_allvars
    PROVE  [Machine!Next]_(Machine!vars)
<1>1. CASE read_and_execute /\ ~UNCHANGED vars
  <2> DEFINE read == File!read_rsbf(file)
  <2>1. step = "write" /\ ~wrapped /\ stage = "done" /\ phase = "idle"
    BY <1>1 DEF read_and_execute, PipelineOK
  <2>2. read = [ec |-> "ok", data |-> Data]
    BY <2>1, WrittenIsComplete DEF FileIsComplete
  <2>3. PICK in \in Inputs : execute(read.data, in, read.data.outputs)
    BY <1>1 DEF read_and_execute
  <2> HIDE DEF read
  <2>4. read.data = Data
    BY <2>2
  <2>5. Machine!execute(Data, in, Data.outputs)
    BY <2>3, <2>4, SameMachine
  <2>6. Machine!Call
    BY <2>1, <2>5, AssembledIsKnown DEF Machine!Call
  <2> QED
    BY <2>6 DEF Machine!Next
<1>2. CASE run
  BY <1>2, SameMachine DEF run, Machine!Next
<1>3. CASE return
  BY <1>3, SameMachine DEF return, Machine!Next
<1>4. CASE UNCHANGED vars
  BY <1>4 DEF vars, Machine!vars
<1> QED
  BY <1>1, <1>2, <1>3, <1>4 DEF CompiledNext, assemble, write, allvars

\* The pipeline implements VM: what runs is a virtual machine with well-formed programs.
THEOREM CompiledRuns ==
    ASSUME ReturnsAreInFunctions, MaxFrame >= 256
    PROVE  CompiledSpec => Machine!Init /\ [][Machine!Next]_(Machine!vars)
<1>1. PICK out \in SUBSET Node : Proved!OutAssumption(out) /\ ~Proved!HasReturn(out)
  BY DEF ReturnsAreInFunctions
<1>2. CompiledInit => Proved!IInv(out) /\ PipelineOK /\ Machine!Init
  BY AssemblerBegins, SameMachine DEF CompiledInit, Init, PipelineOK
<1>3. Proved!IInv(out) /\ PipelineOK /\ [CompiledNext]_allvars => Proved!IInv(out)' /\ PipelineOK'
  BY <1>1, AssemblerStays, PipelineStays
<1>4. Proved!IInv(out) /\ PipelineOK /\ [CompiledNext]_allvars
        => [Machine!Next]_(Machine!vars)
  BY <1>1, MachineSteps
<1> QED
  BY <1>2, <1>3, <1>4, PTL DEF CompiledSpec

\* However compiled scripts recurse and whatever they put: the frames of calls nest, an
\* execution ends where it has begun, the limits are where they are reported and the
\* outermost frame is never left.
THEOREM CompiledNests ==
    ASSUME ReturnsAreInFunctions, MaxFrame >= 256
    PROVE  CompiledSpec => [](CallsNest /\ HaltsOutermost /\ LimitsReported /\ NoUnderflow)
<1>1. Machine!Init => Machine!IInv
  BY MachineAssumptions, Machine!InitEstablishes
<1>2. Machine!IInv /\ [Machine!Next]_(Machine!vars) => Machine!IInv'
  BY MachineAssumptions, Machine!NextPreserves
<1>3. Machine!IInv => CallsNest /\ HaltsOutermost /\ LimitsReported /\ NoUnderflow
  BY DEF Machine!IInv, Machine!CallsNest, CallsNest, Machine!HaltsOutermost, HaltsOutermost,
     Machine!LimitsReported, LimitsReported, Machine!NoUnderflow, NoUnderflow, Machine!depth, depth,
     Machine!Frame, Frame
<1>4. CompiledSpec => Machine!Init /\ [][Machine!Next]_(Machine!vars)
  BY CompiledRuns
<1> QED
  BY <1>1, <1>2, <1>3, <1>4, PTL

\* However compiled scripts recurse: none touches memory that is not its own before its
\* calls are so deep that one frame more might not fit.
THEOREM CompiledStaysInMemory ==
    ASSUME ReturnsAreInFunctions, MaxFrame >= 256
    PROVE  CompiledSpec => []LeavesMemoryWhenFull
<1>1. Machine!Init => Machine!IInv
  BY MachineAssumptions, Machine!InitEstablishes
<1>2. Machine!IInv /\ [Machine!Next]_(Machine!vars) => Machine!IInv'
  BY MachineAssumptions, Machine!NextPreserves
<1>3. Machine!Init => Machine!RoomInv
  BY DEF Machine!Init, Machine!RoomInv, Machine!LeavesMemoryWhenFull, Machine!StaysInMemory
<1>4. Machine!IInv /\ Machine!RoomInv /\ [Machine!Next]_(Machine!vars) => Machine!RoomInv'
  BY MachineAssumptions, Machine!RoomPreserved
<1>5. Machine!RoomInv => LeavesMemoryWhenFull
  BY DEF Machine!RoomInv, Machine!LeavesMemoryWhenFull, LeavesMemoryWhenFull, Machine!StaysInMemory,
     StaysInMemory, Machine!HasRoom, HasRoom, Machine!FitsIn, FitsIn, Machine!depth, depth
<1>6. CompiledSpec => Machine!Init /\ [][Machine!Next]_(Machine!vars)
  BY CompiledRuns
<1> QED
  BY <1>1, <1>2, <1>3, <1>4, <1>5, <1>6, PTL

\* The sizes execute has by default (VM.h): a script none of whose frames has more than
\* 7 cells never touches memory that is not its own, however deep it recurses.
THEOREM ShippedSizes ==
    ASSUME ReturnsAreInFunctions, MaxFrame >= 256, StackSize = 128, MemSize = 1024
    PROVE  CompiledSpec => [](FitsIn(prog, 7) => StaysInMemory)
<1>1. Machine!Init => Machine!IInv
  BY MachineAssumptions, Machine!InitEstablishes
<1>2. Machine!IInv /\ [Machine!Next]_(Machine!vars) => Machine!IInv'
  BY MachineAssumptions, Machine!NextPreserves
<1>3. CompiledSpec => Machine!Init /\ [][Machine!Next]_(Machine!vars)
  BY CompiledRuns
<1>4. ASSUME Machine!IInv, LimitsReported, LeavesMemoryWhenFull, FitsIn(prog, 7)
      PROVE  StaysInMemory
  <2>1. depth \in Nat /\ depth =< 128
    BY <1>4 DEF Machine!IInv, Machine!TypeOK, LimitsReported, depth
  <2>2. (depth + 1) * 7 =< MemSize /\ 7 \in 1 .. MaxFrame
    BY <2>1, SizeAssumption
  <2> QED
    BY <1>4, <2>2 DEF LeavesMemoryWhenFull, HasRoom
<1> QED
  BY <1>1, <1>2, <1>3, <1>4, CompiledNests, CompiledStaysInMemory, PTL
===============================================================================
