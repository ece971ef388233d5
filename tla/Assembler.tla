------------------------------- MODULE Assembler -------------------------------
(***************************************************************************)
(* The assembler of RaychelScript (Assembler/src/Assembler.cpp): it turns  *)
(* an AST into call frames of instructions for the virtual machine, by     *)
(* recursive descent, one handler per kind of node.                        *)
(*                                                                         *)
(* As in Interpreter, the C++ call stack is the sequence control.  A       *)
(* handler returns an index, where the value of an expression will be, or  *)
(* NoIndex with the code ok, the result of a statement.  An expression is  *)
(* left in a variable, an immediate or cell 0, the volatile register A;    *)
(* what must survive is moved to an intermediate, a cell of the frame that *)
(* the scope it was allocated in hands out again once it is free.          *)
(*                                                                         *)
(* current_frame_ is the last frame whenever something is emitted.         *)
(***************************************************************************)
EXTENDS AST

CONSTANT MinusOne       \* -1.0

-------------------------------------------------------------------------------
(***************************************************************************)
(* Memory indices and instructions.                                        *)
(***************************************************************************)
Byte == 256

Index(type, value)     == [type |-> type, value |-> value]
Instruction(op, a, b)  == [op |-> op, a |-> a, b |-> b]

NoIndex == Index("none", 0)
a_index == Index("stack", 0)

\* What make_memory_index asserts: every index is a byte, the offset of a jump a signed one.
InRange(i) == IF i.type = "jump_offset" THEN i.value \in -(Byte \div 2) .. Byte \div 2 - 1
              ELSE i.value \in 0 .. Byte - 1

\* The instruction that each operation is assembled to.
OperationCode ==
    [add |-> "add", subtract |-> "sub", multiply |-> "mul", divide |-> "div", power |-> "pow"]
UpdateCode ==
    [add |-> "inc", subtract |-> "dec", multiply |-> "mas", divide |-> "das", power |-> "pas"]
RelationCode ==
    [equals |-> "ceq", not_equals |-> "cne", less_than |-> "clt", greater_than |-> "cgt"]
-------------------------------------------------------------------------------
VARIABLES
    stage,          \* "starting", "running", "done", "failed", or "asserted": an index is too large
    ast,            \* the program
    control,        \* the running handlers, the innermost last
    index,          \* what the last handler has returned
    frames,         \* VMData: the call frames [size, code],
    immediates,     \*   the immediate values
    scopes,         \* the scopes [inherits, free, table], the innermost last
    marked,         \* the functions called so far, in the order in which they were marked
    pending,        \* how many of them, the last ones, are still to be assembled
    ec,             \* what assemble returns
    wrapped         \* history: the size of a frame has exceeded its byte

context == <<frames, immediates, scopes, wrapped>>
called  == <<marked, pending>>
vars    == <<stage, ast, control, index, context, called, ec>>

AssemblerErrorCode == {"ok", "duplicate_name", "unresolved_identifier"}

(***************************************************************************)
(* AssemblingContext.                                                      *)
(***************************************************************************)
NoNames == [n \in {} |-> NoIndex]

Scope(inherits, table) == [inherits |-> inherits, free |-> << >>, table |-> table]

Current == Len(frames)
Code    == frames[Current].code

\* The position of the next instruction, from 0.
Here == Len(Code)

\* mutant of Visible: a function sees the scopes below its own
Visible_all(s) == s \in 1 .. Len(scopes)

Visible(s) == \A t \in s + 1 .. Len(scopes) : scopes[t].inherits
Binds(s, name) == s \in 1 .. Len(scopes) /\ Visible(s) /\ name \in DOMAIN scopes[s].table

has_identifier(name) == \E s \in 1 .. Len(scopes) : Binds(s, name)
find_identifier(name) ==
    LET s == CHOOSE s \in 1 .. Len(scopes) :
                 Binds(s, name) /\ \A t \in s + 1 .. Len(scopes) : ~Binds(t, name)
    IN  scopes[s].table[name]

Emitted(code)    == [frames EXCEPT ![Current].code = @ \o code]
emit(op, a, b)   == frames' = Emitted(<<Instruction(op, a, b)>>)

\* _new_index: the size of a frame is a byte too.
NextSize  == (frames[Current].size + 1) % Byte
Wrapped   == wrapped \/ NextSize = 0
NewIndex(type) == Index(type, frames[Current].size)

push_scope(inherits) == scopes' = Append(scopes, Scope(inherits, NoNames))
pop_scope            == scopes' = SubSeq(scopes, 1, Len(scopes) - 1)

\* free_intermediate
Freed(i) == IF i.type = "intermediate" THEN [scopes EXCEPT ![Len(scopes)].free = Append(@, i)] ELSE scopes

(***************************************************************************)
(* Control.                                                                *)
(***************************************************************************)
Handler(n) == [node |-> n, at |-> "start", rest |-> << >>, indices |-> << >>, jumps |-> << >>]

top     == control[Len(control)]
node    == top.node
Callers == SubSeq(control, 1, Len(control) - 1)

At(types, label) == /\ stage = "running"
                    /\ control # << >>
                    /\ node.type \in types
                    /\ top.at = label

Become(frame)      == control' = Append(Callers, frame)
Assemble(n, frame) == control' = Append(Append(Callers, frame), Handler(n))
Return(i)          == control' = Callers /\ index' = i

\* Whoever gets an error returns it.
Fail(code) == stage' = "failed" /\ ec' = code

Stays   == UNCHANGED <<stage, ast, called, ec>>
Silent  == UNCHANGED context

(***************************************************************************)
(* Expressions.  TRY: a handler that needs an index and is given the code  *)
(* ok returns that code, and emits nothing more.                           *)
(***************************************************************************)
Operators == {"assignment", "arithmetic_operator", "update_expression", "relational_operator"}

give_up ==
    /\ At(Operators \cup {"unary_operator", "function_call", "function_return"}, top.at)
    /\ top.at \in {"rhs", "lhs", "operand", "argument", "value"}
    /\ index = NoIndex
    /\ Return(NoIndex)
    /\ Silent /\ Stays

Given(types, label) == At(types, label) /\ index # NoIndex

assemble_rhs ==
    /\ At(Operators, "start")
    /\ Assemble(node.rhs, [top EXCEPT !.at = "rhs"])
    /\ UNCHANGED index /\ Silent /\ Stays

\* mutant of allocate_intermediate: a free intermediate stays in the queue
allocate_intermediate_again ==
    LET free == scopes[Len(scopes)].free
    IN  IF free = << >>
          THEN [index |-> NewIndex("intermediate"), size |-> NextSize, wrapped |-> Wrapped, scopes |-> scopes]
          ELSE [index |-> Head(free), size |-> frames[Current].size, wrapped |-> wrapped, scopes |-> scopes]

\* The first free intermediate of the scope, or a new cell.
allocate_intermediate ==
    LET free == scopes[Len(scopes)].free
    IN  IF free = << >>
          THEN [index |-> NewIndex("intermediate"), size |-> NextSize, wrapped |-> Wrapped, scopes |-> scopes]
          ELSE [index |-> Head(free), size |-> frames[Current].size, wrapped |-> wrapped,
                scopes |-> [scopes EXCEPT ![Len(scopes)].free = Tail(@)]]

\* A is moved to an intermediate.
SaveA ==
    LET saved == allocate_intermediate
    IN  /\ frames' = [Emitted(<<Instruction("mov", a_index, saved.index)>>)
                         EXCEPT ![Current].size = saved.size]
        /\ scopes' = saved.scopes
        /\ wrapped' = saved.wrapped

\* mutant of MustSave: the register is not saved
MustSave_never(i) == FALSE

MustSave(i) == i = a_index

assemble_lhs ==
    /\ Given(Operators, "rhs")
    /\ IF node.type = "arithmetic_operator" /\ MustSave(index)
         THEN /\ SaveA
              /\ Assemble(node.lhs, [top EXCEPT !.at = "lhs", !.indices = <<allocate_intermediate.index>>])
         ELSE /\ Assemble(node.lhs, [top EXCEPT !.at = "lhs", !.indices = <<index>>])
              /\ UNCHANGED <<frames, scopes, wrapped>>
    /\ UNCHANGED <<index, immediates>> /\ Stays

rhs_index == top.indices[1]

assemble_assignment ==
    /\ Given({"assignment"}, "lhs")
    /\ IF rhs_index # index THEN emit("mov", rhs_index, index) ELSE UNCHANGED frames
    /\ Return(NoIndex)
    /\ UNCHANGED <<immediates, scopes, wrapped>> /\ Stays

assemble_arithmetic ==
    /\ Given({"arithmetic_operator"}, "lhs")
    /\ emit(OperationCode[node.op], index, rhs_index)
    /\ scopes' = Freed(rhs_index)
    /\ Return(a_index)
    /\ UNCHANGED <<immediates, wrapped>> /\ Stays

assemble_update ==
    /\ Given({"update_expression"}, "lhs")
    /\ emit(UpdateCode[node.op], index, rhs_index)
    /\ Return(NoIndex)
    /\ UNCHANGED <<immediates, scopes, wrapped>> /\ Stays

assemble_relational ==
    /\ Given({"relational_operator"}, "lhs")
    /\ emit(RelationCode[node.op], index, rhs_index)
    /\ Return(NoIndex)
    /\ UNCHANGED <<immediates, scopes, wrapped>> /\ Stays

assemble_declaration ==
    /\ At({"variable_decl"}, "start")
    /\ IF has_identifier(node.name)
         THEN Fail("duplicate_name") /\ Silent /\ UNCHANGED <<control, index>>
         ELSE /\ scopes' = [scopes EXCEPT ![Len(scopes)].table =
                               [n \in DOMAIN @ \cup {node.name} |->
                                   IF n = node.name THEN NewIndex("stack") ELSE @[n]]]
              /\ frames' = [frames EXCEPT ![Current].size = NextSize]
              /\ wrapped' = Wrapped
              /\ Return(NewIndex("stack"))
              /\ UNCHANGED <<immediates, stage, ec>>
    /\ UNCHANGED <<ast, called>>

assemble_reference ==
    /\ At({"variable_ref"}, "start")
    /\ IF has_identifier(node.name)
         THEN Return(find_identifier(node.name)) /\ UNCHANGED <<stage, ec>>
         ELSE Fail("unresolved_identifier") /\ UNCHANGED <<control, index>>
    /\ Silent /\ UNCHANGED <<ast, called>>

\* allocate_immediate: the vector with v in it, and the index of v there
WithImmediate(v) ==
    IF \E k \in DOMAIN immediates : immediates[k] = v THEN immediates ELSE Append(immediates, v)
ImmediateIndex(v) ==
    LET all == WithImmediate(v)
    IN  Index("immediate", (CHOOSE k \in DOMAIN all : all[k] = v /\ \A j \in 1 .. k - 1 : all[j] # v) - 1)

\* mutant of Asserting: the assertion is compiled out
Asserting_never(is) == FALSE

\* The assertion of make_memory_index, which stops the process.
Asserting(is) == \E i \in is : ~InRange(i)
Assert        == stage' = "asserted" /\ UNCHANGED <<control, index, ec>> /\ Silent

assemble_constant ==
    /\ At({"numeric_constant"}, "start")
    /\ IF Asserting({ImmediateIndex(node.value)})
         THEN Assert
         ELSE /\ immediates' = WithImmediate(node.value)
              /\ Return(ImmediateIndex(node.value))
              /\ UNCHANGED <<frames, scopes, wrapped, stage, ec>>
    /\ UNCHANGED <<ast, called>>

assemble_unary ==
    \/ /\ At({"unary_operator"}, "start")
       /\ Assemble(node.operand, [top EXCEPT !.at = "operand"])
       /\ UNCHANGED index /\ Silent /\ Stays
    \/ /\ Given({"unary_operator"}, "operand")
       /\ IF node.op = "minus" /\ Asserting({ImmediateIndex(MinusOne)})
            THEN Assert
            ELSE /\ CASE node.op = "minus" ->
                           /\ emit("mul", index, ImmediateIndex(MinusOne))
                           /\ immediates' = WithImmediate(MinusOne)
                      [] node.op = "plus"      -> UNCHANGED <<frames, immediates>>
                      [] node.op = "factorial" -> emit("fac", index, NoIndex) /\ UNCHANGED immediates
                      [] node.op = "magnitude" -> emit("mag", index, NoIndex) /\ UNCHANGED immediates
                 /\ Return(IF node.op = "plus" THEN index ELSE a_index)
                 /\ UNCHANGED <<scopes, wrapped, stage, ec>>
       /\ UNCHANGED <<ast, called>>

(***************************************************************************)
(* Constructs.  A jump is emitted without its offset, which is put in when *)
(* the position it goes to is known.                                       *)
(***************************************************************************)
make_jump_offset(jump, destination) == Index("jump_offset", destination - jump)

Constructs == {"conditional_construct", "loop"}

\* code with the jump at position jump, from 0, going to destination
Patched(code, jump, destination) ==
    [code EXCEPT ![jump + 1].a = make_jump_offset(jump, destination)]

assemble_condition ==
    /\ At(Constructs, "start")
    /\ Assemble(node.condition, [top EXCEPT !.at = "condition", !.jumps = <<Here>>])
    /\ UNCHANGED index /\ Silent /\ Stays

\* jumps: where the condition begins, and the jump past the body
enter_body ==
    /\ At(Constructs, "condition")
    /\ emit("jpz", NoIndex, NoIndex)
    /\ push_scope(TRUE)
    /\ Become([top EXCEPT !.at = "body", !.rest = node.body, !.jumps = Append(@, Here)])
    /\ UNCHANGED <<index, immediates, wrapped>> /\ Stays

\* The next node of a body, of the program or of a function.
assemble_statement ==
    /\ At(Constructs \cup {"program"}, top.at)
    /\ top.at \in {"body", "else"}
    /\ top.rest # << >>
    /\ Assemble(Head(top.rest), [top EXCEPT !.rest = Tail(@)])
    /\ UNCHANGED index /\ Silent /\ Stays

OuterScopes == SubSeq(scopes, 1, Len(scopes) - 1)

\* The end of a body: the last of the construct's jumps goes to what follows the code
\* that is added here.
LeaveBody(added, offsets, scopes_, control_) ==
    LET code == Code \o added
        jump == top.jumps[Len(top.jumps)]
    IN  /\ top.rest = << >>
        /\ IF Asserting(offsets \cup {make_jump_offset(jump, Len(code))})
             THEN Assert
             ELSE /\ frames' = [frames EXCEPT ![Current].code = Patched(code, jump, Len(code))]
                  /\ scopes' = scopes_
                  /\ control' = control_
                  /\ index' = NoIndex
                  /\ UNCHANGED <<immediates, wrapped, stage, ec>>
        /\ UNCHANGED <<ast, called>>

HasElse == node.type = "conditional_construct" /\ node.else_body # << >>

assemble_conditional ==
    \/ /\ At({"conditional_construct"}, "body") /\ HasElse
       /\ LeaveBody(<<Instruction("jmp", NoIndex, NoIndex)>>, {},
                    Append(OuterScopes, Scope(TRUE, NoNames)),
                    Append(Callers, [top EXCEPT !.at = "else", !.rest = node.else_body,
                                                !.jumps = Append(@, Here)]))
    \/ /\ At({"conditional_construct"}, "body") /\ ~HasElse
       /\ LeaveBody(<< >>, {}, OuterScopes, Callers)
    \/ /\ At({"conditional_construct"}, "else")
       /\ LeaveBody(<< >>, {}, OuterScopes, Callers)

assemble_loop ==
    /\ At({"loop"}, "body")
    /\ LET back == make_jump_offset(Here, top.jumps[1])
       IN  LeaveBody(<<Instruction("jmp", back, NoIndex)>>, {back}, OuterScopes, Callers)

(***************************************************************************)
(* Functions.                                                              *)
(***************************************************************************)
\* mark_function: the functions that have been called, this one included
Marked(name) == IF \E k \in DOMAIN marked : marked[k] = name THEN marked ELSE Append(marked, name)

\* mutant of find_function: the position is taken for the index
find_function_early(name) == (CHOOSE k \in DOMAIN Marked(name) : Marked(name)[k] = name) - 1

\* The first frame is the program's, hence frames and positions from 1 agree with indices from 0.
find_function(name) == CHOOSE k \in DOMAIN Marked(name) : Marked(name)[k] = name

assemble_call ==
    \/ /\ At({"function_call"}, "start")
       /\ IF node.callee \notin DOMAIN ast.functions
            THEN Fail("unresolved_identifier") /\ UNCHANGED <<control, index, called>>
          ELSE IF Asserting({Index("immediate", find_function(node.callee))})
            THEN Assert /\ UNCHANGED called
            ELSE /\ marked' = Marked(node.callee)
                 /\ pending' = pending + Len(marked') - Len(marked)
                 /\ Become([top EXCEPT !.at = "arguments", !.rest = node.arguments])
                 /\ UNCHANGED <<index, stage, ec>>
       /\ Silent /\ UNCHANGED ast
    \/ /\ At({"function_call"}, "arguments") /\ top.rest # << >>
       /\ Assemble(Head(top.rest), [top EXCEPT !.at = "argument", !.rest = Tail(@)])
       /\ UNCHANGED index /\ Silent /\ Stays
    \/ /\ Given({"function_call"}, "argument")      \* the last argument may stay in A
       /\ LET keep(i) == Become([top EXCEPT !.at = "arguments", !.indices = Append(@, i)])
          IN  IF MustSave(index) /\ top.rest # << >>
                THEN SaveA /\ keep(allocate_intermediate.index)
                ELSE keep(index) /\ UNCHANGED <<frames, scopes, wrapped>>
       /\ UNCHANGED <<index, immediates>> /\ Stays
    \/ /\ At({"function_call"}, "arguments") /\ top.rest = << >> /\ top.indices # << >>
       /\ LET argument == Index("stack", Len(node.arguments) - Len(top.indices) + 1)
          IN  IF Asserting({argument})
                THEN Assert
                ELSE /\ emit("put", Head(top.indices), argument)
                     /\ scopes' = Freed(Head(top.indices))
                     /\ Become([top EXCEPT !.indices = Tail(@)])
                     /\ UNCHANGED <<index, immediates, wrapped, stage, ec>>
       /\ UNCHANGED <<ast, called>>
    \/ /\ At({"function_call"}, "arguments") /\ top.rest = << >> /\ top.indices = << >>
       /\ emit("jsr", Index("immediate", find_function(node.callee)), NoIndex)
       /\ Return(a_index)
       /\ UNCHANGED <<immediates, scopes, wrapped>> /\ Stays

assemble_return ==
    \/ /\ At({"function_return"}, "start")
       /\ Assemble(node.return_value, [top EXCEPT !.at = "value"])
       /\ UNCHANGED index /\ Silent /\ Stays
    \/ /\ Given({"function_return"}, "value")
       /\ LET move == IF index = a_index THEN << >> ELSE <<Instruction("mov", index, a_index)>>
          IN  frames' = Emitted(Append(move, Instruction("ret", NoIndex, NoIndex)))
       /\ Return(NoIndex)
       /\ UNCHANGED <<immediates, scopes, wrapped>> /\ Stays

(***************************************************************************)
(* assemble.  The program, then the functions in the order in which they   *)
(* have been marked, among them those that functions have called.          *)
(***************************************************************************)
TopLevel(nodes) == [Handler([type |-> "program"]) EXCEPT !.at = "body", !.rest = nodes]

Repeated(names) == \E j, k \in DOMAIN names : j < k /\ names[j] = names[k]

\* A new frame and a scope that does not inherit, with variables of the given names in
\* them: cell 0 is A, the variables follow.
Begin(names, body, scopes_) ==
    LET table == [n \in { names[k] : k \in DOMAIN names } |->
                     Index("stack", (CHOOSE k \in DOMAIN names : names[k] = n) % Byte)]
    IN  IF Repeated(names)
          THEN Fail("duplicate_name") /\ UNCHANGED <<control, index>> /\ Silent
          ELSE /\ stage' = "running"
               /\ frames' = Append(frames, [size |-> (1 + Len(names)) % Byte, code |-> << >>])
               /\ scopes' = Append(scopes_, Scope(FALSE, table))
               /\ wrapped' = (wrapped \/ Len(names) >= Byte - 1)
               /\ control' = <<TopLevel(body)>>
               /\ UNCHANGED <<immediates, index, ec>>

Init ==
    /\ stage = "starting"
    /\ ast \in Programs
    /\ control = << >>
    /\ index = NoIndex
    /\ frames = << >>
    /\ immediates = << >>
    /\ scopes = << >>
    /\ marked = << >>
    /\ pending = 0
    /\ ec = "ok"
    /\ wrapped = FALSE

declare_variables ==
    /\ stage = "starting"
    /\ Begin(ast.inputs \o ast.outputs, ast.nodes, << >>)
    /\ UNCHANGED <<ast, called>>

\* The end of the program or of a function: hlt, or the function's scope is popped.
finish_frame ==
    /\ At({"program"}, "body")
    /\ top.rest = << >>
    /\ IF Current = 1
         THEN emit("hlt", NoIndex, NoIndex) /\ UNCHANGED scopes
         ELSE pop_scope /\ UNCHANGED frames
    /\ control' = << >>
    /\ UNCHANGED <<index, immediates, wrapped>> /\ Stays

next_marked_function == marked[Len(marked) - pending + 1]

assemble_function ==
    /\ stage = "running" /\ control = << >> /\ pending > 0
    /\ pending' = pending - 1
    /\ LET function == ast.functions[next_marked_function]
       IN  Begin(function.arguments, function.body, scopes)
    /\ UNCHANGED <<ast, marked>>

finish_assembly ==
    /\ stage = "running" /\ control = << >> /\ pending = 0
    /\ stage' = "done"
    /\ UNCHANGED <<control, index, ast, called, ec>> /\ Silent

Next ==
    \/ declare_variables    \/ assemble_statement \/ finish_frame       \/ assemble_function
    \/ finish_assembly      \/ give_up            \/ assemble_rhs       \/ assemble_lhs
    \/ assemble_assignment  \/ assemble_arithmetic \/ assemble_update   \/ assemble_relational
    \/ assemble_declaration \/ assemble_reference \/ assemble_constant  \/ assemble_unary
    \/ assemble_condition   \/ enter_body         \/ assemble_conditional \/ assemble_loop
    \/ assemble_call        \/ assemble_return

\* The thread that has called assemble keeps executing.
Spec == Init /\ [][Next]_vars /\ WF_vars(Next)

-------------------------------------------------------------------------------
(***************************************************************************)
(* Properties.                                                             *)
(***************************************************************************)
IndexType   == {"none", "immediate", "stack", "intermediate", "jump_offset"}
MemoryIndex == [type : IndexType, value : Int]
IsIndex(i)  == i \in MemoryIndex /\ InRange(i)

IsFrame(f) == /\ f = [size |-> f.size, code |-> f.code]
              /\ f.size \in 0 .. Byte - 1
              /\ f.code = SubSeq(f.code, 1, Len(f.code))
              /\ \A k \in DOMAIN f.code : IsIndex(f.code[k].a) /\ IsIndex(f.code[k].b)
IsScope(s) == /\ s = [inherits |-> s.inherits, free |-> s.free, table |-> s.table]
              /\ s.inherits \in BOOLEAN
              /\ \A k \in DOMAIN s.free : IsIndex(s.free[k]) /\ s.free[k].type = "intermediate"
              /\ DOMAIN s.table \subseteq Name
              /\ \A n \in DOMAIN s.table : IsIndex(s.table[n]) /\ s.table[n].type = "stack"
IsHandler(h) == /\ h = [node |-> h.node, at |-> h.at, rest |-> h.rest, indices |-> h.indices,
                        jumps |-> h.jumps]
                /\ h.rest \in Seq(Node)
                /\ \A k \in DOMAIN h.indices : IsIndex(h.indices[k])
                /\ \A k \in DOMAIN h.jumps : h.jumps[k] \in 0 .. Here

\* The number of bodies that are being assembled, each of which has pushed a scope.
Bodies == { c \in DOMAIN control : control[c].node.type \in Constructs /\ control[c].at \in {"body", "else"} }

\* Every variable has its type; no index is out of range, not even one that is only
\* made; there is a scope for every body that is being assembled, one for its function
\* and, below a function, the program's; no function is marked twice.
TypeOK ==
    /\ stage \in {"starting", "running", "done", "failed", "asserted"}
    /\ control = SubSeq(control, 1, Len(control))
    /\ \A c \in DOMAIN control : IsHandler(control[c])
    /\ IsIndex(index)
    /\ \A f \in DOMAIN frames : IsFrame(frames[f])
    /\ immediates \in Seq(Value) /\ Len(immediates) =< Byte
    /\ \A s \in DOMAIN scopes : IsScope(scopes[s])
    /\ marked \in Seq(FunctionName) /\ ~Repeated(marked)
    /\ pending \in 0 .. Len(marked)
    /\ ec \in AssemblerErrorCode /\ (ec # "ok" <=> stage = "failed")
    /\ stage = "running" /\ control # << >> =>
         Len(scopes) = Cardinality(Bodies) + IF Current = 1 THEN 1 ELSE 2

\* No cell has two uses as long as no frame has given out its 256th cell, with which the
\* size wraps: whatever has been nested, saved, freed and allocated again, a variable of
\* the frame, an intermediate that is free and one that holds a value an enclosing
\* expression still needs are different cells of the frame, and none is A.
CellsAreDisjoint ==
    LET own   == { s \in DOMAIN scopes : Visible(s) }
        named == { b \in own \X Name : b[2] \in DOMAIN scopes[b[1]].table }
        free  == UNION { {s} \X DOMAIN scopes[s].free : s \in own }
        held  == { h \in UNION { {c} \X DOMAIN control[c].indices : c \in DOMAIN control } :
                     control[h[1]].indices[h[2]].type = "intermediate" }
        cells == { scopes[b[1]].table[b[2]].value : b \in named } \cup
                 { scopes[b[1]].free[b[2]].value : b \in free } \cup
                 { control[h[1]].indices[h[2]].value : h \in held }
    IN  stage = "running" /\ control # << >> /\ ~wrapped =>
          /\ cells \subseteq 1 .. frames[Current].size - 1
          /\ Cardinality(cells) = Cardinality(named) + Cardinality(free) + Cardinality(held)

\* Assembler.cpp: "the A register is volatile and can be overriden by LHS".  No instruction
\* that leaves its result in A is emitted while a handler waits with a value in A.
WritesA(op) == op \in {"add", "sub", "mul", "div", "pow", "mag", "fac", "jsr"}
HoldsA(h)   == \E k \in DOMAIN h.indices : h.indices[k] = a_index
RegisterIsNotOverridden ==
    [][(Len(frames') = Current /\ Len(frames'[Current].code) > Here
          /\ WritesA(frames'[Current].code[Len(frames'[Current].code)].op))
         => \A c \in DOMAIN control' : ~HoldsA(control'[c])]_vars
===============================================================================
