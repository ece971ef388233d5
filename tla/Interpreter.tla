------------------------------ MODULE Interpreter ------------------------------
(***************************************************************************)
(* The interpreter of RaychelScript (Interpreter/src/Interpreter.cpp): it  *)
(* executes an AST by recursive descent, one handler per kind of node.     *)
(*                                                                         *)
(* The C++ call stack is the sequence control: each frame is a running     *)
(* handler, the node it was called with and the place in it that a nested  *)
(* execute_node returns to.  A step runs one handler from one call of      *)
(* execute_node to the next.  Names are bound in a stack of scopes; a      *)
(* binding is an index into the vector of constants or of variables, both  *)
(* of which shrink when a scope is popped.  Indices count from 1 here.     *)
(***************************************************************************)
EXTENDS AST

CONSTANT NoValue       \* the empty std::optional<double>

ASSUME NoValueAssumption == NoValue \notin Value
-------------------------------------------------------------------------------
VARIABLES
    phase,              \* "starting", "running", "done", "failed", or "crashed": undefined behaviour
    ast,                \* the program
    parameters,         \* the values of its inputs
    control,            \* the running handlers, the innermost last
    constants,          \* State: the values of the constants, NoValue before initialization,
    variables,          \*   the values of the variables,
    scopes,             \*   the scopes, the innermost last,
    result,             \*   the registers
    flags,
    current_descriptor, \*   the binding that an assignment goes to,
    load_references,    \*   whether a reference is to be read or assigned to
    error,              \* what the handlers return
    saved               \* history: what each running function's caller had when it called

store     == <<constants, variables, scopes>>
registers == <<result, flags>>
reference == <<current_descriptor, load_references>>
program   == <<ast, parameters>>
vars      == <<phase, program, control, store, registers, reference, error, saved>>

StateFlags == {"zero", "negative", "condition_was_true", "return_from_function"}
ErrorCode  == {"ok", "no_input", "not_enough_input_identifiers", "invalid_input_identifier",
               "divide_by_zero", "constant_reassign", "invalid_argument", "duplicate_name",
               "unresolved_identifier"}

(***************************************************************************)
(* Scopes.  A name is visible up to and including the innermost scope that *)
(* does not inherit from its parent.                                       *)
(***************************************************************************)
NoDescriptor == [index |-> 0, is_constant |-> FALSE]
NoNames      == [n \in {} |-> NoDescriptor]

Scope(inherits, table) == [inherits |-> inherits, table |-> table]

Innermost  == scopes[Len(scopes)]
\* mutant of Visible: the traversal does not stop at a scope that does not inherit
Visible_all(s) == s \in 1 .. Len(scopes)

Visible(s) == \A t \in s + 1 .. Len(scopes) : scopes[t].inherits
Binds(s, name) == s \in 1 .. Len(scopes) /\ Visible(s) /\ name \in DOMAIN scopes[s].table

has_identifier(name) == \E s \in 1 .. Len(scopes) : Binds(s, name)
find_identifier(name) ==
    LET s == CHOOSE s \in 1 .. Len(scopes) :
                 Binds(s, name) /\ \A t \in s + 1 .. Len(scopes) : ~Binds(t, name)
    IN  scopes[s].table[name]

\* lookup_table.insert does not replace a binding.
Bind(name, d) ==
    LET table == Innermost.table
    IN  scopes' = [scopes EXCEPT ![Len(scopes)].table =
                      IF name \in DOMAIN table THEN table
                      ELSE [n \in DOMAIN table \cup {name} |-> IF n = name THEN d ELSE table[n]]]

get_descriptor_value(d) ==
    IF ~d.is_constant THEN variables[d.index]
    ELSE IF constants[d.index] = NoValue THEN Zero ELSE constants[d.index]

\* set_status_registers
Status(v) == { f \in {"zero"} : v = Zero } \cup
             { f \in {"negative"} : Compare("less_than", v, Zero) }

SetResult(v) == result' = v /\ flags' = Status(v)

(***************************************************************************)
(* Control.                                                                *)
(***************************************************************************)
Frame(n) == [node |-> n, at |-> "start", rest |-> << >>, values |-> << >>, scoped |-> FALSE]

top  == control[Len(control)]
node == top.node

\* The frames below the innermost one.
Callers == SubSeq(control, 1, Len(control) - 1)

At(types, label) == /\ phase = "running" /\ error = "ok"
                    /\ control # << >>
                    /\ node.type \in types
                    /\ top.at = label

Become(frame) == control' = Append(Callers, frame)

\* mutant of Execute: nodes are executed after a return
Execute_always(n, frame) == control' = Append(Append(Callers, frame), Frame(n))

\* execute_node: nothing is executed on the way out of a function.
Execute(n, frame) ==
    control' = IF "return_from_function" \in flags
                 THEN Append(Callers, frame)
                 ELSE Append(Append(Callers, frame), Frame(n))

Return     == control' = Callers /\ UNCHANGED error
Fail(code) == error' = code /\ UNCHANGED control

Load(b) == load_references' = b /\ UNCHANGED current_descriptor

(***************************************************************************)
(* The handlers.                                                           *)
(***************************************************************************)
\* The end of an assignment: what do_assign does with the right-hand side's value.
do_assign ==
    LET d == current_descriptor
    IN  IF d = NoDescriptor
          THEN Fail("no_input") /\ UNCHANGED <<store, registers>>
        ELSE IF d.is_constant /\ constants[d.index] # NoValue
          THEN Fail("constant_reassign") /\ UNCHANGED <<store, registers>>
        ELSE /\ IF d.is_constant
                  THEN constants' = [constants EXCEPT ![d.index] = result] /\ UNCHANGED variables
                  ELSE variables' = [variables EXCEPT ![d.index] = result] /\ UNCHANGED constants
             /\ SetResult(result)
             /\ Return
             /\ UNCHANGED scopes

\* The right-hand side is read, then the left-hand side is located.
handle_assignment_node ==
    \/ /\ At({"assignment"}, "start")
       /\ Load(TRUE)
       /\ Execute(node.rhs, [top EXCEPT !.at = "rhs"])
       /\ UNCHANGED <<phase, program, store, registers, error, saved>>
    \/ /\ At({"assignment"}, "rhs")
       /\ Load(FALSE)
       /\ Execute(node.lhs, [top EXCEPT !.at = "lhs"])
       /\ UNCHANGED <<phase, program, store, registers, error, saved>>
    \/ /\ At({"assignment"}, "lhs")
       /\ do_assign
       /\ UNCHANGED <<phase, program, reference, saved>>

\* mutant of add_constant: the index is taken after the value has been pushed
add_constant_late(name, value) ==
    /\ constants' = Append(constants, value)
    /\ Bind(name, [index |-> Len(constants') + 1, is_constant |-> TRUE])
    /\ UNCHANGED variables

add_constant(name, value) ==
    /\ Bind(name, [index |-> Len(constants) + 1, is_constant |-> TRUE])
    /\ constants' = Append(constants, value)
    /\ UNCHANGED variables

add_variable(name) ==
    /\ Bind(name, [index |-> Len(variables) + 1, is_constant |-> FALSE])
    /\ variables' = Append(variables, Zero)
    /\ UNCHANGED constants

handle_variable_declaration ==
    /\ At({"variable_decl"}, "start")
    /\ IF has_identifier(node.name)
         THEN Fail("duplicate_name") /\ UNCHANGED <<store, current_descriptor>>
         ELSE /\ IF node.is_const THEN add_constant(node.name, NoValue) ELSE add_variable(node.name)
              /\ current_descriptor' = scopes'[Len(scopes)].table[node.name]
              /\ Return
    /\ UNCHANGED <<phase, program, registers, load_references, saved>>

handle_variable_reference ==
    /\ At({"variable_ref"}, "start")
    /\ \/ /\ ~has_identifier(node.name)
          /\ Fail("unresolved_identifier")
          /\ UNCHANGED <<registers, current_descriptor>>
       \/ /\ has_identifier(node.name)
          /\ IF load_references
               THEN /\ SetResult(get_descriptor_value(find_identifier(node.name)))
                    /\ UNCHANGED current_descriptor
               ELSE /\ current_descriptor' = find_identifier(node.name)
                    /\ UNCHANGED registers
          /\ Return
    /\ UNCHANGED <<phase, program, store, load_references, saved>>

\* Division looks at the flags that the evaluation of the divisor has left.
handle_arithmetic_operation ==
    \/ /\ At({"arithmetic_operator"}, "start")
       /\ Load(TRUE)
       /\ Execute(node.lhs, [top EXCEPT !.at = "lhs"])
       /\ UNCHANGED <<phase, program, store, registers, error, saved>>
    \/ /\ At({"arithmetic_operator"}, "lhs")
       /\ Load(TRUE)
       /\ Execute(node.rhs, [top EXCEPT !.at = "rhs", !.values = <<result>>])
       /\ UNCHANGED <<phase, program, store, registers, error, saved>>
    \/ /\ At({"arithmetic_operator"}, "rhs")
       /\ IF node.op = "divide" /\ "zero" \in flags
            THEN Fail("divide_by_zero") /\ UNCHANGED registers
            ELSE SetResult(Compute(node.op, top.values[1], result)) /\ Return
       /\ UNCHANGED <<phase, program, store, reference, saved>>

handle_update_expression ==
    \/ /\ At({"update_expression"}, "start")
       /\ Load(TRUE)
       /\ Execute(node.rhs, [top EXCEPT !.at = "rhs"])
       /\ UNCHANGED <<phase, program, store, registers, error, saved>>
    \/ /\ At({"update_expression"}, "rhs")
       /\ Load(FALSE)
       /\ Execute(node.lhs, [top EXCEPT !.at = "lhs"])
       /\ UNCHANGED <<phase, program, store, registers, error, saved>>
    \/ /\ At({"update_expression"}, "lhs")
       /\ IF current_descriptor.is_constant
            THEN Fail("constant_reassign") /\ UNCHANGED <<variables, registers>>
          ELSE IF node.op = "divide" /\ result = Zero
            THEN Fail("divide_by_zero") /\ UNCHANGED <<variables, registers>>
          ELSE LET d == current_descriptor
                   v == Compute(node.op, variables[d.index], result)
               IN  variables' = [variables EXCEPT ![d.index] = v] /\ SetResult(v) /\ Return
       /\ UNCHANGED <<phase, program, constants, scopes, reference, saved>>

handle_numeric_constant ==
    /\ At({"numeric_constant"}, "start")
    /\ SetResult(node.value)
    /\ Return
    /\ UNCHANGED <<phase, program, store, reference, saved>>

\* do_factorial refuses what the flags say is negative.
handle_unary_expression ==
    \/ /\ At({"unary_operator"}, "start")
       /\ Load(TRUE)
       /\ Execute(node.operand, [top EXCEPT !.at = "operand"])
       /\ UNCHANGED <<phase, program, store, registers, error, saved>>
    \/ /\ At({"unary_operator"}, "operand")
       /\ IF node.op = "factorial" /\ "negative" \in flags /\ IsInteger(result)
            THEN Fail("invalid_argument") /\ UNCHANGED registers
            ELSE SetResult(Compute(node.op, result, Zero)) /\ Return
       /\ UNCHANGED <<phase, program, store, reference, saved>>

\* The right-hand side is evaluated in whatever mode the left-hand side has left.
handle_relational_operator ==
    \/ /\ At({"relational_operator"}, "start")
       /\ Load(TRUE)
       /\ Execute(node.lhs, [top EXCEPT !.at = "lhs"])
       /\ UNCHANGED <<phase, program, store, registers, error, saved>>
    \/ /\ At({"relational_operator"}, "lhs")
       /\ Execute(node.rhs, [top EXCEPT !.at = "rhs", !.values = <<result>>])
       /\ UNCHANGED <<phase, program, store, registers, reference, error, saved>>
    \/ /\ At({"relational_operator"}, "rhs")
       /\ flags' = { f \in {"condition_was_true"} : Compare(node.op, top.values[1], result) }
       /\ Return
       /\ UNCHANGED <<phase, program, store, result, reference, saved>>

push_scope(inherits) == scopes' = Append(scopes, Scope(inherits, NoNames))

\* A ScopePusher is constructed and the nodes of a body are executed next.
EnterBody(body) == Become([top EXCEPT !.at = "body", !.rest = body, !.scoped = TRUE])

\* mutant of ConditionHolds: any flag will do
ConditionHolds_any == flags # {}

ConditionHolds == flags = {"condition_was_true"}

handle_conditional_construct ==
    \/ /\ At({"conditional_construct"}, "start")
       /\ Load(TRUE)
       /\ Execute(node.condition, [top EXCEPT !.at = "condition"])
       /\ UNCHANGED <<phase, program, store, registers, error, saved>>
    \/ /\ At({"conditional_construct"}, "condition")
       /\ LET body == IF ConditionHolds THEN node.body ELSE node.else_body
          IN  IF body = << >>
                THEN Return /\ UNCHANGED scopes
                ELSE push_scope(TRUE) /\ EnterBody(body) /\ UNCHANGED error
       /\ UNCHANGED <<phase, program, constants, variables, registers, reference, saved>>

handle_loop ==
    \/ /\ At({"loop"}, "start")
       /\ Execute(node.condition, [top EXCEPT !.at = "condition"])
       /\ UNCHANGED <<phase, program, store, registers, reference, error, saved>>
    \/ /\ At({"loop"}, "condition")
       /\ IF ConditionHolds
            THEN push_scope(TRUE) /\ EnterBody(node.body) /\ UNCHANGED error
            ELSE Return /\ UNCHANGED scopes
       /\ UNCHANGED <<phase, program, constants, variables, registers, reference, saved>>

\* One node of the body of a conditional or of a loop, or the end of the body.
execute_body ==
    /\ At({"conditional_construct", "loop"}, "body")
    /\ IF top.rest = << >>
         THEN Become([top EXCEPT !.at = "leave"]) /\ UNCHANGED load_references
         ELSE /\ load_references' = TRUE
              /\ Execute(Head(top.rest), [top EXCEPT !.rest = Tail(@)])
    /\ UNCHANGED <<phase, program, store, registers, current_descriptor, error, saved>>

Callee == ast.functions[node.callee]

\* The arguments are evaluated in the caller's scope, then bound as constants in
\* a scope that does not inherit; a return ends the body, and the flags are cleared.
handle_function_call ==
    \/ /\ At({"function_call"}, "start")
       /\ IF node.callee \notin DOMAIN ast.functions
            THEN Fail("unresolved_identifier")
          ELSE IF Len(node.arguments) # Len(Callee.arguments)
            THEN Fail("invalid_argument")
            ELSE Become([top EXCEPT !.at = "arguments", !.rest = node.arguments]) /\ UNCHANGED error
       /\ UNCHANGED <<phase, program, store, registers, reference, saved>>
    \/ /\ At({"function_call"}, "arguments")
       /\ top.rest # << >>
       /\ Load(TRUE)
       /\ Execute(Head(top.rest), [top EXCEPT !.at = "argument", !.rest = Tail(@)])
       /\ UNCHANGED <<phase, program, store, registers, error, saved>>
    \/ /\ At({"function_call"}, "argument")
       /\ Become([top EXCEPT !.at = "arguments", !.values = Append(@, result)])
       /\ UNCHANGED <<phase, program, store, registers, reference, error, saved>>
    \/ /\ At({"function_call"}, "arguments")
       /\ top.rest = << >>
       /\ LET position(name) == CHOOSE k \in DOMAIN Callee.arguments : Callee.arguments[k] = name
              descriptor(name) == [index |-> Len(constants) + position(name), is_constant |-> TRUE]
              names == { Callee.arguments[k] : k \in DOMAIN Callee.arguments }
          IN  scopes' = Append(scopes, Scope(FALSE, [name \in names |-> descriptor(name)]))
       /\ constants' = constants \o top.values
       /\ saved' = Append(saved, [constants |-> constants, variables |-> variables, scopes |-> scopes])
       /\ EnterBody(Callee.body)
       /\ UNCHANGED <<phase, program, variables, registers, reference, error>>
    \/ /\ At({"function_call"}, "body")
       /\ IF top.rest = << >> \/ "return_from_function" \in flags
            THEN Become([top EXCEPT !.at = "leave"]) /\ flags' = {}
            ELSE Execute(Head(top.rest), [top EXCEPT !.rest = Tail(@)]) /\ UNCHANGED flags
       /\ UNCHANGED <<phase, program, store, result, reference, error, saved>>

\* mutant of handle_return: the flag is not set
handle_return_plain ==
    \/ /\ At({"function_return"}, "start")
       /\ Load(TRUE)
       /\ Execute(node.return_value, [top EXCEPT !.at = "value"])
       /\ UNCHANGED <<phase, program, store, registers, error, saved>>
    \/ /\ At({"function_return"}, "value")
       /\ Return
       /\ UNCHANGED <<phase, program, store, registers, reference, saved>>

\* mutant of handle_return: the value is evaluated in the mode of the last statement
handle_return_unloaded ==
    \/ /\ At({"function_return"}, "start")
       /\ Execute(node.return_value, [top EXCEPT !.at = "value"])
       /\ UNCHANGED <<phase, program, store, registers, reference, error, saved>>
    \/ /\ At({"function_return"}, "value")
       /\ flags' = flags \cup {"return_from_function"}
       /\ Return
       /\ UNCHANGED <<phase, program, store, result, reference, saved>>

handle_return ==
    \/ /\ At({"function_return"}, "start")
       /\ Load(TRUE)
       /\ Execute(node.return_value, [top EXCEPT !.at = "value"])
       /\ UNCHANGED <<phase, program, store, registers, error, saved>>
    \/ /\ At({"function_return"}, "value")
       /\ flags' = flags \cup {"return_from_function"}
       /\ Return
       /\ UNCHANGED <<phase, program, store, result, reference, saved>>

(***************************************************************************)
(* The destructor of a ScopePusher, at the end of a body and on the way    *)
(* out after an error.  pop_scope erases the entry of every name of the    *)
(* scope, in the order of an unordered container, each at the index it was *)
(* given: an entry above one that is already gone is no longer there.      *)
(* Erasing past the end is undefined: nothing moves and the last entry is  *)
(* dropped, or the program crashes.                                        *)
(***************************************************************************)
Leaving == /\ phase = "running" /\ control # << >>
           /\ top.scoped
           /\ top.at = "leave" \/ error # "ok"

PastTheEnd(d) == d.index > Len(IF d.is_constant THEN constants ELSE variables)

Without(s, i) == [k \in 1 .. Len(s) - 1 |-> s[IF k < i THEN k ELSE k + 1]]

\* mutant of erase_entry: the constants stay
erase_entry_variable ==
    /\ Leaving
    /\ \E name \in DOMAIN Innermost.table :
         LET d == Innermost.table[name]
         IN  /\ variables' = IF d.is_constant THEN variables ELSE Without(variables, d.index)
             /\ scopes' = [scopes EXCEPT ![Len(scopes)].table = [n \in DOMAIN @ \ {name} |-> @[n]]]
    /\ UNCHANGED <<phase, program, control, constants, registers, reference, error, saved>>

erase_entry ==
    /\ Leaving
    /\ \E name \in DOMAIN Innermost.table :
         LET d == Innermost.table[name]
         IN  /\ IF d.is_constant
                  THEN constants' = Without(constants, d.index) /\ UNCHANGED variables
                  ELSE variables' = Without(variables, d.index) /\ UNCHANGED constants
             /\ scopes' = [scopes EXCEPT ![Len(scopes)].table =
                              [n \in DOMAIN @ \ {name} |-> @[n]]]
             /\ phase' \in IF PastTheEnd(d) THEN {"running", "crashed"} ELSE {"running"}
    /\ UNCHANGED <<program, control, registers, reference, error, saved>>

\* All entries are gone.  A loop goes on with its condition.
pop_scope ==
    /\ Leaving
    /\ Innermost.table = NoNames
    /\ scopes' = SubSeq(scopes, 1, Len(scopes) - 1)
    /\ current_descriptor' = NoDescriptor
    /\ IF error = "ok" /\ node.type = "loop" THEN Become(Frame(node)) ELSE control' = Callers
    /\ saved' = IF node.type = "function_call" THEN SubSeq(saved, 1, Len(saved) - 1) ELSE saved
    /\ UNCHANGED <<phase, program, constants, variables, registers, load_references, error>>

\* mutant of propagate_error: scopes are not popped on the way out
propagate_error_fast ==
    /\ phase = "running" /\ error # "ok"
    /\ control # << >>
    /\ control' = Callers
    /\ UNCHANGED <<phase, program, store, registers, reference, error, saved>>

\* An error is handed from handler to handler.
propagate_error ==
    /\ phase = "running" /\ error # "ok"
    /\ control # << >> /\ ~top.scoped
    /\ control' = Callers
    /\ UNCHANGED <<phase, program, store, registers, reference, error, saved>>

Handler ==
    \/ handle_assignment_node      \/ handle_variable_declaration  \/ handle_variable_reference
    \/ handle_arithmetic_operation \/ handle_update_expression     \/ handle_numeric_constant
    \/ handle_unary_expression     \/ handle_relational_operator
    \/ handle_conditional_construct \/ handle_loop                 \/ execute_body
    \/ handle_function_call        \/ handle_return
    \/ erase_entry                 \/ pop_scope                    \/ propagate_error

(***************************************************************************)
(* interpret.  The outermost frame goes through the nodes of the program.  *)
(***************************************************************************)
TopLevel(nodes) == [node |-> [type |-> "program"], at |-> "body", rest |-> nodes,
                    values |-> << >>, scoped |-> FALSE]

Init ==
    /\ phase = "starting"
    /\ ast \in Programs
    /\ parameters \in Parameters
    /\ control = << >>
    /\ constants = << >>
    /\ variables = << >>
    /\ scopes = <<Scope(FALSE, NoNames)>>
    /\ result = Zero
    /\ flags = {}
    /\ current_descriptor = NoDescriptor
    /\ load_references = FALSE
    /\ error = "ok"
    /\ saved = << >>

\* The error of the k-th name of the config block.
ConfigError(k) ==
    LET names == ast.inputs \o ast.outputs
    IN  IF \E j \in 1 .. k - 1 : names[j] = names[k] THEN "duplicate_name"
        ELSE IF k =< Len(ast.inputs) /\ names[k] \notin DOMAIN parameters
          THEN "invalid_input_identifier"
        ELSE "ok"

\* The result of populate_input_descriptors and populate_output_descriptors.
PopulateError ==
    LET count  == Len(ast.inputs) + Len(ast.outputs)
        failed == { k \in 1 .. count : ConfigError(k) # "ok" }
    IN  IF Len(ast.inputs) # Cardinality(DOMAIN parameters) THEN "not_enough_input_identifiers"
        ELSE IF failed = {} THEN "ok"
        ELSE ConfigError(CHOOSE k \in failed : \A j \in failed : k =< j)

\* Inputs are constants, outputs variables of the global scope.
populate ==
    /\ phase = "starting"
    /\ error' = PopulateError
    /\ IF error' # "ok"
         THEN phase' = "failed" /\ UNCHANGED <<control, store>>
         ELSE /\ phase' = "running"
              /\ control' = <<TopLevel(ast.nodes)>>
              /\ constants' = [k \in DOMAIN ast.inputs |-> parameters[ast.inputs[k]]]
              /\ variables' = [k \in DOMAIN ast.outputs |-> Zero]
              /\ LET names(s) == { s[k] : k \in DOMAIN s }
                     index(s, name) == CHOOSE k \in DOMAIN s : s[k] = name
                     inputs == names(ast.inputs)
                 IN  scopes' = <<Scope(FALSE, [name \in inputs \cup names(ast.outputs) |->
                         IF name \in inputs
                           THEN [index |-> index(ast.inputs, name), is_constant |-> TRUE]
                           ELSE [index |-> index(ast.outputs, name), is_constant |-> FALSE]])>>
    /\ UNCHANGED <<program, registers, reference, saved>>

\* The next node of the program, with cleared registers.
execute_program ==
    /\ At({"program"}, "body")
    /\ IF top.rest = << >>
         THEN Return /\ UNCHANGED <<registers, reference>>
         ELSE /\ result' = Zero
              /\ flags' = {}
              /\ current_descriptor' = NoDescriptor
              /\ load_references' = TRUE
              /\ control' = <<[top EXCEPT !.rest = Tail(@)], Frame(Head(top.rest))>>
              /\ UNCHANGED error
    /\ UNCHANGED <<phase, program, store, saved>>

finish ==
    /\ phase = "running" /\ control = << >>
    /\ phase' = IF error = "ok" THEN "done" ELSE "failed"
    /\ UNCHANGED <<program, control, store, registers, reference, error, saved>>

Next == populate \/ execute_program \/ Handler \/ finish

\* The thread that has called interpret keeps executing.
Spec == Init /\ [][Next]_vars /\ WF_vars(Next)

-------------------------------------------------------------------------------
(***************************************************************************)
(* Properties.                                                             *)
(***************************************************************************)
Descriptor == [index : Nat, is_constant : BOOLEAN]
Label      == {"start", "lhs", "rhs", "operand", "condition", "body", "arguments", "argument",
               "value", "leave"}

IsTable(t) == t \in [DOMAIN t -> Descriptor] /\ DOMAIN t \subseteq Name
IsScope(s) == s = Scope(s.inherits, s.table) /\ s.inherits \in BOOLEAN /\ IsTable(s.table)
IsFrame(f) == /\ f = [node |-> f.node, at |-> f.at, rest |-> f.rest, values |-> f.values,
                      scoped |-> f.scoped]
              /\ f.at \in Label
              /\ f.rest \in Seq(Node)
              /\ f.values \in Seq(Value)
              /\ f.scoped \in BOOLEAN

\* Every variable has its type; interpret, and only it, is the outermost handler; every
\* scope but the global one belongs to a handler that is still to pop it.
TypeOK ==
    /\ phase \in {"starting", "running", "done", "failed", "crashed"}
    /\ control = SubSeq(control, 1, Len(control))
    /\ \A i \in 1 .. Len(control) : /\ IsFrame(control[i])
                                    /\ i = 1 <=> control[i].node = [type |-> "program"]
                                    /\ i > 1 => control[i].node \in Node
    /\ constants \in Seq(Value \cup {NoValue})
    /\ variables \in Seq(Value)
    /\ scopes # << >> /\ scopes = SubSeq(scopes, 1, Len(scopes))
    /\ \A s \in 1 .. Len(scopes) : IsScope(scopes[s])
    /\ result \in Value
    /\ flags \subseteq StateFlags
    /\ current_descriptor \in Descriptor
    /\ load_references \in BOOLEAN
    /\ error \in ErrorCode
    /\ Len(scopes) = 1 + Cardinality({ i \in 1 .. Len(control) : control[i].scoped })

\* Every binding of every scope but the one being popped is an index into the
\* vector it names, and no two bindings share an entry: whatever was declared,
\* nested, called, popped and unwound since, in whatever order entries were erased.
DescriptorsAreValid ==
    LET settled == 1 .. IF Leaving \/ phase = "crashed" THEN Len(scopes) - 1 ELSE Len(scopes)
        bound   == { b \in settled \X Name : b[2] \in DOMAIN scopes[b[1]].table }
        descriptor(b) == scopes[b[1]].table[b[2]]
    IN  /\ \A b \in bound :
              descriptor(b).index \in
                  1 .. IF descriptor(b).is_constant THEN Len(constants) ELSE Len(variables)
        /\ \A b, c \in bound : descriptor(b) = descriptor(c) => b = c

\* Functions are pure: while a function runs, whatever it calls and however it
\* ends, the constants, variables and scopes its caller had when it called are
\* what they were (README: functions cannot change anything that is not local).
IsPrefixOf(s, t) == Len(s) =< Len(t) /\ s = SubSeq(t, 1, Len(s))
CallsArePure ==
    \A k \in 1 .. Len(saved) : /\ IsPrefixOf(saved[k].constants, constants)
                              /\ IsPrefixOf(saved[k].variables, variables)
                              /\ IsPrefixOf(saved[k].scopes, scopes)

\* The end of a call, normal or by an error, leaves nothing of it behind.
CallsLeaveNothing ==
    [][Len(saved') < Len(saved) =>
         [constants |-> constants', variables |-> variables', scopes |-> scopes'] = saved[Len(saved)]]_vars

\* A reference is assigned to exactly when it is the left-hand side of an
\* assignment or update.  relational_operator and function bodies do not set
\* load_references: they rely on the last statement of a function being a return.
ReferencesAreLoaded ==
    LET parent == control[Len(control) - 1]
        operand == parent.at \in {"lhs", "rhs", "operand", "condition", "argument", "value"}
    IN  At({"variable_ref"}, "start") /\ operand =>
          (load_references <=> ~(parent.at = "lhs" /\ parent.node.type \in {"assignment", "update_expression"}))

\* Between a return and the end of its function nothing is computed, declared or
\* assigned: conditionals and loops around the return are only left.
ReturnLeaves ==
    [][("return_from_function" \in flags /\ ~Leaving) => UNCHANGED <<store, result>>]_vars

\* Programs whose recursion and loops are bounded end: a return also ends the loops
\* around it, whatever their conditions say.
Ends == <>(phase \in {"done", "failed", "crashed"})

\* InterpreterErrorCode.h: "Division by Zero".  A division whose divisor is zero is one.
DivisionByZeroIsReported ==
    [][(At({"arithmetic_operator"}, "rhs") /\ node.op = "divide" /\ result = Zero)
         => error' = "divide_by_zero"]_vars

\* README: f(1, 2) calls a function of two parameters.  No call has undefined behaviour.
CallsAreDefined == phase # "crashed"
===============================================================================
