---------------------------------- MODULE Tree ---------------------------------
(***************************************************************************)
(* The nodes of the abstract syntax trees of RaychelScript (shared/AST):   *)
(* records with the type of the node and the members of its NodeData.      *)
(***************************************************************************)
EXTENDS Integers, Sequences
LOCAL INSTANCE Functions

ArithmeticOp == {"add", "subtract", "multiply", "divide", "power"}
UnaryOp      == {"minus", "plus", "factorial", "magnitude"}
RelationalOp == {"equals", "not_equals", "less_than", "greater_than"}
NumberType   == {"variable_ref", "arithmetic_operator", "numeric_constant",
                 "unary_operator", "function_call"}

\* AST_Node::value_type
value_type(n) == IF n.type \in NumberType THEN "number"
                 ELSE IF n.type = "relational_operator" THEN "boolean"
                 ELSE IF n.type = "variable_decl" THEN "variable_ref"
                 ELSE "none"

\* AST_Node::is_lvalue
is_lvalue(n) == n.type \in {"variable_decl", "variable_ref"}

IsNumber(n)    == value_type(n) = "number"
IsCondition(n) == value_type(n) = "boolean"

\* What the parser guarantees of a node.  The right-hand side of an update may
\* be any expression: the parser logs an error and goes on.
WellFormedNode(n) ==
    \/ n.type = "assignment" /\ is_lvalue(n.lhs) /\ IsNumber(n.rhs)
    \/ n.type = "variable_decl" /\ n.is_const \in BOOLEAN
    \/ n.type \in {"variable_ref", "numeric_constant"}
    \/ n.type = "arithmetic_operator" /\ IsNumber(n.lhs) /\ IsNumber(n.rhs) /\ n.op \in ArithmeticOp
    \/ /\ n.type = "update_expression" /\ n.lhs.type = "variable_ref" /\ n.op \in ArithmeticOp
       /\ value_type(n.rhs) # "none"
    \/ n.type = "unary_operator" /\ IsNumber(n.operand) /\ n.op \in UnaryOp
    \/ n.type \in {"conditional_construct", "loop"} /\ IsCondition(n.condition)
    \/ n.type = "relational_operator" /\ IsNumber(n.lhs) /\ IsNumber(n.rhs) /\ n.op \in RelationalOp
    \/ n.type = "function_call" /\ \A k \in 1 .. Len(n.arguments) : IsNumber(n.arguments[k])
    \/ n.type = "function_return" /\ IsNumber(n.return_value)

\* Arguments have different names and the body ends with a return.
WellFormedFunction(f) ==
    /\ \A j, k \in 1 .. Len(f.arguments) : f.arguments[j] = f.arguments[k] => j = k
    /\ f.body # << >>
    /\ f.body[Len(f.body)].type = "function_return"

-------------------------------------------------------------------------------
\* The nodes that a node has as members, and those a program has.
Children(n) ==
    CASE n.type \in {"assignment", "arithmetic_operator", "update_expression", "relational_operator"} ->
           {n.lhs, n.rhs}
      [] n.type = "unary_operator" -> {n.operand}
      [] n.type = "conditional_construct" -> {n.condition} \cup Range(n.body) \cup Range(n.else_body)
      [] n.type = "loop" -> {n.condition} \cup Range(n.body)
      [] n.type = "function_call" -> Range(n.arguments)
      [] n.type = "function_return" -> {n.return_value}
      [] OTHER -> {}

ProgramNodes(p) == Range(p.nodes) \cup UNION { Range(p.functions[f].body) : f \in DOMAIN p.functions }
===============================================================================
