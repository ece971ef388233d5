---------------------------------- MODULE AST ----------------------------------
(***************************************************************************)
(* The programs that the parser hands to the Interpreter and to the        *)
(* Assembler.  A double is an element of Value; the floating-point unit is *)
(* the constant operators Compute, Compare and IsInteger.                  *)
(***************************************************************************)
EXTENDS Tree, FiniteSets

CONSTANTS
    Value,              \* the doubles
    Zero,               \* 0.0
    Compute(_, _, _),   \* Compute(op, x, y): the result of an arithmetic operation
    Compare(_, _, _),   \* Compare(op, x, y): the outcome of a relational operation
    IsInteger(_),       \* Raychel::is_integer
    Name,               \* identifiers
    FunctionName,       \* mangled names of functions: the name and the number of arguments
    Node,               \* the nodes of the ASTs
    Programs,           \* the ASTs that are executed
    Parameters          \* the maps from input names to values a caller may pass

-------------------------------------------------------------------------------
(***************************************************************************)
(* A program is a record                                                   *)
(*   [inputs, outputs : Seq(Name), nodes : Seq(Node), functions]           *)
(* where functions maps mangled names to [arguments : Seq(Name), body].    *)
(***************************************************************************)
WellFormed(p) ==
    /\ p.inputs \in Seq(Name)
    /\ p.outputs \in Seq(Name)
    /\ p.nodes \in Seq(Node)
    /\ DOMAIN p.functions \subseteq FunctionName
    /\ \A f \in DOMAIN p.functions : /\ WellFormedFunction(p.functions[f])
                                     /\ p.functions[f].arguments \in Seq(Name)
                                     /\ p.functions[f].body \in Seq(Node)

ASSUME NodeAssumption ==
    \A n \in Node :
      /\ WellFormedNode(n)
      /\ Children(n) \subseteq Node
      /\ n.type \in {"variable_decl", "variable_ref"} => n.name \in Name
      /\ n.type = "numeric_constant" => n.value \in Value
      /\ n.type \in {"conditional_construct", "loop"} => n.body \in Seq(Node)
      /\ n.type = "conditional_construct" => n.else_body \in Seq(Node)
      /\ n.type = "function_call" => n.callee \in FunctionName /\ n.arguments \in Seq(Node)

ASSUME ProgramAssumption == \A p \in Programs : WellFormed(p)

ASSUME ParametersAssumption ==
    \A m \in Parameters : /\ DOMAIN m \subseteq Name
                          /\ IsFiniteSet(DOMAIN m)
                          /\ m \in [DOMAIN m -> Value]

ASSUME ValueAssumption ==
    /\ Zero \in Value
    /\ \A op \in ArithmeticOp \cup UnaryOp, x, y \in Value : Compute(op, x, y) \in Value
    /\ \A op \in RelationalOp, x, y \in Value : Compare(op, x, y) \in BOOLEAN
===============================================================================
