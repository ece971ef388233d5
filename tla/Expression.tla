------------------------------- MODULE Expression ------------------------------
(***************************************************************************)
(* A line of the body block (Parser/src/BodyBlock.cpp): which construct    *)
(* its tokens are, and the node that an expression becomes.  Where the     *)
(* code returns an error code the node is Refused.                         *)
(***************************************************************************)
EXTENDS Tree, Lexer, FiniteSetsExt, Functions

CONSTANTS
    Constant(_, _),         \* Constant(content, is_negative): the double that from_chars reads
    Mangled(_, _)           \* Mangled(name, n): the name of a function of n arguments

Refused == [type |-> "refused"]

-------------------------------------------------------------------------------
(***************************************************************************)
(* Patterns of tokens.                                                     *)
(***************************************************************************)
Anything == "expression"         \* matches the tokens up to the next one of the pattern

MD_op    == {"*", "/", "^"}
AS_op    == {"+", "-"}
arith_op == MD_op \cup AS_op

ParenDepth(tokens) == Cardinality({ k \in DOMAIN tokens : tokens[k].type \in Opening })
                      - Cardinality({ k \in DOMAIN tokens : tokens[k].type \in Closing })

token_matched(token, expected) ==
    token.type = expected \/ (expected = "arith_op" /\ token.type \in arith_op)

\* The matches of a pattern with the tokens from the t-th on, in a set, which is empty
\* if there are none.  What Anything matches ends at the first token of the following type
\* that no parentheses are open at, counting that token and those of the pattern.
RECURSIVE Matches(_, _, _, _)
Matches(tokens, pattern, t, paren_depth) ==
    LET expected == Head(pattern)
        Then(match, next, depth) ==
            { <<match>> \o rest : rest \in Matches(tokens, Tail(pattern), next, depth) }
    IN  IF pattern = << >> THEN IF t > Len(tokens) THEN { << >> } ELSE {}
        ELSE IF t > Len(tokens) THEN {}
        ELSE IF expected = Anything /\ Len(pattern) = 1 THEN { <<SubSeq(tokens, t, Len(tokens))>> }
        ELSE IF expected = Anything
          THEN LET ends == { e \in t .. Len(tokens) : /\ tokens[e].type = pattern[2]
                                                      /\ paren_depth + ParenDepth(SubSeq(tokens, t, e)) = 0 }
               IN  IF ends = {} THEN {} ELSE Then(SubSeq(tokens, t, Min(ends) - 1), Min(ends), 0)
        ELSE IF token_matched(tokens[t], expected)
          THEN Then(<<tokens[t]>>, t + 1, paren_depth + Turn(tokens[t].type))
        ELSE {}

match_token_pattern(tokens, pattern) == Matches(tokens, pattern, 1, 0)

\* The constructs that have a pattern, in the order in which they are tried.
Construct(name, pattern) == [name |-> name, pattern |-> pattern]
Constructs ==
    << Construct("return",     <<"function_return", Anything>>),
       Construct("if",         <<"conditional_header", Anything>>),
       Construct("else",       <<"conditional_else">>),
       Construct("endif",      <<"conditional_footer">>),
       Construct("while",      <<"loop_header", Anything>>),
       Construct("endwhile",   <<"loop_footer">>),
       Construct("equals",       <<Anything, "=", "=", Anything>>),
       Construct("not_equals",   <<Anything, "!", "=", Anything>>),
       Construct("less_than",    <<Anything, "<", Anything>>),
       Construct("greater_than", <<Anything, ">", Anything>>),
       Construct("simple fn",  <<"function_header", "identifer", "(", Anything, ")", "=", Anything>>),
       Construct("fn",         <<"function_header", "identifer", "(", Anything, ")">>),
       Construct("endfn",      <<"function_footer">>),
       Construct("call",       <<"identifer", "(", Anything, ")">>),
       Construct("update",     <<"identifer", "arith_op", "=", Anything>>),
       Construct("assignment", <<Anything, "=", Anything>>),
       Construct("negative",   <<"-", "number">>),
       Construct("minus",      <<"-", Anything>>),
       Construct("plus",       <<"+", Anything>>),
       Construct("factorial",  <<Anything, "!">>),
       Construct("magnitude",  <<"|", Anything, "|">>) >>

\* The constructs that make no value: they are refused where an expression is expected.
Valueless == {"return", "if", "else", "endif", "while", "endwhile", "simple fn", "fn", "endfn"}

\* The first and the last token are parentheses, of whatever kind, and belong together.
is_toplevel_parenthesised_expression(tokens) ==
    /\ Head(tokens).type \in Opening /\ Last(tokens).type \in Closing
    /\ ParenDepth(tokens) = 0
    /\ \A k \in 1 .. Len(tokens) - 1 : ParenDepth(SubSeq(tokens, 1, k)) # 0

\* mutant of find_arithmetic_operator: parentheses do not count
find_arithmetic_operator_anywhere(tokens) ==
    LET ops == { k \in DOMAIN tokens : tokens[k].type \in arith_op }
    IN  IF ops = {} THEN 0 ELSE Max(ops)

\* The right-most + or - outside of parentheses or else the right-most * / or ^, looking
\* at the tokens from the end; 0 if there is none, or before it a token that no
\* expression has, or if the parentheses do not match.
find_arithmetic_operator(tokens) ==
    LET outside == { k \in DOMAIN tokens : /\ tokens[k].type \in arith_op
                                           /\ ParenDepth(SubSeq(tokens, k, Len(tokens))) = 0 }
        as      == { k \in outside : tokens[k].type \in AS_op }
        scanned == IF as = {} THEN DOMAIN tokens ELSE Max(as) .. Len(tokens)
    IN  IF \/ outside = {}
           \/ as = {} /\ ParenDepth(tokens) # 0
           \/ \E k \in scanned : tokens[k].type \notin
                {"number", "identifer", "|", "!", ","} \cup arith_op \cup Opening \cup Closing
          THEN 0
        ELSE IF as # {} THEN Max(as) ELSE Max(outside)

-------------------------------------------------------------------------------
(***************************************************************************)
(* Arguments.                                                              *)
(***************************************************************************)
\* The parameters of a definition: commas are skipped; a set, empty if they are invalid.
parse_arguments(tokens) ==
    LET rest  == SelectSeq(tokens, LAMBDA token : token.type # ",")
        names == [k \in DOMAIN rest |-> rest[k].content]
    IN  IF (\A k \in DOMAIN rest : rest[k].type = "identifer") /\ IsInjective(names)
          THEN {names} ELSE {}

\* mutant of Arguments: an argument is added when the comma after it is read
RECURSIVE Arguments_closed(_)
Arguments_closed(tokens) ==
    LET comma == SelectInSeq([k \in DOMAIN tokens |-> k], LAMBDA k :
                     tokens[k].type = "," /\ ParenDepth(SubSeq(tokens, 1, k)) = 0)
    IN  IF tokens = << >> \/ comma = 0 THEN << >>
        ELSE <<SubSeq(tokens, 1, comma - 1)>> \o Arguments_closed(SubSeq(tokens, comma + 1, Len(tokens)))

\* The token lists of the arguments of a call; after the last comma there may be none.
RECURSIVE Arguments(_)
Arguments(tokens) ==
    LET comma == SelectInSeq([k \in DOMAIN tokens |-> k], LAMBDA k :
                     tokens[k].type = "," /\ ParenDepth(SubSeq(tokens, 1, k)) = 0)
    IN  IF tokens = << >> THEN << >>
        ELSE IF comma = 0 THEN <<tokens>>
        ELSE <<SubSeq(tokens, 1, comma - 1)>> \o Arguments(SubSeq(tokens, comma + 1, Len(tokens)))

-------------------------------------------------------------------------------
(***************************************************************************)
(* Nodes.                                                                  *)
(***************************************************************************)
Type(node) == IF node = Refused THEN "error" ELSE value_type(node)

\* A node, if its operands are good.
If_number(operands, node) == IF \A n \in operands : Type(n) = "number" THEN node ELSE Refused

handle_assignment_expression(lhs, rhs) ==
    IF lhs # Refused /\ is_lvalue(lhs) /\ Type(rhs) = "number"
      THEN [type |-> "assignment", lhs |-> lhs, rhs |-> rhs] ELSE Refused

\* mutant of handle_math_op: the type of the left-hand side is not looked at
handle_math_op_right(lhs, rhs, op) ==
    If_number({rhs}, [type |-> "arithmetic_operator", op |-> op, lhs |-> lhs, rhs |-> rhs])

handle_math_op(lhs, rhs, op) ==
    If_number({lhs, rhs}, [type |-> "arithmetic_operator", op |-> op, lhs |-> lhs, rhs |-> rhs])

\* A right-hand side that is not a number is reported, and accepted.
handle_update_expression(lhs, rhs, op) ==
    IF lhs.type = "variable_ref" /\ rhs # Refused
      THEN [type |-> "update_expression", op |-> op, lhs |-> lhs, rhs |-> rhs] ELSE Refused

handle_unary_epression(rhs, op) == If_number({rhs}, [type |-> "unary_operator", op |-> op, operand |-> rhs])

handle_relational_operator(lhs, rhs, op) ==
    If_number({lhs, rhs}, [type |-> "relational_operator", op |-> op, lhs |-> lhs, rhs |-> rhs])

handle_number(token, is_negative) ==
    [type |-> "numeric_constant", value |-> Constant(token.content, is_negative)]

handle_function_call(name, arguments) ==
    If_number(Range(arguments), [type |-> "function_call", callee |-> Mangled(name, Len(arguments)),
                                 arguments |-> arguments])

get_op_type_from_token_type(type) ==
    CASE type = "*" -> "multiply" [] type = "/" -> "divide" [] type = "+" -> "add"
      [] type = "-" -> "subtract" [] type = "^" -> "power"

-------------------------------------------------------------------------------
\* The first construct whose pattern matches; if none does, "none".
FirstMatch(tokens) ==
    LET k == SelectInSeq(Constructs, LAMBDA c : match_token_pattern(tokens, c.pattern) # {})
    IN  IF is_toplevel_parenthesised_expression(tokens)
          THEN [name |-> "parenthesised", matches |-> << >>]
        ELSE IF k = 0 THEN [name |-> "none", matches |-> << >>]
        ELSE [name    |-> Constructs[k].name,
              matches |-> CHOOSE m \in match_token_pattern(tokens, Constructs[k].pattern) : TRUE]

\* The token lists of the operands of a construct, where m are its matches and op is the
\* place of the operator if it is an arithmetic one.
Operands(tokens, name, m, op) ==
    CASE name = "parenthesised" -> <<SubSeq(tokens, 2, Len(tokens) - 1)>>
      [] name \in RelationalOp \cup {"update", "assignment"} -> <<Head(m), Last(m)>>
      [] name = "call" -> Arguments(m[3])
      [] name \in {"minus", "plus", "magnitude"} -> <<m[2]>>
      [] name = "factorial" -> <<m[1]>>
      [] name = "none" /\ op # 0 -> <<SubSeq(tokens, 1, op - 1), SubSeq(tokens, op + 1, Len(tokens))>>
      [] OTHER -> << >>

\* A number, a name or a declaration.
Leaf(tokens) ==
    LET types == [k \in DOMAIN tokens |-> tokens[k].type]
    IN  CASE types = <<"number">>      -> handle_number(tokens[1], FALSE)
          [] types = <<"-", "number">> -> handle_number(tokens[2], TRUE)
          [] types = <<"identifer">>   -> [type |-> "variable_ref", name |-> tokens[1].content]
          [] types = <<"declaration", "identifer">> ->
               [type |-> "variable_decl", name |-> tokens[2].content, is_const |-> tokens[1].content = "let"]
          [] OTHER -> Refused

\* The node of a construct whose operands have become the nodes e.
Construction(tokens, name, m, op, e) ==
    CASE name = "parenthesised" -> e[1]
      [] name \in RelationalOp  -> handle_relational_operator(e[1], e[2], name)
      [] name = "call"          -> handle_function_call(m[1][1].content, e)
      [] name = "update"        -> handle_update_expression(e[1], e[2], get_op_type_from_token_type(m[2][1].type))
      [] name = "assignment"    -> handle_assignment_expression(e[1], e[2])
      [] name \in UnaryOp       -> handle_unary_epression(e[1], name)
      [] name = "none" /\ op # 0 -> handle_math_op(e[1], e[2], get_op_type_from_token_type(tokens[op].type))
      [] OTHER                  -> Leaf(tokens)

\* parse_expression: a construct without a value is refused.  parse_statement(tokens) is
\* parse_statement_or_expression for the constructs that do not depend on its context.
RECURSIVE parse_statement(_)

parse_expression(tokens) == LET node == parse_statement(tokens)
                            IN  IF Type(node) \in {"error", "none"} THEN Refused ELSE node

parse_statement(tokens) ==
    LET first    == FirstMatch(tokens)
        op       == find_arithmetic_operator(tokens)
        operands == Operands(tokens, first.name, first.matches, op)
    IN  IF tokens = << >> \/ first.name \in Valueless THEN Refused
        ELSE Construction(tokens, first.name, first.matches, op,
                          [k \in DOMAIN operands |-> parse_expression(operands[k])])
===============================================================================
