------------------------------- MODULE MCFrontend ------------------------------
(***************************************************************************)
(* Instances of Frontend for TLC: short texts, scripts with one short line *)
(* in either block, and scripts written out in two ways.                   *)
(***************************************************************************)
EXTENDS Frontend, MCScripts, SequencesExt

Words    == {"config", "body", "input", "output", "f", "g"} \cup MCName
MCDigit  == {"0", "1", "2", "3"}
MCLetter == Words \cup {"let", "var", "if", "else", "endif", "while", "endwhile", "fn", "return", "endfn"}

MCString(symbols) == FoldLeft(LAMBDA s, c : s \o c, "", symbols)

\* The numbers that the texts contain; any other is 9.
Literal == [v \in {ToString(n) : n \in 0 .. 3} |-> CHOOSE n \in 0 .. 3 : ToString(n) = v]
MCConstant(content, is_negative) ==
    LET v == IF content \in DOMAIN Literal THEN Literal[content] ELSE 9
    IN  IF is_negative THEN -v ELSE v

MCMangled(name, n) == name \o "_" \o ToString(n)

-------------------------------------------------------------------------------
(***************************************************************************)
(* Writing scripts: every operand is parenthesised but a name, a call or,  *)
(* beside a binary operator, a number.                                     *)
(***************************************************************************)
RawName == [f_0 |-> "f", f_1 |-> "f", f_2 |-> "f", f_3 |-> "f", g_1 |-> "g"]

Separated(items) ==
    IF items = << >> THEN << >> ELSE FoldLeft(LAMBDA s, p : s \o <<",">> \o p, Head(items), Tail(items))
Singles(names) == [k \in DOMAIN names |-> <<names[k]>>]

RECURSIVE Written(_)
Enclosed(e) == IF e.type \in {"variable_ref", "function_call"} THEN Written(e) ELSE <<"(">> \o Written(e) \o <<")">>
Side(e)     == IF e.type = "numeric_constant" /\ e.value >= 0 THEN Written(e) ELSE Enclosed(e)
Written(e) ==
    CASE e.type = "numeric_constant" -> IF e.value < 0 THEN <<"-", ToString(-e.value)>> ELSE <<ToString(e.value)>>
      [] e.type = "variable_ref"     -> <<e.name>>
      [] e.type = "variable_decl"    -> <<IF e.is_const THEN "let" ELSE "var", e.name>>
      [] e.type = "unary_operator"   ->
           CASE e.op = "factorial" -> Enclosed(e.operand) \o <<"!">>
             [] e.op = "magnitude" -> <<"|">> \o Enclosed(e.operand) \o <<"|">>
             [] OTHER              -> <<Operator[e.op]>> \o Enclosed(e.operand)
      [] e.type = "arithmetic_operator" -> Side(e.lhs) \o <<Operator[e.op]>> \o Side(e.rhs)
      [] e.type = "relational_operator" -> Side(e.lhs) \o Relation[e.op] \o Side(e.rhs)
      [] e.type = "assignment"          -> Written(e.lhs) \o <<"=">> \o Written(e.rhs)
      [] e.type = "update_expression"   -> Written(e.lhs) \o <<Operator[e.op], "=">> \o Written(e.rhs)
      [] e.type = "function_call"       ->
           <<RawName[e.callee], "(">> \o Separated([k \in DOMAIN e.arguments |-> Written(e.arguments[k])]) \o <<")">>
      [] e.type = "function_return"     -> <<"return">> \o Written(e.return_value)

RECURSIVE LinesOf(_)
LinesOfNode(n) ==
    CASE n.type = "conditional_construct" ->
           <<<<"if">> \o Written(n.condition)>> \o LinesOf(n.body)
           \o (IF n.else_body = << >> THEN << >> ELSE <<<<"else">>>> \o LinesOf(n.else_body)) \o <<<<"endif">>>>
      [] n.type = "loop" -> <<<<"while">> \o Written(n.condition)>> \o LinesOf(n.body) \o <<<<"endwhile">>>>
      [] OTHER -> <<Written(n)>>
LinesOf(nodes) == FlattenSeq([k \in DOMAIN nodes |-> LinesOfNode(nodes[k])])

\* A function that is one return is written in one line.
LinesOfFunction(f, function) ==
    LET header == <<"fn", RawName[f], "(">> \o Separated(Singles(function.arguments)) \o <<")">>
    IN  IF Len(function.body) = 1 THEN <<header \o <<"=">> \o Tail(Written(function.body[1]))>>
        ELSE <<header>> \o LinesOf(function.body) \o <<<<"endfn">>>>

HeaderLine(name) == <<"[", "[", name, "]", "]">>
Blocks(entries, body) == <<HeaderLine("config")>> \o entries \o <<HeaderLine("body")>> \o body
WrittenScript(p) ==
    LET defined == SetToSeq(DOMAIN p.functions)
    IN  Blocks(<<<<"input">> \o p.inputs, <<"output">> \o Separated(Singles(p.outputs))>>,
               FlattenSeq([k \in DOMAIN defined |-> LinesOfFunction(defined[k], p.functions[defined[k]])])
               \o LinesOf(p.nodes))

\* The text of lines of tokens, with a space between any two tokens and a comment on every
\* line, or with spaces only where they are needed and no newline at the end.
Spaced(code)  == FlattenSeq([k \in DOMAIN code |->
                     FlattenSeq([j \in DOMAIN code[k] |-> <<code[k][j], " ">>]) \o <<"#", "(", "\n", "\n">>])
Compact(code) ==
    LET word(c)   == c \notin Lex!Special
        line(k)   == FlattenSeq([j \in DOMAIN code[k] |->
                         IF j < Len(code[k]) /\ word(code[k][j]) /\ word(code[k][j + 1])
                           THEN <<code[k][j], " ">> ELSE <<code[k][j]>>])
    IN  FlattenSeq([k \in DOMAIN code |-> IF k = Len(code) THEN line(k) ELSE Append(line(k), "\n")])

-------------------------------------------------------------------------------
(***************************************************************************)
(* Scripts to write: operators on operators, in every place.               *)
(***************************************************************************)
Atoms  == {A, Num(1), Num(-1), Apply("f_0", << >>)}
Simple == { Unary(op, v) : op \in UnaryOp, v \in {A, Num(1)} }
          \cup { Arith("subtract", v, w) : v, w \in Atoms } \cup { Arith(op, A, B) : op \in ArithmeticOp }
          \cup { Apply("f_2", <<v, Num(-1)>>) : v \in Atoms }
Few    == { Unary("minus", A), Unary("factorial", A), Unary("magnitude", A), Arith("subtract", A, B),
            Arith("power", A, Num(1)), Apply("f_2", <<A, Arith("add", A, B)>>), Num(-1), B }
Nested == { Unary(op, v) : op \in UnaryOp, v \in Simple }
          \cup { Arith(op, v, w) : op \in ArithmeticOp, v \in Few, w \in Few }
          \cup { Apply("f_3", <<v, w, v>>) : v \in Few, w \in Few }

\* As the right-hand side of an assignment or an update, in conditions and by itself.
InPlaces(e) ==
    { << Assign(Let("c"), e), Update("divide", Out, e), If(Rel("not_equals", e, A), <<Assign(X, e)>>, <<e>>) >>,
      << While(Rel("greater_than", A, e), <<Var("x")>>), If(Rel("equals", B, e), << >>, <<While(Less(e, e), << >>)>>) >> }

Defining(e) == ("f_0" :> Function(<< >>, <<Ret(e)>>)) @@
               ("f_2" :> Function(<<"a", "b">>, <<If(Less(A, e), <<Ret(e)>>, << >>), Ret(A)>>))

Using(e)  == { Script(<<"in", "a">>, <<"out", "x">>, body, << >>) : body \in InPlaces(e) }
ByHand    == { AbsoluteValue, SumBelow, Overloads, Fibonacci, Features, ThreeArguments, SameNameTwice }
             \cup { Script(<<"in">>, <<"out">>, << >>, Defining(e)) : e \in Few }

\* Texts with the scripts that they are.
Writing ==
    { [text |-> Spaced(WrittenScript(p)), script |-> p] : p \in ByHand \cup UNION { Using(e) : e \in Simple } }
    \cup { [text |-> Compact(WrittenScript(p)), script |-> p] :
              p \in ByHand \cup UNION { Using(e) : e \in Atoms \cup Nested } }

-------------------------------------------------------------------------------
(***************************************************************************)
(* Short texts, and scripts with a short line.                             *)
(***************************************************************************)
Short(symbols, n) == UNION { [1 .. k -> symbols] : k \in 0 .. n }

Texts1 == Short({"a", "_", "1", ".", " ", "\n", "#", "(", "]", "?"}, 4) \cup Short({"a", "1", "."}, 6)

ConfigLines == { <<name>> \o values : name \in {"input", "output", "x", "1"}, values \in Short({"a", "1", ",", "+"}, 2) }
               \cup { <<"input", "a", ",", "b">>, <<"output", "a", "b", ",", "1">>, <<"let", "a">>, <<"+">> }
Texts2 == { Compact(Blocks(entries, << >>)) :
              entries \in UNION { {<<e>>, <<<<"input", "a">>, e>>, <<e, <<"output", "b">>>>,
                                   <<<<"input", "a">>, <<"output", "b">>, e>>} : e \in ConfigLines } }
          \cup { Compact(<<HeaderLine("body")>>), Compact(<<HeaderLine("config"), <<"input", "a">>>>) }

WithBody(body) == Compact(Blocks(<<<<"input", "a">>, <<"output", "b">>>>, body))
Texts3 == { WithBody(<<l>>) :
              l \in Short({"a", "1", "(", ")", "+", "^", "!", "|", "=", "<", ",", "let"}, 4)
                    \cup Short({"a", "-", "^", "(", ")"}, 5)
                    \cup Short({"-", "a", "]", "(", "!"}, 4)
                    \cup { <<"f", "(">> \o l : l \in Short({"f", "(", ")", "a", ","}, 5) }
                    \cup { <<"fn", "f", "(">> \o l : l \in Short({"(", ")", "a", ",", "=", "b", "<"}, 4) } }

Headers == { <<"if", "a", "<", "1">>, <<"while", "a", "<", "1">>, <<"else">>, <<"endif">>, <<"endwhile">>,
             <<"fn", "f", "(", "a", ")">>, <<"fn", "f", "(", ")", "=", "1">>, <<"return", "a">>, <<"endfn">>, <<"a">>,
             <<"if", "a">>, <<"return", "a", "<", "a">> }
Texts4 == { WithBody(body) : body \in Short(Headers, 3) }

\* A line with a parenthesis that is never closed, and a line after it
Unclosed == { [text |-> WithBody(<<<<"b", "=", "(">> \o l, <<"b", "=", "1">>>>), script |-> NoScript] :
                 l \in Short({"a", "1", "+"}, 2) }

MCTexts == Writing \cup { [text |-> t, script |-> NoScript] : t \in Texts1 \cup Texts2 \cup Texts3 \cup Texts4 }
===============================================================================
