------------------------------- MODULE MCCompiled -------------------------------
(***************************************************************************)
(* Instances of Compiled for TLC: families of expressions in every place   *)
(* an expression can be, and scripts.                                      *)
(***************************************************************************)
EXTENDS CompiledMeaning, MCScripts

\* The operation of the script that an instruction computes.
Operation(op) ==
    CASE op = "inc"           -> "add"
      [] op \in {"sub", "dec"} -> "subtract"
      [] op \in {"mul", "mas"} -> "multiply"
      [] op \in {"div", "das"} -> "divide"
      [] op \in {"pow", "pas"} -> "power"
      [] op = "fac"           -> "factorial"
      [] op = "clt"           -> "less_than"
      [] op = "cgt"           -> "greater_than"
      [] op = "ceq"           -> "equals"
      [] op = "cne"           -> "not_equals"
      [] OTHER                -> op
CompiledCompute(op, v, w) == MCCompute(Operation(op), v, w)
CompiledCompare(op, v, w) == MCCompare(Operation(op), v, w)

\* tgamma has poles, 0 to a negative power is one; ordered comparisons of NaN are invalid.
MCRaised(op, v, w) ==
    IF v = NaN \/ w = NaN THEN IF op \in {"clt", "cgt"} THEN {"invalid"} ELSE {}
    ELSE IF op = "fac" /\ v < 0 THEN {"invalid"}
    ELSE IF op \in {"pow", "pas"} /\ v = 0 /\ w < 0 THEN {"divbyzero"}
    ELSE {}

-------------------------------------------------------------------------------
(***************************************************************************)
(* Expressions: in a variable, an immediate or the register, computed by   *)
(* an operation or a call, in every pair and in every place.               *)
(***************************************************************************)
Operands == { In, Num(2), Unary("plus", X), Unary("minus", In), Arith("subtract", X, In),
              Apply("f_2", <<In, Arith("subtract", X, Num(1))>>) }

Expressions == { Arith(op, l, r) : op \in {"subtract", "divide"}, l \in Operands, r \in Operands }
               \cup { Apply("f_2", <<l, r>>) : l \in Operands, r \in Operands }

\* Both sides of both sides in the register, calls as arguments of calls.
Deep == Arith("subtract",
            Arith("multiply", Add(In, X), Apply("f_2", <<Add(In, Num(1)), Apply("g_1", <<X>>)>>)),
            Add(Arith("subtract", X, In), Apply("f_2", <<Apply("f_2", <<Add(X, In), In>>), Add(X, In)>>)))

\* The program with an expression in a place of its own.
Places(e) ==
    { <<Assign(Out, e)>>,
      <<Assign(Var("a"), e), Update("multiply", Out, A), If(Less(X, e), <<Assign(Out, e)>>, << >>)>>,
      <<While(Less(Out, Num(2)),
          <<Update("add", Out, Num(2)), Assign(Var("a"), e),
            If(Rel("greater_than", A, e), <<Assign(X, Num(0))>>, <<Update("subtract", X, e)>>)>>)>> }

\* fn f(a, b): 1 if a < b, else a and a * b and, if that is not 0, b;  g: see SumTo
Helpers ==
    ("f_2" :> Function(<<"a", "b">>,
        <<If(Less(A, B), <<Ret(Num(1))>>, <<Assign(Var("x"), Arith("multiply", A, B)), Update("add", X, A),
                                          If(Rel("not_equals", X, Num(0)), <<Ret(Add(B, X))>>, << >>)>>),
          Ret(A)>>)) @@ ("g_1" :> SumTo)

OneInput(nodes) == Script(<<"in">>, <<"out">>, <<Assign(Var("x"), Num(2))>> \o nodes, Helpers)

ExpressionScripts == UNION { { OneInput(m) : m \in Places(e) } : e \in Expressions \cup {Deep} }

-------------------------------------------------------------------------------
(***************************************************************************)
(* Scripts by hand.                                                        *)
(***************************************************************************)
\* Every pair of the statements, in a function: names that are and are not there.
StatementScripts ==
    { Script(<<"in">>, <<"out">>, <<Assign(Var("x"), Num(2)), Assign(Out, Apply("f_2", <<In, X>>))>>,
             ("f_2" :> Function(<<"a", "b">>, <<s, t, Ret(X)>>)) @@ ("g_1" :> SumTo)) :
        s \in Statements \ {WithoutValues}, t \in Statements \ {WithoutValues} }

\* fn f(n) = (n + 1) + (f(n + 1) - n): never returns; its frame has MaxFrame cells
Endless == Script(<<"in">>, <<"out">>, <<Assign(Out, Apply("f_1", <<In>>))>>,
    "f_1" :> Function(<<"n">>,
        <<Assign(Var("a"), N), Assign(Var("b"), N), Assign(Var("c"), N), Assign(Var("i"), N),
          Ret(Add(Add(N, Num(1)), Arith("subtract", Apply("f_1", <<Add(N, Num(1))>>), Add(N, A))))>>))

\* if in + 1 < in + in: both sides in the register
BothInRegister == OneInput(<<If(Less(Add(In, Num(1)), Add(In, In)), <<Assign(Out, Num(1))>>, << >>)>>)

\* An update by a comparison, which the parser only warns about; no input; two inputs
UpdateByComparison == OneInput(<<Update("add", X, Less(X, In)), Assign(Out, X)>>)
NoInput   == Script(<< >>, <<"out">>, <<Assign(Out, Unary("minus", Num(2)))>>, << >>)
TwoInputs == Script(<<"a", "b">>, <<"out", "x">>, <<Assign(X, Add(A, Out)), Assign(Out, Unary("factorial", X))>>, << >>)

\* A body of more than 127 instructions, and one of as many as a jump can pass
Times(n, s) == [k \in 1 .. n |-> s]
LongBody(n) == OneInput(<<If(Less(In, X), Times(n, Update("add", Out, X)), << >>)>>)
LongLoop(n) == OneInput(<<While(Less(Out, In), Times(n, Update("add", Out, X)))>>)
LongElse(n) == OneInput(<<If(Less(In, X), <<Update("add", Out, X)>>, Times(n, Update("subtract", Out, X)))>>)

\* More than 256 variables, in scopes of their own
ManyVariables == OneInput(Times(52,
    If(Less(In, X), <<Assign(Var("a"), In), Assign(Var("b"), A), Assign(Var("c"), A), Assign(Var("i"), A),
                      Assign(Var("n"), A)>>, << >>)))

Long == {LongBody(126), LongBody(127), LongLoop(125), LongLoop(126), LongElse(126), LongElse(127), ManyVariables}

ByHand == {AbsoluteValue, SumBelow, Overloads, Fibonacci, Features, Endless, BothInRegister,
           UpdateByComparison, NoInput, TwoInputs, SameNameTwice}

AllScripts == ExpressionScripts \cup StatementScripts \cup ByHand \cup Long
AllNodes   == NodesOf(AllScripts)
MCMinusOne == -1
MCScript   == AllScripts
MCNode     == AllNodes
MCInputs   == { <<v>> : v \in {-1, 0, 2} } \cup {<< >>, <<1, 2>>}
ComparisonOnly == {BothInRegister}
===============================================================================
