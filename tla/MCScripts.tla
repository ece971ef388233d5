------------------------------- MODULE MCScripts -------------------------------
(***************************************************************************)
(* Scripts for TLC, as ASTs: a small arithmetic, a family of functions and *)
(* callers, and the scripts of the repository's README and tests.          *)
(***************************************************************************)
EXTENDS Tree, TLC

CONSTANTS NaN,      \* a model value: not a number
          Limit     \* the largest magnitude; larger results saturate, as at infinity

MCValue == (-Limit .. Limit) \cup {NaN}

Saturate(n)    == IF n > Limit THEN Limit ELSE IF n < -Limit THEN -Limit ELSE n
Magnitude(v)   == IF v < 0 THEN -v ELSE v
Quotient(v, w) == IF w = 0 THEN NaN        \* not reached unless the check for zero is missed
                  ELSE (IF (v < 0) = (w < 0) THEN 1 ELSE -1) * (Magnitude(v) \div Magnitude(w))
Power(v, w)    == IF w >= 0 THEN (IF w = 0 THEN 1 ELSE v ^ w)
                  ELSE IF v = 0 THEN Limit ELSE IF v \in {1, -1} THEN v ^ (-w) ELSE 0
Gamma(v)       == IF v < 0 THEN NaN ELSE IF v = 0 THEN 1 ELSE IF v = 3 THEN 6 ELSE v

MCCompute(op, v, w) ==
    IF v = NaN \/ w = NaN THEN NaN
    ELSE LET n == CASE op = "add"       -> v + w
                    [] op = "subtract"  -> v - w
                    [] op = "multiply"  -> v * w
                    [] op = "divide"    -> Quotient(v, w)
                    [] op = "power"     -> Power(v, w)
                    [] op = "minus"     -> -v
                    [] op = "plus"      -> v
                    [] op = "factorial" -> Gamma(v)
                    [] OTHER            -> Magnitude(v)
         IN  IF n = NaN THEN NaN ELSE Saturate(n)

MCCompare(op, v, w) ==
    IF v = NaN \/ w = NaN THEN op = "not_equals"
    ELSE CASE op = "less_than"    -> v < w
           [] op = "greater_than" -> v > w
           [] op = "equals"       -> v = w
           [] OTHER               -> v # w

MCIsInteger(v) == v # NaN

-------------------------------------------------------------------------------
\* Nodes.
Num(v)         == [type |-> "numeric_constant", value |-> v]
Ref(n)         == [type |-> "variable_ref", name |-> n]
Var(n)         == [type |-> "variable_decl", name |-> n, is_const |-> FALSE]
Let(n)         == [type |-> "variable_decl", name |-> n, is_const |-> TRUE]
Arith(op, x, y) == [type |-> "arithmetic_operator", op |-> op, lhs |-> x, rhs |-> y]
Unary(op, x)   == [type |-> "unary_operator", op |-> op, operand |-> x]
Rel(op, x, y)  == [type |-> "relational_operator", op |-> op, lhs |-> x, rhs |-> y]
Assign(x, y)   == [type |-> "assignment", lhs |-> x, rhs |-> y]
Update(op, x, y) == [type |-> "update_expression", op |-> op, lhs |-> x, rhs |-> y]
If(c, s, t)    == [type |-> "conditional_construct", condition |-> c, body |-> s, else_body |-> t]
While(c, s)    == [type |-> "loop", condition |-> c, body |-> s]
Apply(f, args)  == [type |-> "function_call", callee |-> f, arguments |-> args]
Ret(x)         == [type |-> "function_return", return_value |-> x]

Add(x, y)  == Arith("add", x, y)
Less(x, y) == Rel("less_than", x, y)

Function(args, body) == [arguments |-> args, body |-> body]
Script(in, out, nodes, functions) ==
    [inputs |-> in, outputs |-> out, nodes |-> nodes, functions |-> functions]

MCName         == {"a", "b", "c", "i", "n", "x", "in", "out"}
MCFunctionName == {"f_0", "f_1", "f_2", "f_3", "g_1"}

-------------------------------------------------------------------------------
(***************************************************************************)
(* The family: a function f(a, b) of two statements and a return, and a    *)
(* statement that calls it.  g(n) is the sum of 1 .. n, recursively.       *)
(***************************************************************************)
A   == Ref("a")
B   == Ref("b")
X   == Ref("x")
N   == Ref("n")
In  == Ref("in")
Out == Ref("out")

SumTo == Function(<<"n">>, << If(Less(N, Num(1)), <<Ret(N)>>, << >>),
                              Ret(Add(N, Apply("g_1", <<Arith("subtract", N, Num(1))>>))) >>)

\* Declarations without a value, in a branch.
WithoutValues ==
    If(Less(B, A), <<Assign(Var("x"), B), Ret(Add(X, A))>>, <<Var("x"), Let("c"), Update("subtract", X, A)>>)

Statements ==
    { Assign(Var("x"), A),
      Update("add", X, B),
      Assign(Let("a"), Num(1)),
      If(Less(A, B), <<Ret(A)>>, <<Assign(A, B)>>),
      WithoutValues,
      While(Less(X, Num(1)), <<Update("add", X, Num(1)), If(Less(A, X), <<Ret(X)>>, << >>)>>),
      While(Less(A, Num(1)), <<Assign(Let("c"), A), Ret(Add(Ref("c"), B))>>),
      Assign(Let("out"), Apply("g_1", <<B>>)),
      Update("add", Out, Num(1)) }

Returns == { X, Arith("divide", B, A), Apply("g_1", <<Add(A, B)>>) }

Callers2 ==
    { Assign(Out, Apply("f_2", <<In, Num(1)>>)),
      Assign(Out, Add(Num(1), Apply("f_2", <<Apply("f_2", <<Num(0), In>>), In>>))),
      If(Less(Apply("f_2", <<In, Num(0)>>), In),
         <<Let("c"), Assign(Let("x"), Apply("f_2", <<Num(1), In>>)), Assign(Out, X)>>,
         <<Update("subtract", Out, Apply("g_1", <<In>>))>>),
      While(Less(Out, Apply("f_2", <<In, Num(1)>>)), <<Var("x"), Update("add", Out, Num(1))>>) }

Family ==
    { Script(<<"in">>, <<"out">>, <<Assign(Var("x"), Num(2)), m>>,
             ("f_2" :> Function(<<"a", "b">>, <<s, t, Ret(r)>>)) @@ ("g_1" :> SumTo)) :
        s \in Statements, t \in Statements, r \in Returns, m \in Callers2 }

-------------------------------------------------------------------------------
(***************************************************************************)
(* Scripts by hand.                                                        *)
(***************************************************************************)
\* README: the absolute value, and the sum of all positive numbers smaller than n
AbsoluteValue == Script(<<"x">>, <<"out">>,
    <<If(Less(X, Num(0)), <<Assign(Out, Unary("minus", X))>>, <<Assign(Out, X)>>)>>, << >>)

SumBelow == Script(<<"n">>, <<"out">>,
    <<Assign(Var("i"), Num(0)),
      While(Less(Ref("i"), N), <<Update("add", Out, Ref("i")), Update("add", Ref("i"), Num(1))>>)>>, << >>)

\* README: a function overloaded on the number of its parameters
Overloads == Script(<<"in">>, <<"out">>, <<Assign(Out, Apply("f_1", <<In>>))>>,
    ("f_2" :> Function(<<"a", "b">>, <<Ret(Arith("power", A, B))>>)) @@
    ("f_1" :> Function(<<"x">>, <<Ret(Apply("f_2", <<X, Num(2)>>))>>)))

\* shared/test/fib.rsc
Fibonacci == Script(<<"n">>, <<"out">>, <<Assign(Out, Apply("f_1", <<N>>))>>,
    "f_1" :> Function(<<"n">>,
        <<If(Less(N, Num(2)), <<Ret(N)>>, << >>),
          Ret(Add(Apply("f_1", <<Arith("subtract", N, Num(1))>>),
                  Apply("f_1", <<Arith("subtract", N, Num(2))>>)))>>))

\* shared/test/features.rsc: constants that are implicitly initialized, updates, unary operators
Features == Script(<<"in">>, <<"out">>,
    <<Let("i"), Assign(Var("n"), Num(1)),
      Assign(Let("c"), Arith("power", Add(N, Ref("i")), Num(2))),
      Assign(Var("x"), Unary("factorial", Unary("magnitude", Add(Ref("c"), In)))),
      If(Less(X, Num(0)), <<Update("divide", X, Unary("minus", Num(1)))>>, <<Update("power", X, Unary("plus", In))>>),
      While(Rel("not_equals", N, Num(3)), <<Update("add", N, Num(1))>>),
      Assign(Ref("i"), Arith("divide", X, In)), Assign(Out, Ref("i")), Update("multiply", Ref("c"), Num(2))>>, << >>)

\* Errors: below scopes of every kind, and in the config block
ThreeArguments == Script(<<"in">>, <<"out">>,
    <<Assign(Var("a"), Num(1)), Assign(Out, Add(Apply("f_3", <<A, In, Apply("f_0", << >>)>>), A)),
      Apply("f_1", <<In>>)>>,
    ("f_0" :> Function(<< >>, <<Ret(Num(2))>>)) @@
    ("f_3" :> Function(<<"a", "b", "c">>,
        <<While(Rel("greater_than", Ref("c"), Num(0)),
            <<Let("x"), If(Rel("equals", A, B), <<Var("n"), Update("divide", N, X)>>, <<Ret(Ref("c"))>>)>>),
          Ret(A)>>)))

\* A name that is both an input and an output
SameNameTwice == Script(<<"x">>, <<"x">>, << >>, << >>)

-------------------------------------------------------------------------------
\* All nodes of programs, down to a depth that no node of theirs has.
Depth == 8
NodesOf(programs) ==
    LET level[d \in 0 .. Depth] ==
            IF d = 0 THEN UNION { ProgramNodes(p) : p \in programs }
            ELSE UNION { Children(s) : s \in level[d - 1] }
    IN  UNION { level[d] : d \in 0 .. Depth }
===============================================================================
