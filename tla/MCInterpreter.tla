----------------------------- MODULE MCInterpreter -----------------------------
(***************************************************************************)
(* Instances of the interpreter for TLC.                                   *)
(***************************************************************************)
EXTENDS Interpretation, MCScripts

\* Scripts whose config block the interpreter refuses, and a factorial it refuses.
OtherInput    == Script(<<"a">>, <<"out">>, << >>, << >>)
NegativeFactorial == Script(<<"x">>, <<"out">>, <<Assign(Out, Unary("factorial", X)), Update("add", X, X)>>, << >>)

HandWritten == {AbsoluteValue, SumBelow, Overloads, Fibonacci, Features, ThreeArguments,
                SameNameTwice, OtherInput, NegativeFactorial}
AllPrograms == Family \cup HandWritten

\* fn f(n) = n - n;  out = x / f(x)
DivideByCall == Script(<<"x">>, <<"out">>, <<Assign(Out, Arith("divide", X, Apply("f_1", <<X>>)))>>,
    "f_1" :> Function(<<"n">>, <<Ret(Arith("subtract", N, N))>>))

AllParameters == { name :> v : name \in {"in", "x", "n"}, v \in {-1, 1, 2} } \cup {("in" :> 0) @@ ("x" :> 1)}

-------------------------------------------------------------------------------
\* TLC evaluates a definition once, but what a configuration puts in the place of a
\* constant every time it is used: hence a name for each.
AllNodes     == NodesOf(AllPrograms \cup {DivideByCall})
MCNode       == AllNodes
MCPrograms   == AllPrograms
OverloadsOnly == {Overloads}
DivisionOnly  == {DivideByCall}
MCParameters == AllParameters
===============================================================================
