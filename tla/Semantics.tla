------------------------------- MODULE Semantics -------------------------------
(***************************************************************************)
(* What a script means, without scopes, vectors, flags or handlers: the    *)
(* reference that interpreted and compiled scripts are compared with.  An  *)
(* environment maps the visible names to bindings; expressions have values *)
(* and change nothing; a statement maps an environment to an outcome.      *)
(*                                                                         *)
(* Dividing by zero and the factorial of a negative integer are errors     *)
(* whatever the operand was computed by.  An update by what is no number,  *)
(* which the parser warns about and accepts, has no meaning.               *)
(***************************************************************************)
EXTENDS AST, TLC

Binding(value, is_constant, is_set) ==
    [value |-> value, is_constant |-> is_constant, is_set |-> is_set]

Good(v)   == [error |-> "ok", value |-> v]
Bad(code) == [error |-> code, value |-> Zero]

Applied(op, v, w) == IF op = "divide" /\ w = Zero THEN Bad("divide_by_zero") ELSE Good(Compute(op, v, w))

\* The outcome of a statement: the error, if any; whether a return was reached, its
\* value, and the environment.
Outcome(code, returned, value, env) ==
    [error |-> code, returned |-> returned, value |-> value, env |-> env]
Proceed(env)    == Outcome("ok", FALSE, Zero, env)
Stop(code, env) == Outcome(code, FALSE, Zero, env)

\* The bindings of env for the names of outer: what is left when a block ends.
Outer(env, outer) == [n \in DOMAIN outer |-> env[n]]
With(env, n, b)   == (n :> b) @@ env

RECURSIVE Eval(_, _, _), EvalAll(_, _, _), Exec(_, _, _), ExecAll(_, _, _)

\* The values of a sequence of expressions, or the first error.
EvalAll(es, env, functions) ==
    IF es = << >> THEN Good(<< >>)
    ELSE LET first == Eval(Head(es), env, functions)
             others == EvalAll(Tail(es), env, functions)
         IN  IF first.error # "ok" THEN first
             ELSE IF others.error # "ok" THEN others
             ELSE Good(<<first.value>> \o others.value)

Eval(e, env, functions) ==
    CASE e.type = "numeric_constant" -> Good(e.value)
      [] e.type = "variable_ref" ->
           IF e.name \in DOMAIN env THEN Good(env[e.name].value) ELSE Bad("unresolved_identifier")
      [] e.type = "arithmetic_operator" ->
           LET v == EvalAll(<<e.lhs, e.rhs>>, env, functions)
           IN  IF v.error # "ok" THEN v ELSE Applied(e.op, v.value[1], v.value[2])
      [] e.type = "relational_operator" ->
           LET v == EvalAll(<<e.lhs, e.rhs>>, env, functions)
           IN  IF v.error # "ok" THEN v ELSE Good(Compare(e.op, v.value[1], v.value[2]))
      [] e.type = "unary_operator" ->
           LET v == Eval(e.operand, env, functions)
           IN  IF v.error # "ok" THEN v
               ELSE IF e.op = "factorial" /\ Compare("less_than", v.value, Zero) /\ IsInteger(v.value)
                 THEN Bad("invalid_argument")
               ELSE Good(Compute(e.op, v.value, Zero))
      [] OTHER ->       \* a call: the function sees its arguments and nothing else
           IF e.callee \notin DOMAIN functions THEN Bad("unresolved_identifier")
           ELSE LET f == functions[e.callee]
                    v == EvalAll(e.arguments, env, functions)
                    local == [n \in { f.arguments[k] : k \in DOMAIN f.arguments } |->
                                Binding(v.value[CHOOSE k \in DOMAIN f.arguments : f.arguments[k] = n],
                                        TRUE, TRUE)]
                    body == ExecAll(f.body, local, functions)
                IN  IF v.error # "ok" THEN v
                    ELSE IF body.error # "ok" THEN Bad(body.error)
                    ELSE Good(body.value)

\* A block: its declarations end with it.
Block(body, env, functions) ==
    LET out == ExecAll(body, env, functions)
    IN  Outcome(out.error, out.returned, out.value, Outer(out.env, env))

Exec(s, env, functions) ==
    CASE s.type = "variable_decl" ->
           IF s.name \in DOMAIN env THEN Stop("duplicate_name", env)
           ELSE Proceed(With(env, s.name, Binding(Zero, s.is_const, FALSE)))
      [] s.type = "assignment" ->
           LET v == Eval(s.rhs, env, functions)
               d == IF s.lhs.type = "variable_decl" THEN Exec(s.lhs, env, functions) ELSE Proceed(env)
           IN  IF v.error # "ok" THEN Stop(v.error, env)
               ELSE IF d.error # "ok" THEN d
               ELSE IF s.lhs.name \notin DOMAIN d.env THEN Stop("unresolved_identifier", env)
               ELSE LET b == d.env[s.lhs.name]
                    IN  IF b.is_constant /\ b.is_set THEN Stop("constant_reassign", env)
                        ELSE Proceed(With(d.env, s.lhs.name, Binding(v.value, b.is_constant, TRUE)))
      [] s.type = "update_expression" ->
           LET v == Eval(s.rhs, env, functions)
               b == env[s.lhs.name]
               w == Applied(s.op, b.value, v.value)
           IN  IF s.rhs.type \notin NumberType THEN Stop("no_meaning", env)
               ELSE IF v.error # "ok" THEN Stop(v.error, env)
               ELSE IF s.lhs.name \notin DOMAIN env THEN Stop("unresolved_identifier", env)
               ELSE IF b.is_constant THEN Stop("constant_reassign", env)
               ELSE IF w.error # "ok" THEN Stop(w.error, env)
               ELSE Proceed(With(env, s.lhs.name, Binding(w.value, FALSE, TRUE)))
      [] s.type = "conditional_construct" ->
           LET c == Eval(s.condition, env, functions)
           IN  IF c.error # "ok" THEN Stop(c.error, env)
               ELSE Block(IF c.value THEN s.body ELSE s.else_body, env, functions)
      [] s.type = "loop" ->
           LET c    == Eval(s.condition, env, functions)
               once == Block(s.body, env, functions)
           IN  IF c.error # "ok" THEN Stop(c.error, env)
               ELSE IF ~c.value THEN Proceed(env)
               ELSE IF once.error # "ok" \/ once.returned THEN once
               ELSE Exec(s, once.env, functions)
      [] s.type = "function_return" ->
           LET v == Eval(s.return_value, env, functions)
           IN  Outcome(v.error, v.error = "ok", v.value, env)
      [] OTHER -> Stop(Eval(s, env, functions).error, env)

\* Nothing is executed after a return or an error.
ExecAll(body, env, functions) ==
    IF body = << >> THEN Proceed(env)
    ELSE LET out == Exec(Head(body), env, functions)
         IN  IF out.error # "ok" \/ out.returned THEN out
             ELSE ExecAll(Tail(body), out.env, functions)

\* The meaning of a program whose config block names its inputs and outputs properly.
Meaning(p, in) ==
    ExecAll(p.nodes,
            [n \in { p.inputs[k] : k \in DOMAIN p.inputs } \cup { p.outputs[k] : k \in DOMAIN p.outputs } |->
                IF n \in DOMAIN in THEN Binding(in[n], TRUE, TRUE) ELSE Binding(Zero, FALSE, TRUE)],
            p.functions)
===============================================================================
