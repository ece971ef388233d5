--------------------------------- MODULE MCVM ---------------------------------
(***************************************************************************)
(* Instances of VM for TLC: a small arithmetic and families of programs as *)
(* the Assembler emits them.                                               *)
(***************************************************************************)
EXTENDS VM, FiniteSets

CONSTANTS NaN,      \* a model value: not a number
          Limit     \* the largest magnitude; larger results saturate, as at infinity

MCValue == (-Limit .. Limit) \cup {NaN}
Saturate(n) == IF n > Limit THEN Limit ELSE IF n < -Limit THEN -Limit ELSE n

Magnitude(v) == IF v < 0 THEN -v ELSE v
Quotient(v, w) == (IF (v < 0) = (w < 0) THEN 1 ELSE -1) * (Magnitude(v) \div Magnitude(w))
\* x^y for the small values here: 0^0 = 1, and 0^y for y < 0 is a pole.
Power(v, w) == IF w < 0 THEN (IF v = 0 THEN Limit ELSE IF v \in {1, -1} THEN v ^ (-w) ELSE 0)
               ELSE IF w = 0 THEN 1 ELSE v ^ w
\* tgamma(x + 1): the factorial, a pole at -1, undefined at -2, -3, ...
Factorial(v) == IF v >= 3 THEN 6 ELSE IF v = 2 THEN 2 ELSE 1

MCCompute(op, v, w) ==
    IF v = NaN \/ w = NaN THEN NaN
    ELSE IF op = "fac" /\ v < -1 THEN NaN
    ELSE Saturate(CASE op \in {"add", "inc"} -> v + w
                    [] op \in {"sub", "dec"} -> v - w
                    [] op \in {"mul", "mas"} -> v * w
                    [] op \in {"div", "das"} -> IF w = 0 THEN 0 ELSE Quotient(v, w)
                    [] op \in {"pow", "pas"} -> Power(v, w)
                    [] op = "mag"            -> Magnitude(v)
                    [] op = "fac"            -> IF v = -1 THEN Limit ELSE Factorial(v)
                    [] OTHER                 -> 0)

MCCompare(op, v, w) ==
    IF v = NaN \/ w = NaN THEN op = "cne"
    ELSE CASE op = "clt" -> v < w
           [] op = "cgt" -> v > w
           [] op = "ceq" -> v = w
           [] OTHER      -> v # w

\* Ordered comparisons with NaN are invalid; == and != are quiet.
MCRaised(op, v, w) ==
    IF v = NaN \/ w = NaN THEN IF op \in {"clt", "cgt"} THEN {"invalid"} ELSE {}
    ELSE IF op = "fac" THEN IF v = -1 THEN {"divbyzero"} ELSE IF v < -1 THEN {"invalid"} ELSE {}
    ELSE IF op \in {"pow", "pas"} /\ v = 0 /\ w < 0 THEN {"divbyzero"}
    ELSE {}

-------------------------------------------------------------------------------
\* Memory indices and instructions.
None == [type |-> "none", value |-> 0]
S(n) == [type |-> "stack", value |-> n]
T(n) == [type |-> "intermediate", value |-> n]
K(n) == [type |-> "immediate", value |-> n]
J(n) == [type |-> "jump_offset", value |-> n]
A    == S(0)

I2(op, i, j) == [op |-> op, a |-> i, b |-> j]
I1(op, i)    == I2(op, i, None)
I0(op)       == I2(op, None, None)

Constants012 == <<0, 1, -1>>
Program(in, out, frames) ==
    [inputs |-> in, outputs |-> out, immediates |-> Constants012, frames |-> frames]

\* A main program that calls frame 1 with its input and one instruction before
\* and one after the call, and a callee of two instructions.
CallerFrame(i, j) ==
    [size |-> 3, code |-> <<I2("put", S(1), S(1)), i, I1("jsr", K(1)), j, I0("hlt")>>]
CalleeFrame(i, j) == [size |-> 2, code |-> <<i, j, I0("ret")>>]

CallerCode == { I2("mov", A, S(2)),     I2("add", S(1), A),     I2("das", S(2), S(1)),
                I1("fac", A),           I2("div", K(1), A),     I2("put", A, S(1)),
                I1("jsr", K(1)) }
CalleeCode == { I2("mov", S(1), A),     I2("inc", S(1), K(1)),  I2("pow", A, S(1)),
                I2("put", S(1), S(1)),  I1("jsr", K(1)),        I2("clt", S(1), K(0)),
                I1("jpz", J(1)),        I1("jmp", J(1)),        I1("mag", S(1)),
                I1("fac", S(1)),        I1("jpz", J(-1)),       I2("cgt", S(1), K(0)) }

CallFamily ==
    { Program(1, 1, <<CallerFrame(i, j), CalleeFrame(k, l)>>) :
        i \in CallerCode, j \in CallerCode, k \in CalleeCode \ {I1("jpz", J(-1))}, l \in CalleeCode }

\* fn f(n) / if n < 1 / return 0 / endif / return n + f(n - 1) / endfn;  out = f(in)
SumToN == Program(1, 1, <<
    [size |-> 3, code |-> <<I2("put", S(1), S(1)), I1("jsr", K(1)), I2("mov", A, S(2)), I0("hlt")>>],
    [size |-> 3, code |-> <<I2("clt", S(1), K(1)), I1("jpz", J(3)),
                            I2("mov", K(0), A), I0("ret"),
                            I2("sub", S(1), K(1)), I2("put", A, S(1)), I1("jsr", K(1)),
                            I2("mov", A, T(2)), I2("add", S(1), T(2)), I0("ret")>>] >>)

\* fn f(a, b) = a / b;  fn g(a) = f(a, a!) + f(a!, a);  out = g(in)
TwoCallees == Program(1, 1, <<
    [size |-> 3, code |-> <<I2("put", S(1), S(1)), I1("jsr", K(1)), I2("mov", A, S(2)), I0("hlt")>>],
    [size |-> 4, code |-> <<I1("fac", S(1)), I2("mov", A, T(2)),
                            I2("put", T(2), S(1)), I2("put", S(1), S(2)), I1("jsr", K(2)),
                            I2("mov", A, T(3)),
                            I1("fac", S(1)), I2("put", S(1), S(1)), I2("put", A, S(2)), I1("jsr", K(2)),
                            I2("add", A, T(3)), I0("ret")>>],
    [size |-> 3, code |-> <<I2("div", S(1), S(2)), I0("ret")>>] >>)

\* while in < 1 / in += 1 / endwhile;  no output
CountUp == Program(1, 0, <<
    [size |-> 2, code |-> <<I2("clt", S(1), K(1)), I1("jpz", J(3)),
                            I2("inc", S(1), K(1)), I1("jmp", J(-3)), I0("hlt")>>] >>)

\* out ^= out; out = -1 / out; no input
NoInput == Program(0, 1, <<
    [size |-> 2, code |-> <<I2("pas", S(1), S(1)), I2("div", K(2), S(1)), I2("mov", A, S(1)),
                            I0("hlt")>>] >>)

\* The absolute value example of the README: input x, output out.
Absolute == Program(1, 1, <<
    [size |-> 3, code |-> <<I2("clt", S(1), K(0)), I1("jpz", J(4)),
                            I2("mul", S(1), K(2)), I2("mov", A, S(2)), I1("jmp", J(2)),
                            I2("mov", S(1), S(2)), I0("hlt")>>] >>)

HandWritten == {SumToN, TwoCallees, CountUp, NoInput, Absolute}
MCPrograms  == CallFamily \cup HandWritten

\* A smaller family, for liveness and for the counterexamples.
LivePrograms == HandWritten \cup
    { Program(1, 1, <<CallerFrame(I1("fac", A), I2("div", K(1), A)), CalleeFrame(k, l)>>) :
        k \in CalleeCode \ {I1("jpz", J(-1))}, l \in CalleeCode }

MCInputs == {<< >>} \cup { <<v>> : v \in {-1, 0, 1} } \cup {<<0, 1>>}
MCSlots  == {0, 1}

\* The example's promise: an execution that succeeds outputs the absolute value.
AbsoluteIsOutput ==
    [][(phase = "halted" /\ prog = Absolute /\ result' = "ok" /\ phase' = "idle")
         => outputs' = <<Magnitude(input[1])>>]_vars
===============================================================================
