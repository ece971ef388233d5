---------------------------- MODULE CompiledMeaning ----------------------------
(***************************************************************************)
(* What compiled scripts compute, compared with what scripts mean.         *)
(***************************************************************************)
EXTENDS Compiled

Mean == INSTANCE Semantics WITH Programs <- Scripts

Meant ==
    LET names == ast.inputs
    IN  Mean!Meaning(ast, [n \in { names[k] : k \in DOMAIN names } |->
                              input[CHOOSE k \in DOMAIN names : names[k] = n]])

\* A comparison of A with itself: its right-hand side has been overridden.
ComparesA(p) == \E f \in DOMAIN p.frames : \E k \in DOMAIN p.frames[f].code :
                   LET ins == p.frames[f].code[k]
                   IN  ins.op \in RelationalOps /\ ins.a = ins.b /\ ins.a = Asm!a_index

\* What compiled code does not do, and so is not asked to: execute is given one input at
\* most (VM keeps the last only), constants are variables, floating-point faults are
\* VM's own.
Comparable == /\ Len(input) =< 1
              /\ ~ComparesA(prog)
              /\ fe = {}
              /\ error \in {"ok", "divide_by_zero"}
              /\ Meant.error \in {"ok", "divide_by_zero"}

\* A compiled script computes what the script means, or divides by zero when it does:
\* registers, intermediates, cells of variables and jumps make no difference.
CompiledAgreesWithMeaning ==
    phase = "halted" /\ Comparable =>
      /\ error = Meant.error
      /\ error = "ok" => \A n \in DOMAIN scopes[1].table : mem[scopes[1].table[n].value] = Meant.env[n].value

\* A script that the interpreter would refuse for its names, once it came to them, is
\* refused before anything of it is executed.
NamesAreResolved ==
    phase = "halted" /\ error \in {"ok", "divide_by_zero"} /\ Len(input) =< 1 =>
      Meant.error \notin {"duplicate_name", "unresolved_identifier"}
===============================================================================
