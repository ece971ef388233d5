---------------------------- MODULE Interpretation ----------------------------
(***************************************************************************)
(* The interpreter, compared with what the scripts mean.                   *)
(***************************************************************************)
EXTENDS Interpreter, Semantics

\* The values of the global names, as they are printed when the program is done.
Globals == [n \in DOMAIN scopes[1].table |-> get_descriptor_value(scopes[1].table[n])]

\* An execution that comes to its end has computed what the script means, and an
\* execution fails when, and with the error that, the script has one: the indirection
\* through descriptors, the flags and the mode of references make no difference, nor
\* does the order in which the entries of a scope are erased.
AgreesWithMeaning ==
    phase \in {"done", "failed"} /\ PopulateError = "ok" =>
      LET out == Meaning(ast, parameters)
      IN  \/ out.error = "no_meaning"
          \/ /\ error = out.error
             /\ phase = "done" => Globals = [n \in DOMAIN out.env |-> out.env[n].value]
===============================================================================
