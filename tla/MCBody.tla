-------------------------------- MODULE MCBody --------------------------------
(***************************************************************************)
(* Instances of BodyBlock for TLC.                                         *)
(***************************************************************************)
EXTENDS BodyBlock

CONSTANTS f_1, f_2      \* mangled names of functions

Line(kind, value)      == [kind |-> kind, value |-> value, name |-> NoName]
Definition(name, value) == [kind |-> "fn", value |-> value, name |-> name]

MCName == {f_1, f_2}

\* Every kind of line, with every type of expression.
AllLines ==
    { Line(kind, "absent") : kind \in {"statement", "invalid", "else", "endif", "endwhile", "endfn"} }
    \cup { Line(kind, value) : kind \in {"return", "if", "while"}, value \in LineValue \ {"absent"} }
    \cup { Definition(name, value) : name \in MCName \cup {NoName}, value \in LineValue \ {"boolean"} }

\* The lines of programs that may be accepted, for longer ones.
PlainLines ==
    { Line(kind, "absent") : kind \in {"statement", "else", "endif", "endwhile", "endfn"} }
    \cup { Line("return", "number"), Line("if", "boolean"), Line("while", "boolean"),
           Definition(f_1, "absent"), Definition(f_2, "number") }
===============================================================================
