------------------------------ MODULE BodyLine -------------------------------
(***************************************************************************)
(* The lines of a body block, as the grammar and the parser tell them      *)
(* apart.  value is the type of the expression of an if, while, return or  *)
(* one-line fn ("error" when the expression itself is refused, "absent"    *)
(* when the line has none); name is the mangled name of an fn, or NoName.  *)
(***************************************************************************)
CONSTANTS
    Name,           \* the mangled names of functions
    NoName,         \* the name of a line that names no function, or not with a valid argument list
    Lines           \* the source lines

LineKind  == {"statement", "return", "if", "else", "endif", "while", "endwhile", "fn", "endfn",
              "invalid"}
LineValue == {"number", "boolean", "variable_ref", "error", "absent"}

ASSUME LinesAssumption ==
    /\ NoName \notin Name
    /\ Lines \subseteq [kind : LineKind, value : LineValue, name : Name \cup {NoName}]
===============================================================================
