----------------------------- MODULE BodyGrammar -----------------------------
(***************************************************************************)
(* What the parser promises of the body block of a script, line by line:   *)
(* if/else/endif, while/endwhile and fn/endfn nest, functions are defined  *)
(* at the outermost level and once per name and number of arguments, return*)
(* appears only in a function, and a function ends with a return.          *)
(***************************************************************************)
EXTENDS BodyLine, Naturals, Sequences

VARIABLES
    open,       \* the constructs that are open, the outermost first
    last,       \* the last item of the body of the open function, if any
    defined,    \* the functions that are defined
    verdict     \* "reading", "accepted", "refused", or "undefined": see EndFunction

grammar == <<open, last, defined, verdict>>

Construct == {"conditional", "loop", "function"}
Item      == {"nothing", "return", "other"}

InFunction   == open # << >> /\ open[1] = "function"
Innermost(c) == open # << >> /\ open[Len(open)] = c

Init == open = << >> /\ last = "nothing" /\ defined = {} /\ verdict = "reading"

\* An item of the body of a function counts when nothing is open inside the function.
Follows(item) == last' = IF open = <<"function">> THEN item ELSE last

Refuse == /\ verdict' = "refused"
          /\ UNCHANGED <<open, last>>

Statement(l) == /\ l.kind = "statement"
                /\ Follows("other")
                /\ UNCHANGED <<open, defined, verdict>>

Return(l) == /\ l.kind = "return" /\ l.value = "number" /\ InFunction
             /\ Follows("return")
             /\ UNCHANGED <<open, defined, verdict>>

Header(l, kind, construct) == /\ l.kind = kind /\ l.value = "boolean"
                              /\ Follows("other")
                              /\ open' = Append(open, construct)
                              /\ UNCHANGED <<defined, verdict>>

Else(l) == /\ l.kind = "else" /\ Innermost("conditional")
           /\ UNCHANGED grammar

Footer(l, kind, construct) == /\ l.kind = kind /\ Innermost(construct)
                              /\ open' = SubSeq(open, 1, Len(open) - 1)
                              /\ UNCHANGED <<last, defined, verdict>>

NewFunction(l) == /\ l.kind = "fn" /\ open = << >>
                  /\ l.name \in Name \ defined
                  /\ defined' = defined \cup {l.name}
                  /\ UNCHANGED verdict

BeginFunction(l)  == /\ NewFunction(l) /\ l.value = "absent"
                     /\ open' = <<"function">> /\ last' = "nothing"

OneLineFunction(l) == /\ NewFunction(l) /\ l.value = "number"
                      /\ UNCHANGED <<open, last>>

\* Nothing is promised of a function with an empty body.
EndFunction(l) ==
    /\ l.kind = "endfn" /\ Innermost("function")
    /\ \/ /\ last = "return"
          /\ open' = << >> /\ last' = "nothing"
          /\ UNCHANGED verdict
       \/ /\ last = "nothing"
          /\ verdict' = "undefined"
          /\ UNCHANGED <<open, last>>
    /\ UNCHANGED defined

Understood(l) ==
    \/ l.kind = "statement"
    \/ l.kind = "return" /\ l.value = "number" /\ InFunction
    \/ l.kind \in {"if", "while"} /\ l.value = "boolean"
    \/ l.kind \in {"else", "endif"} /\ Innermost("conditional")
    \/ l.kind = "endwhile" /\ Innermost("loop")
    \/ l.kind = "fn" /\ open = << >> /\ l.name \in Name \ defined /\ l.value \in {"absent", "number"}
    \/ l.kind = "endfn" /\ Innermost("function") /\ last # "other"

Read(l) ==
    \/ Statement(l) \/ Return(l) \/ Else(l)
    \/ Header(l, "if", "conditional") \/ Footer(l, "endif", "conditional")
    \/ Header(l, "while", "loop")     \/ Footer(l, "endwhile", "loop")
    \/ BeginFunction(l) \/ OneLineFunction(l) \/ EndFunction(l)
    \/ ~Understood(l) /\ Refuse /\ defined' \in {defined, defined \cup ({l.name} \cap Name)}

\* The end of the source: everything has been closed.
End == /\ verdict' = IF open = << >> THEN "accepted" ELSE "refused"
       /\ UNCHANGED <<open, last, defined>>

Next == verdict = "reading" /\ (End \/ \E l \in Lines : Read(l))

Spec == Init /\ [][Next]_grammar
===============================================================================
