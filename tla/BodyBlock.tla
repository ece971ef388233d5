------------------------------ MODULE BodyBlock ------------------------------
(***************************************************************************)
(* parse_body_block of the parser (Parser/src/BodyBlock.cpp): the lines of *)
(* the body block become the AST one after the other.  The AST is a set of *)
(* node lists; a list is known by its index in lists.  A scope refers to   *)
(* the list that nodes are appended to, and ParsingContext::conditionals   *)
(* to the two bodies of the conditionals that are open.                    *)
(*                                                                         *)
(* Lines are those of BodyLine.  How the tokens of a line are matched   *)
(* and how its expression is parsed is abstracted to the kind of the line  *)
(* and to the type of the expression: a one-line fn with a boolean value   *)
(* is matched as a comparison first and has kind "invalid".                *)
(***************************************************************************)
EXTENDS BodyLine, Naturals, Sequences, FiniteSets

CONSTANT MaxLines       \* a bound on the number of lines

VARIABLES
    source,                 \* the lines read so far
    outcome,                \* "reading", then "accepted", an error code or "crashed"
    lists,                  \* the lists of AST nodes; the first one is ast.nodes
    functions,              \* ast.functions: the list of a function's body, 0 if undefined
    scopes,                 \* ParsingContext::scopes, the innermost last
    conditionals,           \* ParsingContext::conditionals
    is_in_function_scope    \* ParsingContext::is_in_function_scope

context == <<scopes, conditionals, is_in_function_scope>>
vars    == <<source, outcome, lists, functions, scopes, conditionals, is_in_function_scope>>

Failure == {"invalid_construct", "return_in_invalid_scope", "return_expression_not_number_type",
            "conditional_construct_condition_not_boolean_type", "mismatched_else",
            "mismatched_header_footer_type", "loop_condition_not_boolean_type",
            "invalid_function_definition", "invalid_function_argument_list", "duplicate_function",
            "simple_function_value_not_number_type", "mismatched_endfn", "missing_return"}

top         == scopes[Len(scopes)]
Popped(s)   == SubSeq(s, 1, Len(s) - 1)
NewList(n)  == Len(lists) + n

\* A node remembers the line it comes from and the lists it refers to.
Node(type, body, else_body) ==
    [line |-> Len(source) + 1, type |-> type, body |-> body, else_body |-> else_body]

\* Append a node to the list of the innermost scope; new lists come after the others.
Place(node, new) == lists' = [lists EXCEPT ![top.nodes] = Append(@, node)] \o new

Fail(code) == outcome' = code /\ UNCHANGED context

\* The error that a wrong expression gives: its own, or that of its type.
Reason(l, code) == IF l.value = "error" THEN "invalid_construct" ELSE code

Proceed == UNCHANGED outcome

-------------------------------------------------------------------------------
(***************************************************************************)
(* The handlers of the kinds of lines.                                     *)
(***************************************************************************)
handle_statement(l) ==
    /\ l.kind = "statement"
    /\ Place(Node("statement", 0, 0), << >>)
    /\ Proceed /\ UNCHANGED <<functions, context>>

\* an empty line, or one that matches no pattern or is refused by its own checks
handle_unknown(l) ==
    /\ l.kind = "invalid"
    /\ Fail("invalid_construct") /\ UNCHANGED <<lists, functions>>

handle_return(l) ==
    /\ l.kind = "return"
    /\ \/ /\ ~is_in_function_scope
          /\ Fail("return_in_invalid_scope") /\ UNCHANGED lists
       \/ /\ is_in_function_scope /\ l.value # "number"
          /\ Fail(Reason(l, "return_expression_not_number_type")) /\ UNCHANGED lists
       \/ /\ is_in_function_scope /\ l.value = "number"
          /\ Place(Node("function_return", 0, 0), << >>)
          /\ Proceed /\ UNCHANGED context
    /\ UNCHANGED functions

\* mutant of handle_conditional_header: the node is appended after the scope is pushed
handle_conditional_header_inside(l) ==
    /\ l.kind = "if"
    /\ \/ /\ l.value # "boolean"
          /\ Fail(Reason(l, "conditional_construct_condition_not_boolean_type")) /\ UNCHANGED lists
       \/ /\ l.value = "boolean"
          /\ lists' = lists \o << <<Node("conditional_construct", NewList(1), NewList(2))>>, << >> >>
          /\ scopes' = Append(scopes, [type |-> "conditional", nodes |-> NewList(1)])
          /\ conditionals' = Append(conditionals, [body |-> NewList(1), else_body |-> NewList(2)])
          /\ Proceed /\ UNCHANGED is_in_function_scope
    /\ UNCHANGED functions

\* new_scope_started: the node goes to the scope that was innermost before the header.
handle_conditional_header(l) ==
    /\ l.kind = "if"
    /\ \/ /\ l.value # "boolean"
          /\ Fail(Reason(l, "conditional_construct_condition_not_boolean_type")) /\ UNCHANGED lists
       \/ /\ l.value = "boolean"
          /\ Place(Node("conditional_construct", NewList(1), NewList(2)), << << >>, << >> >>)
          /\ scopes' = Append(scopes, [type |-> "conditional", nodes |-> NewList(1)])
          /\ conditionals' = Append(conditionals, [body |-> NewList(1), else_body |-> NewList(2)])
          /\ Proceed /\ UNCHANGED is_in_function_scope
    /\ UNCHANGED functions

handle_conditional_else(l) ==
    /\ l.kind = "else"
    /\ \/ top.type # "conditional" /\ Fail("mismatched_else")
       \/ /\ top.type = "conditional"
          /\ scopes' = [scopes EXCEPT ![Len(scopes)].nodes = conditionals[Len(conditionals)].else_body]
          /\ Proceed /\ UNCHANGED <<conditionals, is_in_function_scope>>
    /\ UNCHANGED <<lists, functions>>

\* mutant of handle_conditional_footer: conditionals is not popped
handle_conditional_footer_keep(l) ==
    /\ l.kind = "endif"
    /\ \/ top.type # "conditional" /\ Fail("mismatched_header_footer_type")
       \/ /\ top.type = "conditional"
          /\ scopes' = Popped(scopes)
          /\ Proceed /\ UNCHANGED <<conditionals, is_in_function_scope>>
    /\ UNCHANGED <<lists, functions>>

handle_conditional_footer(l) ==
    /\ l.kind = "endif"
    /\ \/ top.type # "conditional" /\ Fail("mismatched_header_footer_type")
       \/ /\ top.type = "conditional"
          /\ conditionals' = Popped(conditionals)
          /\ scopes' = Popped(scopes)
          /\ Proceed /\ UNCHANGED is_in_function_scope
    /\ UNCHANGED <<lists, functions>>

handle_loop_header(l) ==
    /\ l.kind = "while"
    /\ \/ /\ l.value # "boolean"
          /\ Fail(Reason(l, "loop_condition_not_boolean_type")) /\ UNCHANGED lists
       \/ /\ l.value = "boolean"
          /\ Place(Node("loop", NewList(1), 0), << << >> >>)
          /\ scopes' = Append(scopes, [type |-> "loop", nodes |-> NewList(1)])
          /\ Proceed /\ UNCHANGED <<conditionals, is_in_function_scope>>
    /\ UNCHANGED functions

\* mutant of handle_loop_footer: the type of the scope is not checked
handle_loop_footer_unchecked(l) ==
    /\ l.kind = "endwhile"
    /\ scopes' = Popped(scopes)
    /\ Proceed /\ UNCHANGED <<conditionals, is_in_function_scope, lists, functions>>

handle_loop_footer(l) ==
    /\ l.kind = "endwhile"
    /\ \/ top.type # "loop" /\ Fail("mismatched_header_footer_type")
       \/ /\ top.type = "loop"
          /\ scopes' = Popped(scopes)
          /\ Proceed /\ UNCHANGED <<conditionals, is_in_function_scope>>
    /\ UNCHANGED <<lists, functions>>

\* functions.insert: the body of the function is a list of its own.
Define(name, body) == /\ functions' = [functions EXCEPT ![name] = NewList(1)]
                      /\ lists' = Append(lists, body)

\* mutant of GlobalScopeOnly: functions may be defined anywhere outside of functions
GlobalScopeOnly_off == ~is_in_function_scope

GlobalScopeOnly == top.type = "global"

handle_function_defintion(l) ==
    /\ l.kind = "fn"
    /\ \/ /\ ~GlobalScopeOnly
          /\ Fail("invalid_function_definition") /\ UNCHANGED <<lists, functions>>
       \/ /\ GlobalScopeOnly /\ l.name = NoName
          /\ Fail("invalid_function_argument_list") /\ UNCHANGED <<lists, functions>>
       \/ /\ GlobalScopeOnly /\ l.name \in Name /\ functions[l.name] # 0
          /\ Fail("duplicate_function") /\ UNCHANGED <<lists, functions>>
       \/ /\ GlobalScopeOnly /\ l.name \in Name /\ functions[l.name] = 0
          /\ \/ /\ l.value = "absent"
                /\ Define(l.name, << >>)
                /\ scopes' = Append(scopes, [type |-> "function", nodes |-> NewList(1)])
                /\ is_in_function_scope' = TRUE
                /\ Proceed /\ UNCHANGED conditionals
             \/ /\ l.value \notin {"absent", "number"}
                /\ Define(l.name, << >>)
                /\ Fail(Reason(l, "simple_function_value_not_number_type"))
             \/ /\ l.value = "number"
                /\ Define(l.name, <<Node("function_return", 0, 0)>>)
                /\ Proceed /\ UNCHANGED context

\* mutant of handle_function_footer: a return anywhere in the body will do
handle_function_footer_any(l) ==
    /\ l.kind = "endfn"
    /\ \/ top.type # "function" /\ Fail("mismatched_endfn")
       \/ /\ top.type = "function" /\ lists[top.nodes] = << >>
          /\ Fail("crashed")
       \/ /\ top.type = "function" /\ lists[top.nodes] # << >>
          /\ IF \A n \in 1 .. Len(lists[top.nodes]) : lists[top.nodes][n].type # "function_return"
               THEN Fail("missing_return")
               ELSE /\ scopes' = Popped(scopes)
                    /\ is_in_function_scope' = FALSE
                    /\ Proceed /\ UNCHANGED conditionals
    /\ UNCHANGED <<lists, functions>>

\* back() of an empty body: the type is read in front of storage that was never allocated.
handle_function_footer(l) ==
    /\ l.kind = "endfn"
    /\ \/ top.type # "function" /\ Fail("mismatched_endfn")
       \/ /\ top.type = "function" /\ lists[top.nodes] = << >>
          /\ Fail("crashed")
       \/ /\ top.type = "function" /\ lists[top.nodes] # << >>
          /\ IF lists[top.nodes][Len(lists[top.nodes])].type # "function_return"
               THEN Fail("missing_return")
               ELSE /\ scopes' = Popped(scopes)
                    /\ is_in_function_scope' = FALSE
                    /\ Proceed /\ UNCHANGED conditionals
    /\ UNCHANGED <<lists, functions>>

-------------------------------------------------------------------------------
Init ==
    /\ source = << >>
    /\ outcome = "reading"
    /\ lists = << << >> >>
    /\ functions = [n \in Name |-> 0]
    /\ scopes = << [type |-> "global", nodes |-> 1] >>
    /\ conditionals = << >>
    /\ is_in_function_scope = FALSE

\* One iteration of the loop over the lines; nothing is read after an error.
parse_line(l) ==
    /\ outcome = "reading"
    /\ Len(source) < MaxLines
    /\ source' = Append(source, l)
    /\ \/ handle_statement(l) \/ handle_unknown(l) \/ handle_return(l)
       \/ handle_conditional_header(l) \/ handle_conditional_else(l) \/ handle_conditional_footer(l)
       \/ handle_loop_header(l) \/ handle_loop_footer(l)
       \/ handle_function_defintion(l) \/ handle_function_footer(l)

\* After the last line.
finish ==
    /\ outcome = "reading"
    /\ outcome' = IF Len(scopes) # 1 THEN "mismatched_header_footer_type" ELSE "accepted"
    /\ UNCHANGED <<source, lists, functions, context>>

Next == finish \/ \E l \in Lines : parse_line(l)

Spec == Init /\ [][Next]_vars

-------------------------------------------------------------------------------
(***************************************************************************)
(* Properties.                                                             *)
(***************************************************************************)
ListIndex  == 1 .. Len(lists)
ScopeType  == {"global", "conditional", "loop", "function"}
NodeType   == {"statement", "function_return", "conditional_construct", "loop"}
NodeRecord == [line : Nat, type : NodeType, body : Nat, else_body : Nat]

\* Every variable has its type and every reference is to a list of the AST.
TypeOK ==
    /\ source \in Seq(Lines)
    /\ outcome \in {"reading", "accepted", "crashed"} \cup Failure
    /\ lists \in Seq(Seq(NodeRecord))
    /\ functions \in [Name -> {0} \cup ListIndex]
    /\ scopes \in Seq([type : ScopeType, nodes : ListIndex]) \ {<< >>}
    /\ conditionals \in Seq([body : ListIndex, else_body : ListIndex])
    /\ is_in_function_scope \in BOOLEAN

\* The scopes nest: ast.nodes at the bottom and nowhere else, a function only directly
\* above it, no two scopes on the same list; is_in_function_scope, which return is
\* checked against, says whether one of them is a function's, however deep in it the
\* innermost scope is.
ScopesNest ==
    /\ scopes[1] = [type |-> "global", nodes |-> 1]
    /\ \A i \in 2 .. Len(scopes) : /\ scopes[i].type # "global"
                                   /\ scopes[i].type = "function" => i = 2
    /\ \A i, j \in 1 .. Len(scopes) : scopes[i].nodes = scopes[j].nodes => i = j
    /\ is_in_function_scope <=> Len(scopes) > 1 /\ scopes[2].type = "function"

\* conditionals has one entry per conditional scope, in the same order, and the scope
\* is on one of its two bodies: an else, which looks only at the top of either stack,
\* finds the conditional that its scope belongs to, and never an empty stack.
Rank(i) == Cardinality({k \in 1 .. i : scopes[k].type = "conditional"})
ConditionalsMatch ==
    /\ Len(conditionals) = Rank(Len(scopes))
    /\ \A i \in 1 .. Len(scopes) :
         scopes[i].type = "conditional" =>
           scopes[i].nodes \in {conditionals[Rank(i)].body, conditionals[Rank(i)].else_body}

(***************************************************************************)
(* Where a line belongs, by counting headers and footers in the text.      *)
(***************************************************************************)
MakesNode(l) == l.kind \in {"statement", "return", "if", "while"} \/ (l.kind = "fn" /\ l.value = "number")
Opens(l)     == l.kind \in {"if", "while"} \/ (l.kind = "fn" /\ l.value = "absent")
Closes(l)    == l.kind \in {"endif", "endwhile", "endfn"}
Depth(k)     == Cardinality({j \in 1 .. k - 1 : Opens(source[j])})
                - Cardinality({j \in 1 .. k - 1 : Closes(source[j])})

\* the header of the construct that line k is in
HeaderOf(k) == CHOOSE j \in 1 .. k - 1 : /\ Opens(source[j]) /\ Depth(j) = Depth(k) - 1
                                         /\ \A m \in j + 1 .. k - 1 : Depth(m) >= Depth(k)
InElse(k)   == \E j \in HeaderOf(k) + 1 .. k - 1 : source[j].kind = "else" /\ Depth(j) = Depth(k)

Places(k)   == {p \in UNION {{i} \X (1 .. Len(lists[i])) : i \in ListIndex} :
                  lists[p[1]][p[2]].line = k}
NodeOf(k)   == LET p == CHOOSE q \in Places(k) : TRUE IN lists[p[1]][p[2]]

ListOf(k) ==
    IF source[k].kind = "fn" THEN functions[source[k].name]
    ELSE IF Depth(k) = 0 THEN 1
    ELSE LET h == HeaderOf(k)
         IN  IF source[h].kind = "fn" THEN functions[source[h].name]
             ELSE IF source[h].kind = "if" /\ InElse(k) THEN NodeOf(h).else_body
             ELSE NodeOf(h).body

\* The AST is the text: every line that makes a node has exactly one, in the body that
\* the text puts it in, and the nodes of a body are in the order of their lines.
AstIsText ==
    outcome \in {"reading", "accepted"} =>
      /\ \A k \in 1 .. Len(source) :
           MakesNode(source[k]) => \E n \in 1 .. Len(lists[ListOf(k)]) : Places(k) = {<<ListOf(k), n>>}
      /\ \A i \in ListIndex : \A m, n \in 1 .. Len(lists[i]) :
           m < n => lists[i][m].line < lists[i][n].line

\* The state of the grammar that the parser's is seen as.
Open         == [i \in 1 .. Len(scopes) - 1 |-> scopes[i + 1].type]
FunctionBody == lists[scopes[2].nodes]
LastItem     == IF ~is_in_function_scope \/ FunctionBody = << >> THEN "nothing"
                ELSE IF FunctionBody[Len(FunctionBody)].type = "function_return" THEN "return"
                ELSE "other"
Defined      == {n \in Name : functions[n] # 0}
Verdict      == IF outcome \in {"reading", "accepted"} THEN outcome
                ELSE IF outcome = "crashed" THEN "undefined"
                ELSE "refused"

\* The parser accepts exactly what the grammar does.
Grammar == INSTANCE BodyGrammar WITH
    open <- Open, last <- LastItem, defined <- Defined, verdict <- Verdict
ImplementsGrammar == Grammar!Spec

\* README: not having a return statement in a function is an error.  An endfn that
\* does not close its function is refused with missing_return.
MissingReturnIsReported ==
    (outcome # "reading" /\ top.type = "function" /\ source[Len(source)].kind = "endfn")
      => outcome = "missing_return"
===============================================================================
