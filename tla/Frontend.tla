-------------------------------- MODULE Frontend -------------------------------
(***************************************************************************)
(* From the text of a script to its AST (the pipeline Lex | Parse): the    *)
(* lexer makes lines of tokens, the parser reads the config block and then *)
(* the lines of the body block, one after the other, into the AST that     *)
(* BodyBlock keeps.                                                        *)
(***************************************************************************)
EXTENDS Integers, Sequences, FiniteSets, SequencesExt

CONSTANTS
    Texts,                      \* the texts that are parsed, each with the script it is meant to be
    NoScript,                   \* the script of a text that is none in particular
    Letter, Digit, String(_),   \* see Lexer
    Constant(_, _), Mangled(_, _), \* see Expression
    Name, NoName, MaxLines      \* see BodyBlock

VARIABLES
    text,       \* the text of the script
    script,     \* the program that is meant by it; the code has no such variable
    stage,      \* "lexing", "lexed", "parsing", "done"
    error,      \* what the lexer or the parser of blocks returns, or "crashed"
    lines,      \* the lines of tokens; when parsing, those of the body block
    config,     \* ConfigBlock: the values of the entries
    parts,      \* for each line of the body read so far, the nodes and arguments it has
    source, outcome, lists, functions, scopes, conditionals, is_in_function_scope \* see BodyBlock

Lex    == INSTANCE Lexer
Config == INSTANCE ConfigBlock
Parse  == INSTANCE Expression
Body   == INSTANCE BodyBlock WITH Lines <- {}

ast  == <<source, outcome, lists, functions, scopes, conditionals, is_in_function_scope>>
vars == <<text, script, stage, error, lines, config, parts, ast>>

Init ==
    /\ \E t \in Texts : text = t.text /\ script = t.script
    /\ stage = "lexing" /\ error = "ok"
    /\ lines = << >> /\ config = Config!NoEntries /\ parts = << >>
    /\ Body!Init

\* The byte in front of an empty token is no digit, but reading it may be noticed.
lex ==
    LET result == Lex!lex(text)
    IN  /\ stage = "lexing"
        /\ error' \in IF result.ec = "undefined" THEN {"invalid_token", "crashed"} ELSE {result.ec}
        /\ lines' = result.lines
        /\ stage' = IF error' = "ok" THEN "lexed" ELSE "done"
        /\ UNCHANGED <<text, script, config, parts, ast>>

Stop(code) == /\ error' = code /\ stage' = "done"
              /\ UNCHANGED <<lines, config>>

\* parse, up to the body block
parse ==
    LET blocks == Config!get_block_tokens(lines)
        block  == Config!parse_config_block(blocks.config)
    IN  /\ stage = "lexed"
        /\ IF lines = << >> THEN Stop("no_input")
           ELSE IF ~block.ok \/ block.entries["input"] = << >> \/ block.entries["output"] = << >>
             THEN Stop("invalid_config")
           ELSE /\ config' = block.entries
                /\ lines' = blocks.body
                /\ stage' = "parsing"
                /\ UNCHANGED error
        /\ UNCHANGED <<text, script, parts, ast>>

-------------------------------------------------------------------------------
\* The expression of a return, a header or a one-line function.
Operand(first) == Parse!parse_expression(IF first.name = "simple fn" THEN first.matches[7] ELSE first.matches[2])

\* A line as BodyBlock tells it from others.
LineOf(tokens) ==
    LET first == Parse!FirstMatch(tokens)
        names == Parse!parse_arguments(first.matches[4])
        isFn  == first.name \in {"fn", "simple fn"}
    IN  [kind  |-> IF isFn THEN "fn"
                   ELSE IF first.name \in Parse!Valueless THEN first.name
                   ELSE IF Parse!parse_statement(tokens) = Parse!Refused THEN "invalid"
                   ELSE "statement",
         value |-> IF first.name \in {"return", "if", "while", "simple fn"}
                     THEN Parse!Type(Operand(first)) ELSE "absent",
         name  |-> IF ~isFn \/ names = {} THEN NoName
                   ELSE Mangled(first.matches[2][1].content, Len(CHOOSE n \in names : TRUE))]

\* The node of a line, or the condition in it, and the arguments of a function.
PartsOf(tokens) ==
    LET first == Parse!FirstMatch(tokens)
        names == Parse!parse_arguments(first.matches[4])
    IN  [node |-> CASE first.name \in {"return", "simple fn"} ->
                         [type |-> "function_return", return_value |-> Operand(first)]
                    [] first.name \in {"if", "while"} -> Operand(first)
                    [] OTHER -> Parse!parse_statement(tokens),
         arguments |-> IF first.name \in {"fn", "simple fn"} /\ names # {}
                         THEN CHOOSE n \in names : TRUE ELSE << >>]

\* parse_body_block: an iteration of its loop over the lines
parse_line ==
    /\ stage = "parsing" /\ Len(source) < Len(lines)
    /\ Body!parse_line(LineOf(lines[Len(source) + 1]))
    /\ parts' = Append(parts, PartsOf(lines[Len(source) + 1]))
    /\ UNCHANGED <<text, script, stage, error, lines, config>>

finish ==
    /\ stage = "parsing" /\ Len(source) = Len(lines)
    /\ Body!finish
    /\ UNCHANGED <<text, script, stage, error, lines, config, parts>>

Next == lex \/ parse \/ parse_line \/ finish

Spec == Init /\ [][Next]_vars

-------------------------------------------------------------------------------
(***************************************************************************)
(* The AST, as a program of AST.                                           *)
(***************************************************************************)
RECURSIVE Nodes(_)
Nodes(list) ==
    [k \in DOMAIN lists[list] |->
        LET n    == lists[list][k]
            node == parts[n.line].node
        IN  CASE n.type = "conditional_construct" ->
                   [type |-> n.type, condition |-> node, body |-> Nodes(n.body), else_body |-> Nodes(n.else_body)]
              [] n.type = "loop" -> [type |-> n.type, condition |-> node, body |-> Nodes(n.body)]
              [] OTHER -> node]

DefinedBy(f) == CHOOSE k \in DOMAIN source : source[k].kind = "fn" /\ source[k].name = f

Program ==
    [inputs    |-> config["input"],
     outputs   |-> config["output"],
     nodes     |-> Nodes(1),
     functions |-> [f \in { g \in Name : functions[g] # 0 } |->
                       [arguments |-> parts[DefinedBy(f)].arguments, body |-> Nodes(functions[f])]]]
-------------------------------------------------------------------------------
(***************************************************************************)
(* The lines of a text and the tokens in them, by what they look like.     *)
(***************************************************************************)
IsWordPart(c) == c \in Letter \cup Digit \cup {"_", "."}

\* Letters and underscores, then digits and at most one dot, which follows a digit.
IsWord(w) ==
    /\ \E n \in 0 .. Len(w) : /\ \A k \in 1 .. n : w[k] \in Letter \cup {"_"}
                              /\ \A k \in n + 1 .. Len(w) : w[k] \in Digit \cup {"."}
    /\ \A j, k \in DOMAIN w : w[j] = "." /\ w[k] = "." => j = k
    /\ \A k \in DOMAIN w : w[k] = "." => k > 1 /\ w[k - 1] \in Digit

\* The number of symbols in front of the first one of a set, and the symbols after some.
Before(s, set) == LET first == SelectInSeq(s, LAMBDA c : c \in set)
                  IN  IF first = 0 THEN Len(s) ELSE first - 1
After(s, n)    == SubSeq(s, n + 1, Len(s))

\* The tokens of a line, or words that are not.
RECURSIVE TokensOf(_)
TokensOf(code) ==
    IF code = << >> THEN << >>
    ELSE IF code[1] = " " THEN TokensOf(After(code, 1))
    ELSE IF code[1] \in Lex!Special THEN <<Lex!Token(code[1], "")>> \o TokensOf(After(code, 1))
    ELSE LET n    == Before(code, {" "} \cup Lex!Special)
             word == SubSeq(code, 1, n)
         IN  <<IF IsWord(word) THEN Lex!Token(Lex!parse_token(word), String(word)) ELSE Lex!Token("invalid", "")>>
             \o TokensOf(After(code, n))

\* A line without its comment, whether a newline ends it, and the lines after it.
FirstLine(s) == LET n == Before(s, {"\n"})
                IN  [code     |-> SubSeq(s, 1, Before(SubSeq(s, 1, n), {"#"})),
                     complete |-> n < Len(s),
                     rest     |-> After(s, n + 1)]

Balanced(code) == Cardinality({ k \in DOMAIN code : code[k] \in Lex!Opening }) =
                  Cardinality({ k \in DOMAIN code : code[k] \in Lex!Closing })

\* The lines that are read: none after a line with unmatched parentheses.
RECURSIVE LinesRead(_)
LinesRead(s) ==
    LET line == FirstLine(s)
    IN  IF s = << >> THEN << >>
        ELSE <<line.code>> \o IF line.complete /\ ~Balanced(line.code) THEN << >> ELSE LinesRead(line.rest)

Reserved(code) == \E k \in 1 .. Len(code) - 1 : code[k] = "_" /\ code[k + 1] = "_"

(***************************************************************************)
(* What is left of a line when its grouping is taken away.                 *)
(***************************************************************************)
Ungrouped(tokens) ==
    LET kept == SelectSeq(tokens, LAMBDA t : t.type \notin Lex!Opening \cup Lex!Closing \cup {","})
    IN  [k \in DOMAIN kept |-> kept[k].type]

Operator == [add |-> "+", subtract |-> "-", multiply |-> "*", divide |-> "/", power |-> "^",
             minus |-> "-", plus |-> "+"]
Relation == [equals |-> <<"=", "=">>, not_equals |-> <<"!", "=">>,
             less_than |-> <<"<">>, greater_than |-> <<">">>]

\* The types of the tokens that a node comes from, in their order.
RECURSIVE Yield(_)
Yield(n) ==
    CASE n.type = "numeric_constant" -> <<"number">>
      [] n.type = "variable_ref"     -> <<"identifer">>
      [] n.type = "variable_decl"    -> <<"declaration", "identifer">>
      [] n.type = "unary_operator"   ->
           CASE n.op = "factorial" -> Yield(n.operand) \o <<"!">>
             [] n.op = "magnitude" -> <<"|">> \o Yield(n.operand) \o <<"|">>
             [] OTHER              -> <<Operator[n.op]>> \o Yield(n.operand)
      [] n.type = "arithmetic_operator" -> Yield(n.lhs) \o <<Operator[n.op]>> \o Yield(n.rhs)
      [] n.type = "relational_operator" -> Yield(n.lhs) \o Relation[n.op] \o Yield(n.rhs)
      [] n.type = "assignment"          -> Yield(n.lhs) \o <<"=">> \o Yield(n.rhs)
      [] n.type = "update_expression"   -> Yield(n.lhs) \o <<Operator[n.op], "=">> \o Yield(n.rhs)
      [] n.type = "function_call"       ->
           LET all[k \in 0 .. Len(n.arguments)] ==
                   IF k = 0 THEN <<"identifer">> ELSE all[k - 1] \o Yield(n.arguments[k])
           IN  all[Len(n.arguments)]
      [] n.type = "function_return"     -> <<"function_return">> \o Yield(n.return_value)

\* A negative constant has lost its sign: a unary minus is left of its tokens.
IsYield(tokens, node) ==
    LET yield == Yield(node)
    IN  SelectSeq(tokens, LAMBDA t : t # "-") = SelectSeq(yield, LAMBDA t : t # "-")

-------------------------------------------------------------------------------
(***************************************************************************)
(* Properties.                                                             *)
(***************************************************************************)
Error == {"ok", "invalid_token", "reserved_identifier", "crashed", "no_input", "invalid_config"}

\* Every variable has its type; a line of the body is one of BodyLine's, and has parts.
TypeOK ==
    /\ stage \in {"lexing", "lexed", "parsing", "done"}
    /\ error \in Error /\ (error # "ok" <=> stage = "done")
    /\ \A k \in DOMAIN lines : lines[k] # << >>
    /\ source \in Seq([kind : Body!LineKind, value : Body!LineValue, name : Name \cup {NoName}])
    /\ Len(parts) = Len(source)

\* Where a token begins and ends, what is a comment and what a number does not depend on
\* the lines and the words before: the lines of tokens are what they look like, and an
\* error is reported if and only if some word is none or begins with two underscores.
LexesTheText ==
    LET codes == LinesRead(text)
        read  == SelectSeq([k \in DOMAIN codes |-> TokensOf(codes[k])], LAMBDA line : line # << >>)
        good  == /\ \A k \in DOMAIN codes : ~Reserved(codes[k])
                 /\ \A k \in DOMAIN read : \A j \in DOMAIN read[k] : read[k][j].type # "invalid"
    IN  /\ stage = "lexed" => good /\ lines = read
        /\ stage = "done" /\ error \in {"invalid_token", "reserved_identifier", "crashed"} => ~good

\* The inputs and the outputs of a script that is parsed are those of one line of its
\* config block: no other line gives any.
ConfigIsRead ==
    stage = "parsing" /\ source = << >> =>
      LET tokens == Lex!lex(text).lines
          entry  == { k \in 2 .. Len(tokens) - Len(lines) - 1 : Len(tokens[k]) > 1 }
          named(name) == { k \in entry : tokens[k][1].content = name }
      IN  \A name \in {"input", "output"} :
            \E k \in entry :
              /\ named(name) = {k}
              /\ config[name] = LET values == SelectSeq(Tail(tokens[k]), LAMBDA t : t.type # ",")
                                IN  [j \in DOMAIN values |-> values[j].content]

\* Nothing of a script that is accepted gets lost: the tokens that a line's node comes
\* from are, parentheses and commas aside, the tokens of the line; and the parentheses,
\* which the lexer does not insist on, match.
NothingIsLost ==
    outcome \in {"reading", "accepted"} =>
      \A k \in DOMAIN source :
        /\ source[k].kind = "statement" => IsYield(Ungrouped(lines[k]), parts[k].node)
        /\ source[k].kind = "return"    => IsYield(Ungrouped(lines[k]), parts[k].node)
        /\ source[k].kind \in {"if", "while"} => IsYield(Tail(Ungrouped(lines[k])), parts[k].node)
        /\ Balanced([j \in DOMAIN lines[k] |-> lines[k][j].type])

RECURSIVE WithDescendants(_)
WithDescendants(nodes) ==
    IF nodes = {} THEN {} ELSE nodes \cup WithDescendants(UNION { Parse!Children(n) : n \in nodes })

\* What the Interpreter and the Assembler assume of an AST holds of every AST that the
\* parser makes: operands have the types they need, a condition is one, a function ends
\* with a return and its arguments have different names.
MakesWellFormed ==
    outcome = "accepted" =>
      LET parsed == Program
      IN  /\ \A n \in WithDescendants(Parse!ProgramNodes(parsed)) : Parse!WellFormedNode(n)
          /\ \A f \in DOMAIN parsed.functions : Parse!WellFormedFunction(parsed.functions[f])
          /\ parsed.inputs # << >> /\ parsed.outputs # << >>

\* README: "Always use parentheses to ensure correctness".  A script whose operands are
\* parenthesised is accepted, however it is laid out, and its AST is the script that was
\* written: no operator, comma or parenthesis in an operand is taken for one outside of it.
ParsesBack ==
    script # NoScript => /\ stage # "done" /\ outcome \in {"reading", "accepted"}
                         /\ outcome = "accepted" => Program = script

\* LexResult.h has an error code for an "Unmatched Parenthesis": a text whose lines are not
\* balanced gets an error, and is not handed to the parser as far as the first of them.
UnmatchedParenthesisIsReported ==
    stage = "lexed" => \A k \in DOMAIN LinesRead(text) : Balanced(LinesRead(text)[k])
===============================================================================
