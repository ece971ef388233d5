------------------------------- MODULE ConfigBlock -----------------------------
(***************************************************************************)
(* The blocks of a script (Parser/src/Parser.cpp) and the entries of its   *)
(* config block (Parser/src/ConfigBlock.cpp), from lines of tokens.        *)
(***************************************************************************)
EXTENDS Lexer, Functions

\* The line [[name]]
Header(name) == <<Token("[", ""), Token("[", ""), Token("identifer", name),
                  Token("]", ""), Token("]", "")>>

\* The lines of the two blocks; there are none when a header is missing.
get_block_tokens(lines) ==
    LET body == SelectInSubSeq(lines, 2, Len(lines), LAMBDA line : line = Header("body"))
    IN  IF lines[1] # Header("config") \/ body = 0
          THEN [config |-> << >>, body |-> << >>]
          ELSE [config |-> SubSeq(lines, 2, body - 1), body |-> SubSeq(lines, body + 1, Len(lines))]

-------------------------------------------------------------------------------
\* ConfigBlock: the values of each entry by its name; input and output are entries too.
NoEntries == [n \in {"input", "output"} |-> << >>]
Block(ok, entries) == [ok |-> ok, entries |-> entries]

EntryType == {"identifer", "number", "comma"}
TypeOf(token) == IF token.type = "," THEN "comma" ELSE token.type

\* Every second token has to be a value, and the others may be.
add_value(s, token) ==
    IF ~s.ok \/ (s.index % 2 = 0 /\ TypeOf(token) \notin {"identifer", "number"})
      THEN [s EXCEPT !.ok = FALSE]
    ELSE IF TypeOf(token) = "comma" THEN [s EXCEPT !.index = @ + 1]
    ELSE [s EXCEPT !.values = Append(@, token.content), !.index = @ + 1]

\* mutant of Known: the values given before are not looked at
Known_never(block, name) == << >>

\* The values an entry has been given before.
Known(block, name) == IF name \in DOMAIN block.entries THEN block.entries[name] ELSE << >>

\* An entry is given twice only if the first time it had no values.
parse_config_entry(line, block) ==
    LET name == line[1].content
        s    == FoldLeft(add_value, [ok |-> TRUE, index |-> 0, values |-> << >>], Tail(line))
    IN  IF ~block.ok THEN block
        ELSE IF \/ \E k \in DOMAIN line : TypeOf(line[k]) \notin EntryType
                \/ line[1].type # "identifer"
                \/ Known(block, name) # << >>
          THEN Block(FALSE, block.entries)
        ELSE Block(s.ok, [n \in DOMAIN block.entries \cup {name} |->
                             IF n = name THEN s.values ELSE block.entries[n]])

parse_config_block(lines) ==
    FoldLeft(LAMBDA block, line : parse_config_entry(line, block), Block(TRUE, NoEntries), lines)
===============================================================================
