---------------------------------- MODULE Lexer --------------------------------
(***************************************************************************)
(* The lexer of RaychelScript (Lexer/src/Lexer.cpp): the characters of a   *)
(* script become lines of tokens.                                          *)
(*                                                                         *)
(* A text is a sequence of symbols, each a character or several letters in *)
(* a row, which the lexer treats alike: "while" is one symbol, as is "w".  *)
(***************************************************************************)
EXTENDS Integers, Sequences, SequencesExt

CONSTANTS
    Letter,         \* the symbols made of letters
    Digit,          \* the digits
    String(_)       \* the string of a sequence of letters, digits, "_" and "."

\* The characters that are tokens by themselves, and those among them that are parentheses.
Opening == {"(", "[", "{"}
Closing == {")", "]", "}"}
Special == Opening \cup Closing \cup
           {",", "+", "-", "*", "/", "%", "=", "<", ">", "!", "&", "|", "^"}

Keyword ==
    [let |-> "declaration", var |-> "declaration", if |-> "conditional_header", else |-> "conditional_else",
     endif |-> "conditional_footer", while |-> "loop_header", endwhile |-> "loop_footer",
     fn |-> "function_header", return |-> "function_return", endfn |-> "function_footer"]

\* A token: a special character is its own type and has no content.
Token(type, content) == [type |-> type, content |-> content]

parse_token(word) ==
    IF word[1] \in Digit THEN "number"
    ELSE IF String(word) \in DOMAIN Keyword THEN Keyword[String(word)]
    ELSE "identifer"

\* How a token or a character changes the number of open parentheses, whatever their kind.
Turn(c) == IF c \in Opening THEN 1 ELSE IF c \in Closing THEN -1 ELSE 0

-------------------------------------------------------------------------------
(***************************************************************************)
(* The state of _lex_raw between two characters; ec is what it returns.    *)
(***************************************************************************)
Start == [tokens |-> << >>, current_token |-> << >>, in_comment |-> FALSE, might_be_number |-> FALSE,
          line_paren_depth |-> 0, has_failed |-> FALSE, ec |-> "ok"]

\* mutant of reset_state: might_be_number stays as it is
reset_state_partly(s) ==
    [s EXCEPT !.tokens = IF s.current_token = << >> THEN @
                         ELSE Append(@, Token(parse_token(s.current_token), String(s.current_token))),
              !.current_token = << >>]

reset_state(s) ==
    [s EXCEPT !.tokens = IF s.current_token = << >> THEN @
                         ELSE Append(@, Token(parse_token(s.current_token), String(s.current_token))),
              !.current_token = << >>,
              !.might_be_number = FALSE]

\* Several newlines in a row are one token.  The parentheses of the line must match: the
\* failure stops the loop, and that is all it does.
end_line(s) ==
    LET t == reset_state(s)
    IN  [t EXCEPT !.tokens = IF @ # << >> /\ Last(@).type = "newline" THEN @
                             ELSE Append(@, Token("newline", "")),
                  !.has_failed = t.line_paren_depth # 0,
                  !.line_paren_depth = 0,
                  !.in_comment = FALSE]

\* A dot belongs to a number if a digit is in front of it and the token has no other dot.
is_part_of_digit(c, word) ==
    \/ c \in Digit
    \/ c = "." /\ word # << >> /\ Last(word) \in Digit /\ \A k \in DOMAIN word : word[k] # "."

\* A dot in front of everything looks at the last character of an empty token.
handle_regular_char(s, c) ==
    IF c \in Letter \cup {"_"} /\ ~s.might_be_number
      THEN [s EXCEPT !.current_token = Append(@, c)]
    ELSE IF is_part_of_digit(c, s.current_token)
      THEN [s EXCEPT !.current_token = Append(@, c), !.might_be_number = TRUE]
    ELSE [s EXCEPT !.ec = IF c = "." /\ s.current_token = << >> THEN "undefined" ELSE "invalid_token"]

\* One iteration of the loop, for the k-th symbol of the text.
read(text, s, k) ==
    LET c == text[k]
    IN  IF c = "\n" THEN end_line(s)
        ELSE IF s.in_comment THEN s
        ELSE IF c = "_" /\ k < Len(text) /\ text[k + 1] = "_" THEN [s EXCEPT !.ec = "reserved_identifier"]
        ELSE IF c = "#" THEN [s EXCEPT !.in_comment = TRUE]
        ELSE IF c = " " THEN reset_state(s)
        ELSE IF c \in Special
          THEN [reset_state(s) EXCEPT !.tokens = Append(@, Token(c, "")), !.line_paren_depth = @ + Turn(c)]
        ELSE handle_regular_char(s, c)

\* The loop over the symbols first .. last, in two halves for the sake of TLC's stack.
RECURSIVE read_all(_, _, _, _)
read_all(text, s, first, last) ==
    LET middle == (first + last) \div 2
    IN  IF s.has_failed \/ s.ec # "ok" \/ first > last THEN s
        ELSE IF first = last THEN read(text, s, first)
        ELSE read_all(text, read_all(text, s, first, middle), middle + 1, last)

_lex_raw(text) ==
    LET s == read_all(text, Start, 1, Len(text))
    IN  IF s.ec = "ok" THEN reset_state(s) ELSE s

\* mutant of Kept: an empty line is a line
Kept_all(line) == <<line>>

\* Empty lines are left out.
Kept(line) == IF line = << >> THEN << >> ELSE <<line>>

\* The tokens between newlines.
RECURSIVE combine_tokens_into_lines(_)
combine_tokens_into_lines(raw_tokens) ==
    LET n == SelectInSeq(raw_tokens, LAMBDA token : token.type = "newline")
        line == SubSeq(raw_tokens, 1, IF n = 0 THEN Len(raw_tokens) ELSE n - 1)
    IN  Kept(line)
        \o IF n = 0 THEN << >> ELSE combine_tokens_into_lines(SubSeq(raw_tokens, n + 1, Len(raw_tokens)))

\* lex returns no lines with an error.
lex(text) ==
    LET s == _lex_raw(text)
    IN  [ec |-> s.ec, lines |-> IF s.ec = "ok" THEN combine_tokens_into_lines(s.tokens) ELSE << >>]
===============================================================================
