\* Every kind of line: nothing is accepted or refused but what the grammar says, and the AST is the text.
SPECIFICATION Spec
CONSTANTS
    f_1 = f_1
    f_2 = f_2
    NoName = NoName
    Name <- MCName
    Lines <- AllLines
    MaxLines = 7
INVARIANTS TypeOK ScopesNest ConditionalsMatch AstIsText
PROPERTIES ImplementsGrammar
CHECK_DEADLOCK FALSE
