\* LexResult.h: a line with an unmatched parenthesis is an error.
SPECIFICATION Spec
CONSTANTS
    Texts <- Unclosed
    Letter <- MCLetter
    Digit <- MCDigit
    String <- MCString
    Constant <- MCConstant
    Mangled <- MCMangled
    Name <- MCFunctionName
    NoName = NoName
    NoScript = NoScript
    MaxLines = 40
    NaN = NaN
    Limit = 3
INVARIANT UnmatchedParenthesisIsReported
CHECK_DEADLOCK FALSE
