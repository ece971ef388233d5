\* Short texts, short lines and written scripts: what is parsed is what was written.
SPECIFICATION Spec
CONSTANTS
    Texts <- MCTexts
    Letter <- MCLetter
    Digit <- MCDigit
    String <- MCString
    Constant <- MCConstant
    Mangled <- MCMangled
    Name <- MCFunctionName
    NoName = NoName
    NoScript = NoScript
    MaxLines = 40
    NaN = NaN
    Limit = 3
INVARIANTS TypeOK LexesTheText ConfigIsRead NothingIsLost MakesWellFormed ParsesBack
CHECK_DEADLOCK FALSE
