\* A function whose body is empty.
SPECIFICATION Spec
CONSTANTS
    f_1 = f_1
    f_2 = f_2
    NoName = NoName
    Name <- MCName
    Lines <- PlainLines
    MaxLines = 3
INVARIANTS MissingReturnIsReported
CHECK_DEADLOCK FALSE
