\* The zero flag does not survive a call.
SPECIFICATION Spec
CONSTANTS
    NaN = NaN
    NoValue = NoValue
    Limit = 3
    Value <- MCValue
    Zero = 0
    Compute <- MCCompute
    Compare <- MCCompare
    IsInteger <- MCIsInteger
    Name <- MCName
    FunctionName <- MCFunctionName
    Node <- MCNode
    Programs <- DivisionOnly
    Parameters <- MCParameters
PROPERTIES DivisionByZeroIsReported
CHECK_DEADLOCK FALSE
