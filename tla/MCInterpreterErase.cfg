\* The README's overloaded function: pop_scope erases with stale indices.
SPECIFICATION Spec
CONSTANTS
    NaN = NaN
    NoValue = NoValue
    Limit = 3
    Value <- MCValue
    Zero = 0
    Compute <- MCCompute
    Compare <- MCCompare
    IsInteger <- MCIsInteger
    Name <- MCName
    FunctionName <- MCFunctionName
    Node <- MCNode
    Programs <- OverloadsOnly
    Parameters <- MCParameters
INVARIANTS CallsAreDefined
CHECK_DEADLOCK FALSE
