\* Families of functions and callers and scripts by hand: the interpreter computes their meaning.
SPECIFICATION Spec
CONSTANTS
    NaN = NaN
    NoValue = NoValue
    Limit = 3
    Value <- MCValue
    Zero = 0
    Compute <- MCCompute
    Compare <- MCCompare
    IsInteger <- MCIsInteger
    Name <- MCName
    FunctionName <- MCFunctionName
    Node <- MCNode
    Programs <- MCPrograms
    Parameters <- MCParameters
INVARIANTS TypeOK DescriptorsAreValid CallsArePure ReferencesAreLoaded AgreesWithMeaning
PROPERTIES CallsLeaveNothing ReturnLeaves Ends
CHECK_DEADLOCK FALSE
