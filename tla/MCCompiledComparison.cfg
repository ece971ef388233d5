\* if in + 1 < in + in: the register holds one side of the comparison, then the other.
SPECIFICATION CompiledSpec
CONSTANTS
    NaN = NaN
    Limit = 3
    Value <- MCValue
    Zero = 0
    MinusOne <- MCMinusOne
    Compute <- CompiledCompute
    Compare <- CompiledCompare
    Raised <- MCRaised
    IsInteger <- MCIsInteger
    Name <- MCName
    FunctionName <- MCFunctionName
    Node <- MCNode
    Scripts <- ComparisonOnly
    Parameters = {}
    Inputs <- MCInputs
    OutputSlots = {}
    Programs = {}
    StackSize = 5
    MemSize = 60
    MaxFrame = 10
PROPERTIES RegisterIsNotOverridden
CHECK_DEADLOCK FALSE
