\* The README's absolute value example.
SPECIFICATION Spec
CONSTANTS
    NaN = NaN
    Limit = 3
    Value <- MCValue
    Zero = 0
    Compute <- MCCompute
    Compare <- MCCompare
    Raised <- MCRaised
    Inputs <- MCInputs
    OutputSlots <- MCSlots
    Programs <- HandWritten
    StackSize = 4
    MemSize = 10
    MaxFrame = 4
PROPERTIES AbsoluteIsOutput
