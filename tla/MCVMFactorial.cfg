\* The floating-point exceptions of earlier computations fail a later factorial.
SPECIFICATION Spec
CONSTANTS
    NaN = NaN
    Limit = 3
    Value <- MCValue
    Zero = 0
    Compute <- MCCompute
    Compare <- MCCompare
    Raised <- MCRaised
    Inputs <- MCInputs
    OutputSlots <- MCSlots
    Programs <- LivePrograms
    StackSize = 4
    MemSize = 10
    MaxFrame = 4
PROPERTIES FactorialFaultsAreItsOwn
