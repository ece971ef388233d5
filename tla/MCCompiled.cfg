\* Scripts through assembler, file and virtual machine: compiled scripts mean what scripts mean.
SPECIFICATION CompiledSpec
CONSTANTS
    NaN = NaN
    Limit = 3
    Value <- MCValue
    Zero = 0
    MinusOne <- MCMinusOne
    Compute <- CompiledCompute
    Compare <- CompiledCompare
    Raised <- MCRaised
    IsInteger <- MCIsInteger
    Name <- MCName
    FunctionName <- MCFunctionName
    Node <- MCNode
    Scripts <- MCScript
    Parameters = {}
    Inputs <- MCInputs
    OutputSlots = {}
    Programs = {}
    StackSize = 5
    MemSize = 60
    MaxFrame = 10
INVARIANTS AssemblerTypeOK CellsAreDisjoint EmitsWellFormed FileIsComplete CompiledAgreesWithMeaning NamesAreResolved StaysInMemory
PROPERTIES Terminates
CHECK_DEADLOCK FALSE
