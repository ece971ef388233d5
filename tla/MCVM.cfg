\* Caller/callee families and hand-compiled programs: every call returns to its caller.
SPECIFICATION Spec
CONSTANTS
    NaN = NaN
    Limit = 3
    Value <- MCValue
    Zero = 0
    Compute <- MCCompute
    Compare <- MCCompare
    Raised <- MCRaised
    Inputs <- MCInputs
    OutputSlots <- MCSlots
    Programs <- MCPrograms
    StackSize = 4
    MemSize = 10
    MaxFrame = 4
INVARIANTS TypeOK CallsNest HaltsOutermost LimitsReported NoUnderflow LeavesMemoryWhenFull
PROPERTIES CallsArePure
