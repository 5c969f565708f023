CONSTANTS
    T_MAX = 1
    A_MAX = 3
    WRAP = 64
    MaxParams = 4
    MaxLocals = 1
    MaxVals = 6
    MaxArgs = 4
    MaxCallArgs = 4
    MaxIndex = 3
    MaxWaiting = 1
    None = None
    Admit = {}
SPECIFICATION Spec
INVARIANTS
    TypeOK
    OperandsRight
    LiveKept
    VarsKept
    FrameKept
