CONSTANTS
    x = x
    y = y
    Name = {x, y}
    NoSym = NoSym
    NoName = NoName
    Operation = Operation
    Shift = Shift
    Lib = {}
    Forms = {"param", "decl", "list", "const", "open", "loop", "break", "use", "assign", "call", "return"}
    Admit = {}
    MaxNodes = 5
    MaxNesting = 4
SPECIFICATION Spec
SYMMETRY NameSymmetry
INVARIANTS
    TypeOK
    NoAbort
    SamePath
    SameBinding
    BreakTarget
    AllFreed
PROPERTIES
    BlockRestores
