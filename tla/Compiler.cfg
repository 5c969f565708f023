CONSTANTS
    x = x
    y = y
    Name = {x, y}
    NoSym = NoSym
    NoName = NoName
    Operation = Operation
    Shift = Shift
    Lib = {y}
    Forms = {"open", "loop", "break", "decl", "list", "const", "init", "use", "assign", "call", "return"}
    Admit = {}
    MaxNodes = 4
    MaxNesting = 3
SPECIFICATION DriverSpec
INVARIANTS
    NoAbort
    RawsReady
    Accounts
PROPERTIES
    CompilerEnds
