CONSTANTS
    x = x
    y = y
    Name = {x, y}
    NoSym = NoSym
    NoName = NoName
    Operation = Operation
    Shift = Shift
    Lib = {}
    Forms = {"decl", "return"}
    Admit = {"dead_scope"}
    MaxNodes = 5
    MaxNesting = 2
SPECIFICATION Spec
INVARIANTS
    VarDefFindsSymbol
