CONSTANTS
    x = x
    y = y
    Name = {x, y}
    NoSym = NoSym
    NoName = NoName
    Operation = Operation
    Shift = Shift
    Lib = {}
    Forms = {"decl", "use"}
    Admit = {"late_global"}
    MaxNodes = 4
    MaxNesting = 2
SPECIFICATION Spec
INVARIANTS
    LValFindsRaw
