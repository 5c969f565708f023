CONSTANTS
    x = x
    y = y
    Name = {x, y}
    NoSym = NoSym
    MaxCalls = 6
    MaxScopes = 8
SPECIFICATION Spec
INVARIANTS
    TypeOK
    Coherent
    CallsDefined
    SamePath
    SeesSame
    HereAgain
    AllFreed
PROPERTIES
    QueuesAdvance
    ImplementsTree
    VisitEnds
