CONSTANTS
    x = x
    y = y
    z = z
    Key = {x, y, z}
    Bucket = {0, 1}
    Null = Null
    MaxItems = 5
SPECIFICATION Spec
INVARIANTS
    TypeOK
    ChainsSound
PROPERTIES
    ImplementsMultimap
