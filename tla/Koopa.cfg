CONSTANTS
    Size = 156
    Junk = Junk
    Menus <- AllMenus
    MaxAppends = 3
SPECIFICATION Spec
INVARIANTS
    AreaSound
PROPERTIES
    ImplementsUseLists
