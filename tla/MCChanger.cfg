SPECIFICATION FairSpec
CONSTANTS
    s1 = s1
    m1 = m1
    d1 = d1
    d2 = d2
    c1 = c1
    c2 = c2
    Slots = {s1}
    Maps = {m1}
    Drives = {d1, d2}
    Carts = {c1, c2}
    None = None
    Lib = Lib
    Oper = Oper
    Home <- BothHome
    Unloadable <- OneRefused
    OperTexts = {"open map", "close map", "empty map", "load map"}
    Faults = {"drive", "library"}
    MaxInbox = 1
    MaxRestarts = 1
    MaxMishaps = 1
CONSTRAINT FewMishaps
INVARIANTS InventoryUnique InventoryTrue MountedHere PickerTold NeverNull
PROPERTIES NothingLost MoveEnds
CHECK_DEADLOCK FALSE
