SPECIFICATION Spec
CONSTANTS
    d1 = d1
    d2 = d2
    w = w
    k = k
    o = o
    None = None
    Data <- DataOnes
    ReadOnly <- ReadOnlyOnes
    Worm <- WormOnes
    Clean <- CleanOnes
    Odd <- OddOnes
    Used <- WormOnes
    Top = 4
    MaxLoads = 2
    MaxStops = 1
    MaxOrders = 2
INVARIANTS VcrTells LostTold
PROPERTIES Protected TimersEnd
CHECK_DEADLOCK FALSE
