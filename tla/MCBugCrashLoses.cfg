SPECIFICATION Spec
CONSTANTS
    NParts = 1
    MediumType = "data"
    Faults = {"crash"}
    Vals = {v1, v2}
    Hole = Hole
    MaxLen = 2
    MaxMarks = 2
    MaxSpace = 2
    MaxBlocks = 2
    MaxFaults = 1
    Capacity = 4
    Word = 8
INVARIANT AckedKept
