SPECIFICATION Spec
CONSTANTS
    NParts = 1
    MediumType = "data"
    Faults = {"crash", "data", "indx", "mark", "trunc", "meta"}
    Vals = {v1, v2}
    Hole = Hole
    MaxLen = 2
    MaxMarks = 2
    MaxSpace = 2
    MaxBlocks = 3
    MaxFaults = 2
    Capacity = 4
    Word = 16
SYMMETRY PayloadSymmetry
CONSTRAINT WithinClaims
INVARIANTS AckedOnDisk HeadersHaveData
