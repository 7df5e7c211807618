SPECIFICATION Spec
CONSTANTS
    NParts = 1
    MediumType = "data"
    Faults = {"data"}
    Vals = {v1, v2}
    Hole = Hole
    MaxLen = 2
    MaxMarks = 2
    MaxSpace = 3
    MaxBlocks = 3
    MaxFaults = 2
    Capacity = 4
    Word = 16
SYMMETRY PayloadSymmetry
INVARIANTS FilesAgree SpacingExact
PROPERTIES MediumSpec ProtectedUnchanged
