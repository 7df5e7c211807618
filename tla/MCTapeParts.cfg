SPECIFICATION FairSpec
CONSTANTS
    NParts = 2
    MediumType = "data"
    Faults = {"data"}
    Vals = {v1, v2}
    Hole = Hole
    MaxLen = 2
    MaxMarks = 2
    MaxSpace = 2
    MaxBlocks = 2
    MaxFaults = 1
    Capacity = 4
    Word = 8
INVARIANTS MemoryAgrees AckedKept
PROPERTY HandlersEnd
