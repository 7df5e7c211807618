SPECIFICATION Spec
CONSTANTS
    NParts = 2
    MediumType = "worm"
    Faults = {"crash", "data"}
    Vals = {v1}
    Hole = Hole
    MaxLen = 2
    MaxMarks = 2
    MaxSpace = 2
    MaxBlocks = 2
    MaxFaults = 1
    Capacity = 4
    Word = 8
CONSTRAINT NoneSuspect
PROPERTY WormKeepsItems
