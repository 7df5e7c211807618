SPECIFICATION FairSpec
CONSTANTS
    MaxSerial = 3
    Interference = {"timer", "abort", "reset"}
INVARIANTS HandlerSafe NoneForgotten NoneLeft
PROPERTIES FirstCrossing CommandsEnd
CHECK_DEADLOCK FALSE
