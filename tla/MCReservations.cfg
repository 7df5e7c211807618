SPECIFICATION Spec
CONSTANTS
    a = a
    b = b
    c = c
    None = None
    Hosts <- HostSet
    Exclusive = 3
    OtherTypes <- Others
    MaxGen = 4
    MaxStarts = 1
SYMMETRY HostSymmetry
INVARIANTS Consistent OwnReservation GenerationTells
CHECK_DEADLOCK FALSE
