SPECIFICATION Spec
CONSTANTS
    c = c
    t = t
    u = u
    Procs <- Processes
    Minors <- MinorNumbers
    MinorOf <- Numbers
    Library <- Changers
    MaxStarts = 3
    MaxDeaths = 1
INVARIANTS OneServer CountTrue Served
PROPERTY Arrives
CHECK_DEADLOCK FALSE
