SPECIFICATION IngestSpec
CONSTANTS
    e1 = e1
    e2 = e2
    WindowSize = 2
    MaxSkew = 1
    Second = 4
    LastTime = 7
    Edge <- MCEdge
    Sender <- MCEdge
    Input <- MCInput
SYMMETRY MCSymmetry
INVARIANT IDsAreUnique
CHECK_DEADLOCK FALSE
