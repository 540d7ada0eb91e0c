SPECIFICATION Spec
CONSTANTS
    e1 = e1
    e2 = e2
    stranger = stranger
    WindowSize = 2
    MaxSkew = 1
    Second = 3
    LastTime = 5
    Edge <- MCEdge
    Sender <- MCSender
    Input <- MCInput
SYMMETRY MCSymmetry
INVARIANTS
    TypeOK
    CertifiedIsFinal
    CountedOnce
    WatermarkKeepsUp
    WatermarkJustified
PROPERTIES
    EndIsFinal
    ImplementsReduction
CHECK_DEADLOCK FALSE
