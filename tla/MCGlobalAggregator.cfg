SPECIFICATION Spec
CONSTANTS
    p1 = p1
    p2 = p2
    stranger = stranger
    MaxSkew = 1
    LastTime = 5
    Partition <- MCPartition
    Sender <- MCSender
    Input <- MCInput
SYMMETRY MCSymmetry
INVARIANTS
    TypeOK
    EmittedIsFinal
    CountedOnce
    OpenWindowsAwaited
    EmissionJustified
    CompletionDecided
PROPERTY ImplementsReduction
CHECK_DEADLOCK FALSE
