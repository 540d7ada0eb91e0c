SPECIFICATION FairSpec
CONSTANTS
    w1 = w1
    w2 = w2
    p1 = p1
    p2 = p2
    p3 = p3
    BatchSize = 2
    Worker <- MCWorker
    Partition <- MCPartition
    Outputs <- MCOutputs
    EndOffsets <- MCEndOffsets
INVARIANTS
    WholeState
    CommittedWasPublished
    NoContinuation
PROPERTY RebalanceStops
