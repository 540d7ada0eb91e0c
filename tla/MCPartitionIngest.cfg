SPECIFICATION FairIngestSpec
CONSTANTS
    e1 = e1
    e2 = e2
    WindowSize = 2
    MaxSkew = 1
    Second = 2
    LastTime = 7
    Edge <- MCEdge
    Sender <- MCEdge
    Input <- MCInput
INVARIANTS
    NeverRejects
    BoundedLoss
    EveryRecordAccounted
PROPERTY PartitionEnds
CHECK_DEADLOCK FALSE
