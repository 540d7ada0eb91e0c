SPECIFICATION FairConsumerSpec
CONSTANTS
    p1 = p1
    p2 = p2
    WindowSize = 1
    MaxSkew = 1
    LastTime = 4
    MaxRestarts = 1
    Partition <- MCPartition
    Sender <- MCPartition
    Unstable <- MCUnstable
    Input <- MCInput
INVARIANTS
    NeverRejects
    BoundedLoss
    EveryPartialAccounted
PROPERTY ReplayCompletes
CHECK_DEADLOCK FALSE
