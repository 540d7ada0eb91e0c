SPECIFICATION IngestSpec
CONSTANTS
    p1 = p1
    p2 = p2
    WindowSize = 1
    MaxSkew = 1
    Unstable = {}
    LastTime = 6
    Partition <- MCPartition
    Sender <- MCPartition
    Input <- MCInput
SYMMETRY MCSymmetry
INVARIANT ContributionsCertified
CHECK_DEADLOCK FALSE
