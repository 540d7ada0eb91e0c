SPECIFICATION Spec
CONSTANTS
    Edges = 5
    PartitionCount = 2
    MaxWeight = 3
    MaxLoad = 7
INVARIANTS
    TypeOK
    NearOptimal
