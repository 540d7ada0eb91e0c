SPECIFICATION FairSpec
CONSTANTS
    Capacity = 2
    BatchSize = 2
    MaxEvents = 5
    LastStart = 3
INVARIANTS
    TypeOK
    SendNeverBlocks
    StreamIsLegal
    CompleteAtEnd
    ExitIsHonest
PROPERTY Terminates
