SPECIFICATION FairSpec
CONSTANTS
    Rows = 5
    Capacity = 2
    MaxCopies = 2
INVARIANTS
    EndComesLast
    ReportIsHonest
PROPERTY Terminates
