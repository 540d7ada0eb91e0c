SPECIFICATION FairSiteSpec
CONSTANTS
    Attempts = 3
    MaxConnections = 2
INVARIANT ReadyIsSubscribed
PROPERTIES
    BecomesReady
    EndIsHeard
