SPECIFICATION FairSpec
CONSTANTS
    LongestDelay = 7
    IsM7Pro = TRUE
INVARIANTS
    TypeOK
    NeverStranded
    OpenSocketWatched
    QuietAfterUnload
PROPERTY Reconnects
