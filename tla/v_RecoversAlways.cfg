SPECIFICATION FairSpec
CONSTANTS
    LongestDelay = 7
    IsM7Pro = TRUE
PROPERTY RecoversAlways
