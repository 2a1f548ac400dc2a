SPECIFICATION FairSpec
CONSTANTS
    Zones = {z1}
    Versions = {1, 2}
    MaxChanges = 2
    MaxFaults = 1
INVARIANTS
    StartActionInStep
PROPERTIES
    NoDowngrade
    CatchesUp
CHECK_DEADLOCK FALSE
