SPECIFICATION FairSpec
CONSTANTS
    Maps = {m1}
    NoMap = none
    Refreshers = {f1}
    Command = command
    MaxChanging = 2
PROPERTIES
    EveryReadEnds
    EveryCommandEnds
