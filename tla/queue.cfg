SPECIFICATION FairSpec
CONSTANTS
    Commands = {start, dust, reset}
    Guarded = {start}
    Confirmable = {start}
    Resets = {reset}
    MaxQueuedCommands = 2
    MaxTriggers = 4
CHECK_DEADLOCK FALSE
INVARIANTS
    TypeOK
    CountMatchesChain
    SlotIsOfRunning
PROPERTIES
    DeliverySpec
    EverySettles
