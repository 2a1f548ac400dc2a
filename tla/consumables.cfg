SPECIFICATION FairSpec
CONSTANTS
    MaxCount = 1
    MaxMessages = 1
INVARIANTS
    TypeOK
    SlotIsOfHead
PROPERTIES
    SafeResetSpec
    EveryResetSettles
CHECK_DEADLOCK FALSE
