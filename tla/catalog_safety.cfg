SPECIFICATION Spec
CONSTANTS
    Maps = {m1, m2}
    NoMap = none
    Refreshers = {f1}
    Command = command
    MaxChanging = 2
INVARIANTS
    TypeOK
    NoReaderLost
    CatalogIsOfMap
