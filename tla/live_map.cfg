SPECIFICATION MCSpec
CONSTANTS
    Statuses <- MCStatuses
    MapIds = {1, 2}
    MaxPoses = 2
    MaxEvents = 3
    MaxRunning = 2
INVARIANTS
    PicturesAgree
    PictureIsCurrent
    SettingsAgree
    ActivityIsCurrent
PROPERTIES
    InterruptionKeepsTrail
CHECK_DEADLOCK FALSE
