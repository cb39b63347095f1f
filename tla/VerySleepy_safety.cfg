CONSTANTS
    Durations = {2, 5}
    Intervals = {4, 6}
    NORMAL_OP_DURATION_DEFAULT = 2
    NORMAL_OP_DURATION_MIN = 2
    PERIODIC_INTERVAL_DEFAULT = 4
    KEEP_MAC_ON_MIN_PERIOD = 3
    MaxQueue = 2
    MaxQuiet = 10
SPECIFICATION Spec
INVARIANTS
    MacKeptOn
    NotifiesInTime
PROPERTY
    StintLasts
