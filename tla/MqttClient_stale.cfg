CONSTANTS
    RECONNECT_ATTEMPTS = 2
    MaxUser = 2
    MaxQueue = 1
SPECIFICATION Spec
PROPERTY
    NewConfigDisconnects
