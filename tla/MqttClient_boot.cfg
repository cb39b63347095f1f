CONSTANTS
    RECONNECT_ATTEMPTS = 2
    MaxUser = 4
    MaxQueue = 1
SPECIFICATION ConfiguredSpec
PROPERTY
    ConnectsAsConfigured
