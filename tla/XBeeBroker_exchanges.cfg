CONSTANTS
    Exchanges = {1, 2, 3}
    Modes = {1, 2, 3}
    Leds = {4, 5, 7}
    BUFFER_SIZE = 1
SPECIFICATION FairSpec
INVARIANTS
    LastCommandWins
    ThreadsAccounted
PROPERTY
    StarvesOnlyByTheft
CHECK_DEADLOCK FALSE
