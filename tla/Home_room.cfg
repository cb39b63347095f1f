CONSTANTS
    Rows = {r1, r2}
    Switches = {1, 2}
    Readings = {temperature}
    MaxTasks = 2
    None = None
    Exchanges = {e1, e2}
    BUFFER_SIZE = 1
SPECIFICATION MCSpec
INVARIANTS
    BelievesWhatItSends
    OneListener
    ShowsBelief
    LampsFollow
