CONSTANTS
    Addresses = {default, other}
    Default = default
    Ports = {7777, 7778}
    REMOTE_PORT = 7777
    QUEUE_SIZE = 2
    Roots = {b1, b2}
    Routers = {p1, p2}
    None = None
    DemoChips = {"tmp", "bmp", "hdc"}
    DemoBoots = 2
    FRAME = 3
    MaxNoise = 4
    MaxLost = 4
SPECIFICATION Spec
INVARIANTS
    SendsWhereConfigured
    HeardIfEnabled
    RunsAsSaved
PROPERTIES
    ReportsFollowRoot
    RssiFollowsRoute
    BlinksWithoutAddress
    ReadsGoOn
    PrintsOn
CHECK_DEADLOCK FALSE
