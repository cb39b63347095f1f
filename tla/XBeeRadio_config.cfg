CONSTANTS
    Bauds <- AllBauds
    Tries = 2
    MaxFaults = 3
    MaxForeign = 3
SPECIFICATION FairSpec
INVARIANTS
    Configured
    SetUp
PROPERTIES
    SearchEnds
    InitEnds
CHECK_DEADLOCK FALSE
