CONSTANTS
    CONNS = 2
    PARSE_POST_MAX_POS = 1
    Bodies <- FewBodies
    Surplus <- LineEnds
SPECIFICATION Spec
INVARIANT
    LockIsHeld
