CONSTANTS
    CONNS = 2
    PARSE_POST_MAX_POS = 1
    Bodies <- SharedBodies
    Surplus <- LineEnds
SPECIFICATION Spec
INVARIANTS
    ParserIsOwned
PROPERTIES
    AnnouncedAtEnd
    AnswerMatchesBody
