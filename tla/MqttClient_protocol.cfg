CONSTANTS
    RECONNECT_ATTEMPTS = 3
    MaxUser = 3
    MaxQueue = 2
SPECIFICATION FairSpec
INVARIANTS
    ConnAgrees
    AttemptsCounted
    NoStall
    PublishingSubscribed
PROPERTIES
    GivesUpAfterAll
    Settles
    AcceptedConfigIsActedOn
    IsReconnector
