SPECIFICATION FairSpec
CONSTANTS
    Requests = {r1, r2}
    Limit = 1
    QueueLimit = 1
    MaxRestarts = 1
PROPERTIES
    EveryoneAnswered
    AbandonedIsReleased
CHECK_DEADLOCK FALSE
