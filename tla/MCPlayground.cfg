CONSTANTS
    Clients = {c1, c2}
    Sources = {long, wrong, good, other}
    TooLong = {long}
    Wrong = {wrong}
    None = None
    MaxRequests = 2
SPECIFICATION FairSpec
CHECK_DEADLOCK FALSE
INVARIANTS
    ResponseIsOwn
    CacheIsSound
PROPERTY EveryRequestIsAnswered
