CONSTANTS
    Request = {r1, r2}
    NoRequest = NoRequest
    Fragile = {r2}
SPECIFICATION FairSpec
PROPERTY EveryRequestAnswered
CHECK_DEADLOCK FALSE
