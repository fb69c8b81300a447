CONSTANTS
    Request = {r1, r2}
    NoRequest = NoRequest
    Fragile = {r2}
SPECIFICATION FairSpec
INVARIANTS
    ThreadOwnership
    BufferHeldWhileRead
    RefCountAccounting
    FailureRecordedFirst
    RecordedAsAnswered
PROPERTIES
    AnsweredUnlessNullOnEngine
    ImplementsService
CHECK_DEADLOCK FALSE
