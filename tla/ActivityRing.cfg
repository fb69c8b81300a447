CONSTANTS
    Worker = {w1, w2}
    NoMessage = NoMessage
    Limit = 2
    MaxMessages = 4
    Size <- MCSize
    Missing = Missing
    Empty = Empty
    Garbled = Garbled
SPECIFICATION Spec
INVARIANTS
    TypeOK
    RingShowsLastRound
    NoCollisionInFirstRound
    UndisturbedListingIsWhole
SYMMETRY Workers
CHECK_DEADLOCK FALSE
