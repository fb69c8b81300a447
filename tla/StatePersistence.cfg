CONSTANTS
    Periodic = periodic
    Hook = hook
    Loader = loader
    Thread = {periodic, hook, loader}
    NoItem = NoItem
    NoContext = NoContext
    Empty = Empty
    Garbled = Garbled
    MaxVersion = 2
    MaxContexts = 2
    MaxLate = 1
SPECIFICATION FairSpec
INVARIANTS
    TypeOK
    NothingLostSilently
    FileHoldsSaved
    ShutdownPersistsBarringMishap
PROPERTIES
    NoRaceBeforeShutdown
    EventuallySaved
    ImplementsStore
CHECK_DEADLOCK FALSE
