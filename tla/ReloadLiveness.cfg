CONSTANTS
    Watcher = watcher
    Request = {r1, r2}
    Thread = {r1, r2, watcher}
    MaxContexts = 6
    MaxEdits = 1
SPECIFICATION FairSpec
PROPERTY EveryRequestEnds
CHECK_DEADLOCK FALSE
