CONSTANTS
    Watcher = watcher
    Request = {r1, r2}
    Thread = {r1, r2, watcher}
    MaxContexts = 4
    MaxEdits = 2
SPECIFICATION Spec
INVARIANT RefreshedWhenChanged
CHECK_DEADLOCK FALSE
