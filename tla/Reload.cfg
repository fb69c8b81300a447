CONSTANTS
    Watcher = watcher
    Request = {r1, r2}
    Thread = {r1, r2, watcher}
    MaxContexts = 5
    MaxEdits = 2
SPECIFICATION Spec
SYMMETRY RequestSymmetry
INVARIANTS
    TypeOK
    FreshUnlessAbandoned
    RegisteredIsUsable
    NoContextForgotten
    NeverBackToOldContext
    StateCarriedOver
CHECK_DEADLOCK FALSE
