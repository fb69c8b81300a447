CONSTANTS
    File <- const_File
    Id <- const_Id
    Up = {".."}
    Skipped = {"."}
    Script <- const_Script
    MaxArguments = 5
    MaxAttempts = 2
    MaxCalls = 1
    MaxLoads = 3
SPECIFICATION Spec
INVARIANTS
    EvaluatedOnce
    PartialOnlyInCycleOrAfterThrow
    HalfLoadedWasReported
    CallsUnderstood
CHECK_DEADLOCK FALSE
