CONSTANTS
    Lazy <- const_Lazy
    Data <- const_Data
    Name <- const_Name
    Path <- const_Path
    Input <- const_Input
    MaxRequests = 2
    MaxErrors = 2
SPECIFICATION Spec
INVARIANTS
    ErrorsAreFailedChecks
    ValueIsAtPath
    CallsDirectOnceUsed
PROPERTIES
    EarlierErrorsKept
    BindingTakenOnlyByStoredProxy
CHECK_DEADLOCK FALSE
