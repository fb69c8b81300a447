CONSTANTS
    Variable = Variable
    AnyPath = AnyPath
    Path <- MCPath
    Url <- MCUrl
    Property = {soap}
    MaxRoutes = 2
SPECIFICATION Spec
INVARIANT FunctionOfBestMatch
