CONSTANTS
    Variable = Variable
    AnyPath = AnyPath
    Path <- MCPath
    Url <- MCUrl
    Property = {soap}
    MaxRoutes = 3
SPECIFICATION Spec
INVARIANTS
    TypeOK
    AnsweredAsDefined
    LiteralRouteFirst
