SPECIFICATION Spec
CONSTANTS
    Requests = {q1}
    Routes <- MCRoutes
    Entry <- MCEntry
    Anonymous = "anonymous"
    Source <- MCSource
    Public <- MCPublic
    Unhandled = "unhandled"
    NotFound = "notFound"
    StatusOf <- MCStatusOf
    DefaultStatus = 500
    Schemes <- MCSchemes
    VerifyErrors <- MCVerifyErrors
    StepErrors <- MCStepErrors
    HandlerErrors <- MCHandlerErrors
    Pairs <- MCPairs
INVARIANTS
    OnlyPublicOnWire
    HandlerAuthorized
    RefusalIsDeclared
    BindFailureIs422
    LoggedStatusIsSent
PROPERTIES
    AnsweredOnce
CHECK_DEADLOCK FALSE
