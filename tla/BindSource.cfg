SPECIFICATION Spec
CONSTANTS
    Requests = {q1}
    Routes <- MCDemoRoutes
    Entry <- MCEntry
    Anonymous = "anonymous"
    Source <- MCSource
    Public <- MCPublic
    Unhandled = "unhandled"
    NotFound = "notFound"
    StatusOf <- MCStatusOf
    DefaultStatus = 500
    Schemes <- MCSchemes
    VerifyErrors <- MCVerifyErrors
    StepErrors <- MCStepErrors
    HandlerErrors <- MCHandlerErrors
    Pairs <- MCPairs
INVARIANTS
    FieldErrorUsesItsTemplate
CHECK_DEADLOCK FALSE
