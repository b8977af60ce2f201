SPECIFICATION Spec
CONSTANTS
    Declarations <- MCDeclarations
    Specs <- MCSpecs
    Readers = {r1, r2}
    MaxRoutes = 2
    DefaultSecurity <- MCDefaultSecurity
    Types <- MCTypes
    BadKeys = {"bad key"}
    URINames = {"https://id.example/token"}
    Entry <- MCEntry
    Anonymous = "anonymous"
    Source <- MCSource
    Public <- MCPublic
    StatusOf <- MCStatusOf
    DefaultStatus = 500
    Schemes <- MCSchemes
INVARIANTS
    ShowsItsRoutes
    RefsMeanTheirTypes
    DocumentedAsEnforced
    RepliesAgree
CHECK_DEADLOCK FALSE
