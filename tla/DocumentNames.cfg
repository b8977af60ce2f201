SPECIFICATION Spec
CONSTANTS
    Declarations <- MCNamesakes
    Specs <- MCSpecs
    Readers = {r1, r2}
    MaxRoutes = 2
    DefaultSecurity <- MCDefaultSecurity
    Types <- MCNamesakeTypes
    BadKeys = {"bad key"}
    URINames = {"https://id.example/token"}
    Entry <- MCEntry
    Anonymous = "anonymous"
    Source <- MCSource
    Public <- MCPublic
    StatusOf <- MCStatusOf
    DefaultStatus = 500
    Schemes <- MCSchemes
INVARIANTS
    NamesakesKeptApart
CHECK_DEADLOCK FALSE
