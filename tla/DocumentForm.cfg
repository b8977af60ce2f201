SPECIFICATION Spec
CONSTANTS
    Declarations <- MCForms
    Specs <- MCSpecs
    Readers = {r1, r2}
    MaxRoutes = 2
    DefaultSecurity <- MCDefaultSecurity
    Types <- MCFormTypes
    BadKeys = {"bad key"}
    URINames = {"https://id.example/token"}
    Entry <- MCEntry
    Anonymous = "anonymous"
    Source <- MCSource
    Public <- MCPublic
    StatusOf <- MCStatusOf
    DefaultStatus = 500
    Schemes <- MCSchemes
INVARIANTS
    FormFieldsDocumented
CHECK_DEADLOCK FALSE
