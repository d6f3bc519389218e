SPECIFICATION Spec
CONSTANTS
    Requests   = {r1, r2}
    Ids        = {x, e}
    EmptyId    = e
    Macs       = {m1, m2}
    Handlers   = {h1, h2}
    None       = None
    MaxCrashes = 1
INVARIANTS
    TypeOK
    OncePerPrinter
    RecordIsLatest
    CallbackMatchesQuery
    DropsAreExplained
PROPERTIES
    AcceptedIsPosted
    ImplementsOidService
