SPECIFICATION Spec
CONSTANTS
    Requests   = {r1, r2}
    Ids        = {x, e}
    EmptyId    = e
    Macs       = {m1, m2}
    Handlers   = {h1, h2}
    None       = None
    MaxCrashes = 0
INVARIANTS
    CalledBackOnce
