SPECIFICATION Spec
CONSTANTS
    Macs        = {1}
    Serials     = {s1}
    MaxCopies   = 0
    MaxPrints   = 1
    MaxInFlight = 1
    MaxDeaths   = 0
    None        = None
    FirstDay   <- EndOfDecember
    LastDay    <- FirstOfFebruary
    Days        = {1, 31}
    Limits      = {1, 2}
INVARIANTS
    SnapshotsAreOfLastMonth
