SPECIFICATION Spec
CONSTANTS
    Macs        = {m1, m2}
    Serials     = {s1, s2}
    MaxCopies   = 0
    MaxPrints   = 1
    MaxInFlight = 2
    MaxDeaths   = 1
    None        = None
    FirstDay   <- EndOfDecember
    LastDay    <- FirstOfFebruary
    Days        = {1, 31}
    Limits      = {1, 2}
INVARIANTS
    TypeOK
    RowIsCurrent
    DeltasAreNotNegative
    HistoryFollowsFormula
PROPERTIES
    CountersNeverFall
    HistoryIsFrozen
SYMMETRY
    Symmetry
