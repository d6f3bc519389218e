SPECIFICATION Spec
CONSTANTS
    Macs        = {m1, m2}
    Identifiers = {i1}
    Registers   = {q1, q2}
    Patches     = {p1, p2}
    Deletes     = {d1, d2}
    MaxRows     = 2
    MaxFaults   = 1
    None        = None
INVARIANTS
    TypeOK
    OneRowPerPrinter
    RowsHaveFiles
    FilesHaveRows
    UnlockIsEarned
    ToldIsCurrent
    NamedIsUnlocked
    LatestAddress
PROPERTIES
    ImplementsCatalog
CONSTRAINT
    ThreeCalls
SYMMETRY
    Symmetry
