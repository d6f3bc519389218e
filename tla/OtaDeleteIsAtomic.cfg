SPECIFICATION Spec
CONSTANTS
    Versions  = {v1, v2}
    Uploads   = {u1, u2}
    Deletes   = {d1, d2}
    MaxRows   = 2
    MaxFaults = 1
    None      = None
INVARIANTS
    DeleteIsAtomic
