SPECIFICATION Spec
CONSTANTS
    SequenceSize = 2
    WorkerIds    = 2
    WorkerId     = 1
    MaxClock     = 4
    MaxSetBacks  = 2
    MaxRestarts  = 1
INVARIANTS
    TypeOK
    IdsAreUnique
    IdsIncrease
