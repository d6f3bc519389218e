SPECIFICATION Spec
CONSTANTS
    Conns      = {c1, c2}
    Channels   <- AllChannels
    None       = None
    MaxEvents  = 2
    MaxCrashes = 1
INVARIANTS
    TypeOK
    StreamsAreComplete
    AnswersAsDocumented
SYMMETRY Symmetry
