SPECIFICATION Spec
CONSTANTS
    Macs       = {m1, m2}
    All        = All
    None       = None
    MaxCalls   = 3
    MaxBreaks  = 2
    MaxCrashes = 1
INVARIANTS
    TypeOK
    SubscribedWhileUp
    EachReportItsHandler
    EachInOnePlace
PROPERTIES
    CommandsKeepOrder
    QueuedIsObeyed
    ListensAgain
