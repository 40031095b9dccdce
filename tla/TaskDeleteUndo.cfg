CONSTANTS
    Tasks = {t1, t2}
    Linked = {t1}
    Legacy = {t1}
    Focused = {t1}
    Clients = {c1, c2}
    Window = 2
    MaxReceipts = 2
    MaxEdits = 3
    MaxFaults = 1
SPECIFICATION FairSpec
INVARIANTS
    HeldWhileUndoable
    RestoredEventSurvives
    NothingMissed
PROPERTIES
    RestoresLatestDeletion
    ExpiredDeletionsSettle
    NoFalseRefusal
    NoAutomaticReturn
    OnlyOwnDeletionsReachGoogle
