CONSTANTS
    MaxTasks = 2
    MaxGoogle = 2
    Fields = {"title"}
    BatchSize = 1
    MaxEdits = 3
    MaxMoves = 1
    MaxFaults = 1
SPECIFICATION FairSpec
INVARIANTS
    OneCopy
    NothingStranded
PROPERTIES
    NoSilentOverwrite
    Converges
