CONSTANTS
    Clients = {c1, c2}
    Pool = 2
    Times = {"am", "pm"}
    MaxReceipts = 1
    MaxStarts = 3
    MaxMoves = 2
    MaxRemote = 1
SPECIFICATION Spec
SYMMETRY ClientSymmetry
INVARIANTS
    MovesNeverDeadlock
    MovesReachGoogle
PROPERTIES
    UndoRevertsItsOwnMove
CHECK_DEADLOCK FALSE
